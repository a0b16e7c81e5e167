# FlowForge back end: verification project

TLA+ models of the NestJS back end (`src/src/`), checked with TLC, and theorems
about them proved with TLAPS.  Paths below are relative to `src/src/` unless
they start with `src/`.

## 1. The system

A modular monolith: one Node process per deployment serves REST and Socket.IO,
keeps its data in PostgreSQL through TypeORM, exchanges messages with a Python AI
service over NATS JetStream and stores files in MinIO.

| component | state it keeps | operations | talks to |
| --- | --- | --- | --- |
| Workflows (`modules/workflows`) | `workflow` row (status, current_version, share columns), immutable `workflow_version` rows | create, PATCH (with or without `elements_json`), archive, duplicate, exports, share link | audit log, NATS `workflow.events.updated`, MinIO |
| Sessions (`modules/sessions`) | `session` row: status, mode, archived_at, workflow | create, mode, finalize, archive, override, dispatchAiTask | AI gateway, audit, NATS |
| AI gateway (`modules/ai-gateway`) | `pipeline_execution` rows, `handledIds` sets in memory, `dead_letter` rows | publishAiTask, handlers of `ai.tasks.result`, `ai.tasks.divergence.result`, progress | sessions, workflows, NATS, realtime |
| NATS client (`infra/nats`) | durable consumers on the server, one loop per subscription | publish, subscribeDurable | JetStream |
| Messages (`modules/messages`) | append-only `message` rows | create, cursor pagination, search, transcript | sessions |
| Rules (`modules/rules`) | `rule`, `rule_version` rows, `activeRuleCache` in memory | CRUD, activate, reorder, test, import/export, versions | audit, AI gateway |
| Skills (`modules/skills`) | `skill` rows with embeddings, one ACTOR_CATALOG per organization | CRUD, activation, import, semantic search | embedding service, audit |
| Comments (`modules/comments`) | `comment` rows; approvals inside `elements_json` of the latest version | CRUD, resolve, assign, approve, inject | workflows, realtime, AI gateway |
| Documents (`modules/documents`) | `document` rows, MinIO objects | upload, edit, delete, preprocess result | NATS, realtime |
| Organizations (`modules/organizations`) / projects | `user`, `refresh_token`, `organization`, `project` rows | invite, role, revoke; project CRUD | audit |
| Realtime (`modules/realtime`) | rooms of connected sockets | join/leave with permission check, bridge NATS events to rooms | NATS |
| Health (`modules/health`) | cached last result, pending pings | periodic check, GET | NATS, database, MinIO |
| Audit (`modules/audit`) | immutable `audit_log` | append, query, export | all |

What makes it hard:

* **Interleaving at every `await`.**  Requests and the message loops share one
  thread, so code between two awaits is atomic and everything else interleaves.
  Almost no code takes a lock or a transaction.
* **`repository.save(entity)` writes a copy back.**  TypeORM reloads the row and
  writes every column in which the entity differs.  An entity loaded three
  awaits earlier undoes what others stored since.
* **At-least-once delivery.**  `ack_wait` 30 s, `max_deliver` 3, nak with a
  delay, `onExhausted` and `term` on the last delivery, the process may die
  between any two of these.  Idempotency sets are in memory and filled at the
  end of the handler.
* **Two numbering schemes.**  `WorkflowsService.update` numbers a version from
  `current_version`, the AI handler from `MAX(version_number)`; a unique
  constraint and a trigger stand behind both.
* **Check, then write** in separate queries: last administrator, rule conflicts,
  document quota, share views, catalog names.

What makes each component correct:

* Workflows: version numbers are 1, 2, 3, ... with no gap and no reuse; a row of
  `workflow_version` never changes; an acknowledged PATCH has its version.
* NATS client: each message is applied or dead-lettered, and that is final.
* Sessions: the status moves along the table of `session-fsm.ts`; a session does
  not hang in PROCESSING; archiving covers the session's pipelines.
* AI gateway: an acknowledged result was applied to the task it belongs to, is
  not applied twice, and a failed one marks its pipeline FAILED; as far as the
  payload tells which task that is.
* Rules: no two active rules of a scope conflict, every version of a rule is
  recorded, the caches follow every change.
* Comments: an approval that was acknowledged is kept and stands in the version
  its request read; an edit does not undo another one.
* Documents: a row has its object, the limit of the session holds, late results
  respect deletions and corrections.
* Skills: one active catalog, embeddings belong to the name and content they
  rank, what was deactivated stays so.
* Organizations: always an active administrator, none of the revoked users has a
  refresh token, the audit log tells the truth.
* Realtime: only permitted sockets are in a room, and who is in it misses
  nothing unless the message was given up.  Health: an answer is no older than
  the life of the cache and the check it comes from, alerts follow the cache.
* Share links: at most `shareMaxViews` views.

## 2. Modules

| module | models | state and actions |
| --- | --- | --- |
| `WorkflowVersions` | one workflow row, its versions, all their writers | `workflow`, `versions` are the rows; `request[r]`, `ai`, `creation` are the local variables of a request, of `GenerationCompleteHandler.handle` and of `create()`. One action per awaited query, those of the exports included. |
| `MessageOutcome` | what a durable subscription promises | `outcome[m]`: unsent, pending, applied or dead; abstract specification |
| `NatsDelivery` | `subscribeDurable`, its consumer and the server side of it | `stream`, `count` are the server's view of a message, `buffer` and `loop` the client's, `dlq` the `dead_letter` rows |
| `SessionFsm` | `session-fsm.ts` | the table and its two readers; no state |
| `AiPipeline` | one session, its tasks, both result consumers and the other session requests | composes `NatsDelivery` (`Nats == INSTANCE NatsDelivery WITH Msgs <- Dispatches`) and `SessionFsm`; `dispatch[d]`, `handler`, `comparing`, `ops[o]` hold the entity copies in flight, `named` says which results carry their ids |
| `RuleBook` | the rules of one organization and `RulesService` | `rules`, `history` are the tables `rule` and `rule_version`, `activeRuleCache` and `simulationCache` the two in-memory caches, `request[r]` a request's locals. `Load`, `Check`, `Snapshot`, `Save`, `Audit` are shared by PATCH, activate, deactivate and delete, whose calls differ only in which of them they make |
| `Comments` | the comments of one workflow and the approvals inside `elements_json` of its latest version | `comments`, `versions` are the rows, `request[r]` holds the copy of a comment or of a version that is going to be written |
| `Documents` | the documents of one session, the bucket, the preprocess results | `docs` are the rows, `objects` and `bucket` the MinIO side, `answer[d]` the task and result of a document, `handler` the copy in `handlePreprocessResult` |
| `Skills` | the skills of one organization | `skills` are the rows with the text (name and content) their embedding was made from, if they have one; the calls of the embedding service stand between the checks and the writes; `SemanticSearch` filters, cuts and ranks |
| `Organizations` | the users of one organization, their refresh tokens and what `audit_log` says of them | `users`, `refresh`, `trail`; `request[r]` the copy a change is going to save |
| `Realtime` | the Socket.IO gateway and the bridge from JetStream | `socket`, `rooms` the connections, `joins` the `joinRoom` handlers between two queries, `inbox` the deliveries not acknowledged, `received` what clients got |
| `Health` | the checks behind GET /health, their cache, alerts and pings | `cache`, `alerted`, `call[r]` with the measurements so far, the clock `now` that says how old they are |
| `*History` | what happened to the requests of the module of that name | history variables (below) that guard no step, the properties that speak of them, and what makes those inductive |
| `*_proofs` | theorems about the module of that name and its history (section 4); `AiPipeline_proofs` has those about `SessionFsm`, `Realtime_proofs` those about `Health` and `RuleBook` | |
| `MC*` | instances for TLC | model values and symmetry |

How the action names map to functions is in `PROJECT.json`, "map".

The history modules add variables that the program does not have; they let one
run ask both what holds under every interleaving and what holds unless two steps
got in each other's way:

* `overlapped` (WorkflowVersions, AiPipeline, RuleBook, Organizations): two requests
  or handlers have ever been in flight together;
* `raced` (Comments, Documents, Skills, Organizations): the rows of which two
  requests have held a copy together; `crowded` (Documents, Skills): two requests
  were between their check and their insert together; in Skills also: two requests
  held the copy of a catalog together;
* `crossed` (AiPipeline): two tasks of the session were open together, from the row
  of the pipeline to the last delivery of the result; `finished`: the results handled
  to the end in this life of the process; `deleted`: DELETE went through;
* `granted`, `asked` (Comments): the approvals acknowledged, and those a request
  asked for on the version it found the latest; `asked` (Skills): PATCHes that set
  `isActive`;
* `copied` (Documents): a document was reprocessed; `shifted` (Skills): an import
  kept out an item that was not its last; `stale`, `staleCopies` (Skills): the skills,
  and the copies about to be saved, that a PATCH of the name alone or an import left
  with the embedding of another text or with none;
* `cut` (Organizations): users of which a request failed on its way; `excused`,
  `excusedFor` (RuleBook): cache entries stored late or not invalidated because a
  call failed;
* `late` (NatsDelivery): `ack_wait` expired on a delivery the client still held;
  `watching` (Realtime): who was in the room since the message was published,
  `failed`: how often its lookup failed; `silent` (Health): services of the first result, which is never alerted.

A property named `Serial...` is claimed only where the history says that nothing
overlapped: the code checks and writes, or loads and saves, in separate calls.  What
an overlap does is told under "Observations".

### Abstractions

* `save(entity)` is one atomic step that stores the whole entity: TypeORM reads
  the row and writes the differing columns in one call, and the window between the
  two is not modelled.  The insert, update and commit of `update()`'s transaction
  are one step too (`TxWrite`): the unique index serialises the inserts.
* Only columns that several writers share are kept.  Titles, tags, confidences,
  messages, snapshots and reports are left out; a failing call among them is
  `AiFail` or `HandlerFault`.  Audit rows are kept where they decide something: in
  `Organizations`, in `Skills` (the foreign key refuses them), in `Comments` and in
  `RuleBook`.
* Each request has its own correlation id (see the hazard about
  `x-correlation-id`).
* A result either names its task (`named`: it carries `correlation_id` and
  `pipeline_execution_id`, the contract of `ai.tasks.result`) or is the simplified
  payload that `ai-gateway.subscriber.service.ts:187` describes and
  `enrichResultPayload` completes from the latest pipeline of the session; the
  service chooses for each result.  The key of an anonymous result is the
  `natsMessageId` of that pipeline, or made from the clock (`Fresh`, never met again)
  as long as `publishAiTask` has not saved it.
* The AI service is external: it answers a task at most once, after any delay.
  `SlowAi` restricts the delay to "after the dispatching request has ended".
* In `AiPipeline` the version rows are a counter per result (`versions`): their
  races are the subject of `WorkflowVersions`.  A version row there is its number
  and its writer; approvals inside it are the subject of `Comments`.
* Divergence results are consumed one at a time from a queue and stay at its head
  until handled; their exhaustion is not modelled.
* A rule is reduced to where it applies (type, scope, agent and workflow as one
  value) and what it says; two rules that say different things stand for rules whose
  conditions overlap and contradict.  A PATCH of the priority alone is left out (it
  makes the same calls).  `rule_version` rows with equal contents count once.
  Imported rules start at version 1.  What an import wants to insert is chosen when
  it gets to its check.  The simulation cache has one sample text per rule.
* A comment's text is the request that wrote it.  `elements_json` is the set of its
  elements, which of them are archived or approved, and whether it is an array at
  all.  Who writes a version is left out in `Comments`.
* A document's size is a small number, its text is none, extracted or corrected.
  The delivery of preprocess results in `Documents` is `NatsDelivery` without
  `onExhausted`, reduced to what a result can see: one at a time, again after a
  failure or a late acknowledgement, at most `MaxDeliver` times.
* A skill is its name, its content and whether it is the ACTOR_CATALOG.  The
  embedding is the pair of name and content it was computed from, or none; how near
  it is to a query is a constant, any function `Similarity`, compared with
  `MinSimilarity` (0.35 in the code) and cut to `TopK` (5).  Among equals any order
  is possible.
* A user is whether the role is admin and whether the row is active.  Log-in is not
  part of the repository; `Organizations` lets any active user get a refresh token.
* Each organization in `Realtime` has one workflow with one session and one
  pipeline, so a room is a kind and an organization.  Of a payload only the ids that
  address it are kept; a progress message may lack that of its pipeline, as
  `ai-gateway.subscriber.service.ts:125` says, and then goes to `pipeline:undefined`.
* In `Health` a service is what its indicator reports at the time of its
  measurement.  A check may take any time: the database, pgvector and MinIO are
  called without a timeout.
* What a request still does after its last write (audit row, publish, reading the
  answer back) may fail by itself: in `WorkflowVersions` the request then answers 500
  with its version committed (`RequestFails`).
* Delays (5 s of nak, 30 s of ack_wait, timeouts) are "later".
* In the exports, the reconciliation and criticality checks are abstracted to the
  status check; both read, neither changes state.

## 3. Runs

| run | question | what it shows |
| --- | --- | --- |
| `versions_race` | two requests of any kind, creation, one result with three deliveries, failing calls and crashes at any step | numbering without gaps, no save refused by the trigger, one version per acknowledged request; without overlap `current_version` is exact at rest and no request is refused |
| `nats_delivery` | two messages, three deliveries, two crashes, late acknowledgements | the verdict is final (refinement of `MessageOutcome`), at most one dead-letter row, a message is lost only by a crash on its last delivery; exactly once while handlers are prompt |
| `pipeline_results` | two tasks, results with and without ids in any order, duplicates, a crash | acknowledged means applied, COMPLETED means applied, handled is not applied again before a restart: for results that name their task always, for anonymous ones while no two tasks are open together |
| `pipeline_ops` | one task with either form of result against two other requests, overrides to VALIDATED and ARCHIVED among them, duplicates, a crash | without overlap a deleted session stays archived with its pipelines and only divergence results leave the table |
| `pipeline_settles` | liveness of two tasks with as many failing calls as a result has deliveries | tasks settle, exhausted pipelines are FAILED, PROCESSING ends; the exceptions the code makes are in the properties: an exhausted result without ids leaves its pipeline PENDING, any exhausted result leaves the session PROCESSING |
| `rules_caches` | three requests of any kind on two rules, a failing call, expiry, crashes | a cache entry is stale only between a save and its invalidation, after a late fill or after a failed call; without overlap active rules never contradict and every overwritten version is recorded, crashes and failures included |
| `comments_review` | three requests on two comments, approvals of two elements over three versions, a failing call | an approval lands only on the version its request found the latest, the progress shown is that of the latest version, edits and approvals are lost only to a request that held the same row |
| `documents` | three requests, results that are late, repeated or dropped, a failing call | rows have their objects, in an encrypted bucket; an orphan is paid for by a failure; limit, numbering, deletions and corrections hold unless copies overlap |
| `skills_library` | three requests with the embedding calls, which may fail, in between | one active catalog unless founding requests overlap, an import is shifted, a PATCH activates a catalog or two requests hold copies of one; search gives the nearest active skills by the text they show, unless one was left behind by a renaming or by an import; nothing becomes active unasked |
| `organizations` | three changes of two administrators and an invited user, log-ins, a failing call | an administrator remains, revoked users hold no tokens, the audit log is true, each unless requests overlap or (the last two) one fails |
| `realtime` | two sockets, three kinds of token, every kind of room and message, failing lookups, two deliveries, crashes | rooms hold only whom they may; who listens from publication to settlement gets every event, unless the lookup failed on every delivery |
| `health` | two callers of GET /health whose checks overlap and last any time, pings, restarts | a status in an answer is less than the life of the cache and the length of its check old; the alerts tell the cached result |

Bounds.

* Versions and pipelines.  Two writers besides the creation and the AI handler are
  enough for every stale-copy pattern: one loads, another writes, the first saves;
  the creation and the handler serve as third and fourth.
  `DtoStatus = {VALIDATED}` suffices because the code treats every status of the
  DTO alike and VALIDATED is the one that opens the export.  Three deliveries are
  the code's `max_deliver`; the pipeline runs use two, one and its repetition.  The
  two failing calls of `pipeline_settles` are then enough to exhaust a result, of
  either form and in either order of the tasks; it has no crash and handlers that keep
  within `ack_wait` (`Prompt`), since a message that a crash takes from the last
  delivery is lost (`LostOnlyOnLastDelivery`).  `pipeline_results` is constrained by
  `ResultsOnly` to states in which no divergence result has come back and to AUTO
  mode: neither concerns what it asks.  One crash in a pipeline run separates "before" from
  "after" (`handledIds` is empty again); two in `nats_delivery` hit two deliveries
  of one message.  `Targets = {VALIDATED, ARCHIVED}` are the statuses an override is
  least expected to leave or to reach: the override to ARCHIVED sets `archivedAt` and
  leaves the pipelines alone.
* Rules.  Three requests are a writer, a reader that fills the cache and an import
  that uses it; a bundle of two has an item that conflicts with the other.
* Comments.  Three requests are two holders of a copy and a writer between them;
  two elements tell an approval that is lost from one that is kept; three versions
  put two new ones after the one a request read.  `ElementsStay` bounds the inputs:
  a new version keeps the elements of the one before.
* Documents.  Files of 1, 2 and 3 units against limits of 2 and 3 give a refused
  file, a refused sum and two files that fit only one at a time; two names; three
  rows, one per request; two deliveries are one and its repetition.
* Skills.  Three requests; two names and two contents; an import of two has an item
  that is shifted when the first is kept out; two rows, of which a search with
  `TopK = 1` has to leave one out.  `Similarity` puts the same content above, the same
  name alone above and nothing in common below the threshold.  `NewSkills` lets new
  skills have one name; PATCHes give them either.
* Organizations.  Two founders are the last two administrators; the third user
  is invited; three requests are two that overlap and one that undoes.
* Realtime.  Two sockets and two organizations; a member, an administrator and a
  token without organization; one join on its way at a time and one message with two
  deliveries, so that its lookup may fail once, twice, or before and after a lost
  acknowledgement.
* Health.  A service that is measured and `nats`, whose indicator calls nothing; two
  callers whose checks overlap, each asking as often as it likes; a clock to 4 with a
  life of 2, so that a result expires and a check may last longer than that.  The clock
  bounds the run and no check: at its end every check is still under way or not.
* `MaxFaults = 1` (Rules, Comments, Documents, Organizations) fails any single call;
  the calls of `versions_race`, `skills_library` and the lookups of `realtime` may fail
  any number of times.  `CHECK_DEADLOCK FALSE` everywhere:
  requests end, and a system without requests rests.

Fairness (`NatsDelivery!Fairness`, `AiPipeline!Fairness`) is weak fairness of: the
server's delivery and its ack_wait timer; the loop of a subscription and each step of
a request once begun (the event loop runs every ready continuation, and each awaited
call returns or throws); the restart of a dead process (container policy); the answer
of the AI service (an assumption about an external program).  Nothing is assumed about
users posting.  Faults are not assumed away: the properties say what an exhausted
result leaves behind.

### Observations

What the models and the reading behind them showed and no run above states.

Where the code and the repository's documents disagree (each found by TLC as a
counterexample to the property without its condition, or by reading):

* A title PATCH that overlaps the creation stores `current_version` 0 again, and
  the next PATCH with elements is refused by the unique constraint, although
  nobody else writes a version (`src/Backend_Issues.md:362`).
* An AI result that comes late reopens a workflow that is VALIDATED, EXPORTED or
  ARCHIVED (`src/TODO.md:1105`).
* A crash during the third delivery loses the message: no application, no
  `dead_letter` row (`src/specs.md:1757`).
* A DELETE of a session that overlaps a dispatch leaves the new pipeline out
  (`sessions.controller.ts:79`, "Archive a session and related rows").
* Results without ids take the pipeline and the key of the latest pipeline.  With two
  tasks open, the second is acknowledged as handled and never applied, or completes the
  pipeline of the first, whose own stays PENDING; redelivered after a third dispatch a
  handled result is applied again (`src/Backend_Issues.md:325`).  The properties of
  `pipeline_results` excuse this and nothing else.
* Two rules that contradict each other both pass their check when their requests
  overlap (`src/Backend_Issues.md:649`).
* `document.preprocess.result` is subscribed without `onExhausted`, so its third
  failure ends the message with no `dead_letter` row (`src/TODO.md:923`).
* `src/TODO.md:1089` lets `user_finalizes` start from any status; the table
  excludes VALIDATED, EXPORTED, ARCHIVED and ERROR.
* Approvals rewrite `elements_json` of a version in place; versions are meant to be
  immutable (`src/Backend_Issues.md:362`).
* `src/Backend_Issues.md:639` asks for a hard delete of rules, the code deactivates.

AI gateway: `publishAiTask` saves the pipeline it inserted once more after the publish
(`ai-gateway.service.ts:95`): if a result is handled in between, its COMPLETED becomes
PENDING again, which `CompletedMeansApplied` allows.  A result without ids that
exhausts its deliveries leaves its pipeline PENDING, since `RetryExhaustedHandler` has
no fallback for a missing `pipeline_execution_id`; and no exhausted result, with ids or
without, fires `PIPELINE_ERROR`, so its session stays PROCESSING.  A result handled
before `publishAiTask` has saved the `natsMessageId` gets a key from the clock, under
which no redelivery is recognised.

Exports: the BPMN and PDF exports insert an audit row the foreign key refuses.

Comments: the approvals of two reviewers that overlap lose one.  The request to approve
names elements and no version, so a version added after the reviewer opened the page is
approved unseen.  `injectToAi` throws
at the lookup of the session, which asks for a relation `userId` that the entity
declares as a column, so it ends before the gateway.  The
controllers of comments and skills name the strategy `jwt` while `JwtAuthGuard` uses
`jwt-access`.  `notification.review_request` has no subscriber,
`triggerReviewerNotification` no caller, and `getAssignedToMe` does not look at the
organization.  `getReviewProgress` rounds: with 200 elements or more it shows 100 while
one in 200 is not approved.

Documents: two uploads pass the check of the limit together or get one number;
reprocessing checks nothing and counts the bytes again; a rejected bucket promise is
kept until the restart; a late result undoes a correction made after it was loaded.
The `deletedAt: null` of the list is ignored by TypeORM.  `document.ready` goes out
twice, once by the handler and once by the bridge.

Skills: a PATCH of the name alone keeps the embedding of the old name
(`skills.service.ts:149`), although the embedding covers both (`:528`).  The audit row
of create, update and remove carries the id of the skill as `workflow_id`; the foreign
key refuses it and the request answers 500 after its change was stored.  An import that keeps an item out pairs the following items with
the embeddings of their predecessors.  `isMandatory` of a PATCH is never applied.
`listMandatorySkills` and `retrieveTopKSkills` have no caller.  Overlapping PATCHes of a
catalog that is deactivated bring it back next to a new one; that takes four requests,
one more than the run has, and was found with four and imports of one.

Organizations: two overlapping demotions leave no administrator; `updateUserRole`
brings back a user revoked meanwhile.  Revoking an inactive administrator is refused
when one active one remains.  The invite token is neither mailed nor returned in
production.

Realtime: nothing puts a client into the room of its organization.  The progress the AI
service sends names no pipeline, so the rooms of pipelines get none of it.
`document.ready` is lost when the lookup of its document fails on all three deliveries.
Who leaves a room while its join waits for a query is put back in.  Health: a check that
hangs on the database answers with statuses as old as it has hung.
`@Roles('Admin')` never matches `admin`, so GET /health/details answers 403; a missing
pgvector extension counts as up; the NATS indicator calls nothing and is never down;
a ping before the first check caches an empty result, whose aggregate is ok.

## 4. Proofs

Every safety property a run checks, state invariant or action property, is a theorem
for all values of the constants: any number of requests, rows, results, deliveries,
failures and crashes.  The theorems rest on the assumption on the constants of their
module (`WVAssumption`, `NDAssumption`, ...); the few that need more say so and are
marked below.  Which theorem states which property is in `PROJECT.json`, "theorems".

The argument is the same everywhere.  A property is seldom inductive; what it needs is
a fact about the local variables of the requests in flight, and these facts stand,
named, next to the property (`IInv`, in the history modules `SerialInv`,
`HistoryInv`, `PromptInv`, ...).  TLC checked each of them as an invariant of the run
of its module before it was proved.  A proof has one lemma per action, or per group of
actions that disturb the same conjunct, and derives the properties from the invariant.
The invariants about history are stated relative to it ("unless `overlapped`, ..."),
so the proof also shows that the history variables excuse no more than they say.

`WorkflowVersions_proofs`

* `Invariance`: `NumberedWithoutGaps` needs `PendingWritesBounded`: the number in
  `request[r].version` or `ai.version` is at most `Latest + 1`, and the row and every
  copy to be saved carry a number that exists.  An insert that passes the unique
  constraint is then `Latest + 1`, and no save is refused by the trigger.
* `TypeCorrect`, `NumberingHasNoGaps`, `TriggerIsNeverReached`,
  `VersionRowsAreImmutable` follow.  `OneVersionPerAcknowledgement` needs that the
  versions a request has made are counted by where it stands (`VersionsByRequest`).
* `CurrentVersionIsLatest` and `SerialVersionsAreAccepted`, about one writer at a time,
  from `SerialInv`: who is in flight is alone and what it has read is still so
  (`ReadsStand`); the row is an older number than the latest version only after a
  creation or a result that stopped between the version and the row (`RowIsCurrent`).

`NatsDelivery_proofs`

* `Invariance`: the server counts its deliveries and makes no more than `MaxDeliver`
  (`CountsMatch`); the deliveries of a message stand in buffer and loop in the order
  they were made, each handled once (`InOrder`); after the dead-letter row nothing is
  left of the message but its termination (`DeadIsLast`); until the process dies
  the last delivery is on its way to the loop or has left its trace
  (`LastIsAccountedFor`).  Without the order an earlier delivery could be handled after
  the dead-letter row.
* `DeliveriesStayConsistent`, `NothingIsGivenUpSilently` (for a subscription with
  `onExhausted`), and `PromptIsExactlyOnce`: until an ack_wait expires on a delivery the
  client holds, there is one delivery of a message in hand (`OneInHand`), and a message
  that has left its trace is settled or about to be (`TracedOnce`).
* `VerdictsAreFinal`: the refinement of `MessageOutcome`: the initial state maps to
  an initial state and every step to a step or a stutter.

`AiPipeline_proofs`, which includes the theorems about the table of `SessionFsm`

* `TransitionIsDeterministic` (rules for one event agree on the target, so the "first
  match" of the code is the only match that counts), `TransitionLeadsToTarget`,
  `ArchivedIsAbsorbing`; all rest on the case analysis `RuleTarget`.
* `ConsumerIsDurable` and `ResultVerdictsAreFinal`: the composition.  The variables of
  the subscription change by the steps of `NatsDelivery` only, so the verdict on a
  result is final with sessions and handlers around it; no hypothesis.
* `Invariance`, for both forms of result: besides the invariant of the subscription,
  the handler is where the loop is (`HandlerFollowsLoop`); a named result is taken for
  its pipeline under its own key, an anonymous one under the `natsMessageId` of the
  pipeline it is taken for (`KeysFollowPayloads`); a result has fewer versions than
  deliveries (`VersionsFollowDeliveries`); what is handled has a version, or stands for
  an anonymous result that has one (`HandledMeansApplied`); a dispatch before its insert
  has no task (`DispatchesInOrder`), and tasks, results and handlers have the rows of
  their pipelines (`RowsExist`).
* `CrossInvariance` adds the history: while no two tasks have been open together, an
  open task is the latest of the session, so the pipeline and the key an anonymous
  result is given are its own (`OneAtATime`), and what was handled to the end is
  remembered (`FinishedIsKept`).  Hence `ResultsStayConsistent`, `CompletedIsApplied`
  and `HandledIsNotReapplied`, without hypotheses, and `ExhaustedIsFailed` for `SlowAi`:
  an answer that overtakes its request may be overwritten by `SaveNatsId` after it was
  FAILED.
* `SerialInvariance`, `TableIsKept`, `ArchiveCovers`, without hypotheses: without
  overlap the copies that are saved are what is stored (`CopiesAreCurrent`), no task of
  an archived session is on its way, and once DELETE went through its session and
  pipelines are archived (`ArchiveIsComplete`).  A result that is redelivered afterwards
  is refused by the table, which accepts no result in ARCHIVED, or by its status forced
  to another it finds the pipeline archived and leaves it so.

`Comments_proofs`

* `ReviewIsConsistent`: types and the arithmetic of `getReviewProgress`.
* `Invariance`: a copy of a comment nobody else holds is the row with one edit, a copy
  of a version has at least the approvals of the row (`CopiesAreFresh`), and what is
  about to be written was asked for on the version that was read (`WritesWereAsked`).
  Hence `ApprovalsAreKept`, `ApprovalsOfVersionRead`, `EditsAreAtomic`.  What page the
  reviewer had open is no part of it.

`Documents_proofs`

* `Invariance`, `StorageStaysConsistent`: that a row has its object follows from what
  requests still hold: a request comes to its insert with its object stored, to its
  save with a copy that names the object of the row (`CopiesNameObjects`).  Orphans are
  counted, so that they are finitely many is part of the induction; they grow only when
  a request fails, by that request.
* `HistoryInvariance`, `ChecksHold`, `AloneWritesStand`: the number drawn is beyond
  those of its name (`NumbersAreNew`), what was checked against the limit still fits
  (`RoomIsLeft`, with lemmas about sums over the rows), and a copy that has its row to
  itself differs from it by what it was made for (`CopiesAreFresh`).

`Skills_proofs`

* `Invariance`, `TypeCorrect`, `CatalogsStayMandatory`: copies and bundles on their way
  make a catalog mandatory too (`CopiesAreMandatory`), and an import pairs its items
  within the bundle (`ImportsInRange`).
* `HistoryInvariance`: whoever is going to found a catalog is alone and there is none
  (`FoundingIsAlone`), what is stored or held has the embedding of its text unless a
  renaming or an import left it behind (`EmbeddingsMatch`), a copy changes `isActive`
  only as asked (`CopiesAreAsked`).  Hence
  `CatalogStaysUnique`, `ActivationIsAsked` and, for every `Similarity`,
  `MinSimilarity` and `TopK`, `SearchesFind`.

`Organizations_proofs`

* `TypeCorrect`; only users hold refresh tokens.
* `Invariance`: a copy nobody races for is the row, edited (`CopyIsFresh`); an
  administrator about to be demoted or revoked has been counted and is not the only one
  (`CountStands`); the audit row to come makes up the difference between trail and row
  (`TrailWillMatch`).  Hence `LastAdminIsKept`, `RevokedHoldNoTokens`, `TrailMatches`.

`Realtime_proofs`, in three parts

* The gateway: `Invariance`, `ClientsStayAuthorized`, `ListenersAreServed`.  The last
  query of a join compares the room with the organization the handler noted when it
  began; `JoinsCarryTheToken` says that this is the socket's own while the socket is
  open, and that a socket never opens twice.  For the listeners the deliveries used up
  are counted against the lookups that failed (`OnlyLookupsFail`).
* `Health`, whose alerts the gateway sends on: `AnswersStayRecent` (a check measures
  while it runs, `ChecksInTime`, and leaves nothing older than its length in the
  cache, `CacheInTime`; the length is not bounded) and `AlertsTell`.
* `RuleBook`: `RulesInvariance`, `RulesStayConsistent`, `RulesAgree`,
  `OverwritesRecorded`.  A request without company holds the row as it is
  (`CopyIsCurrent`) and what it has found out about the active rules, by its query or
  from a cache entry that is not stale, is still so when it writes (`FindingsHold`);
  a stale entry therefore needs its excuse in the induction, not only as a property.

What the proofs corrected.  That the progress shown is 100 means that at most one
element in two hundred is left, not none (`Math.round`), and one catalog needs that no
two requests hold copies of it (section 3, Observations): the runs are too small to
meet either.

Only model-checked: liveness (`LostOnlyOnLastDelivery`, `TaskSettles`,
`ProcessingEnds`), which like `ENABLED` is out of the prover's reach.  So are the
induction theorems of the library; where a proof needs induction over numbers (the sums
in `Documents_proofs`) it takes the least counterexample.  The theorems are about the
safety part of the specifications; they use no fairness.

## 5. Not modelled, and the plan

Done, in this order: `WorkflowVersions`, `NatsDelivery` with `MessageOutcome`,
`SessionFsm`, `AiPipeline`, `RuleBook`, `Comments`, `Documents`, `Skills`,
`Organizations`, `Realtime`, `Health`, and the proofs of section 4.

Next:

1. share links (two columns and a check before an increment) and projects, as small
   modules;
2. the duplicate window of the stream (`Nats-Msg-Id`) as part of `NatsDelivery`;
3. the mapping to Elsa activities and the pagination of messages, as operators
   against a reference definition;
4. proofs: every safety property the runs check is proved; what new modules add is
   to be proved with them.

Left out for good: DTO validation, guards, filters and logging (no shared state),
configuration, MinIO (pure I/O), PDF and BPMN rendering, audit queries and exports
(they read an append-only table), `StreamTokenHandler` (constructed, never
subscribed), entity and migration declarations beyond the constraints used above.
