# A verification project for the Autonomous Deployment Platform

The platform runs DevOps workflows: a workflow *instance* owns *tasks* that
depend on each other, the *workflow service* moves both through their statuses,
every change is announced through a *transactional outbox* and NATS JetStream,
and an *agent runtime* executes tasks with an LLM agent. Identity and
organization are separate services of the same construction.

This directory holds TLA+ models of that code, the TLC configurations that
check them and TLAPS proofs about them. Paths below are relative to `src/`.

## 1. The system

### Components and their state

| Component | Where | State | Operations |
|---|---|---|---|
| Task service | `apps/workflow/application/task_service.py`, `domain/tasks.py` | `workflow.tasks` | ready, start, complete, fail, retry, cancel, request and receive approval |
| Instance service | `application/instance_service.py` | `workflow.workflow_instances` | create, start, complete, fail, pause, resume, cancel, retry, time out, signal |
| Dependency engine | `application/dependency_service.py` | reads `workflow.task_dependencies` | unlock children of a completed task; cascade a failure |
| Outbox rows | `domain/outbox.py` of each service | `<schema>.outbox_events` | staged by every handler in its own transaction |
| Outbox publisher | `packages/messaging/outbox.py` | `_is_running`, a batch of locked rows | start, stop, process a batch |
| Event bus, NATS publisher and subscriber | `packages/messaging/nats/` | streams, durable consumers | publish, subscribe, ack, nak, dead-letter |
| Idempotency | `apps/workflow/application/idempotency_service.py` | `workflow.processed_events` | check, mark |
| Blueprints, timeline | `blueprint_service.py`, `timeline_service.py` | `workflow_blueprints`, `workflow_events` | create and update; list |
| Agent runtime | `apps/agent_runtime/` | `agent_runs`, `processed_events`, outbox | handle a task-ready event, ReAct loop, tools |
| Identity | `apps/identity/` | users, roles, keys, and Keycloak | invite, enable, disable, assign |
| Organization | `apps/organization/` | organizations, departments, projects | create, update, suspend |
| Redis helpers | `packages/redis/` | a key per lock, a sorted set per client, cached values | acquire, release, is_allowed, set, delete, delete_pattern |

### How they interact

* A client's HTTP request runs a handler of a service in a thread of its own,
  with a database session of its own (`packages/database/client.py:36-45`).
* The handler changes rows and stages outbox rows in that session; one
  `db.commit()` writes all of it. `complete_task` calls the dependency engine
  before its commit.
* In each service process but the organization's, a background task runs the
  publisher: it locks PENDING outbox rows with `FOR UPDATE SKIP LOCKED`,
  publishes them to JetStream and commits their new status.
* A durable consumer of a stream hands messages to a listener and acks them.
  The listeners that exist log, or publish one more event: the organization
  service answers `identity.events.user.invited` with a department. The agent
  runtime's handler for task-ready events is called by its tests only.
* The identity service calls Keycloak and commits its own row and outbox row
  afterwards; there is no common transaction.
* Redis executes one command or script at a time; locks, rate-limit windows and
  cached values share the key prefix `cortexops:`.

### What is hard

* Sessions neither flush before a query (`autoflush = False`, `client.py:21`)
  nor lock or version the rows they load, and PostgreSQL reads what is
  committed at each statement: handlers act on stale copies.
* The dependency engine takes one statement per child; requests for other
  parents or for the children themselves come in between.
* A process can die, or a client disconnect, anywhere; a commit can succeed
  whose answer is lost; a publish can succeed whose ack is lost.
* Publishers of several processes share one table and retry for ever or up to
  a limit, oldest rows first.
* A message whose ack is late, lost or never sent is delivered again, at most
  `max_deliver` times, to whichever process of the queue group is up.
* A lock's holder may outlive the lock; clocks of rate-limited processes differ.
* Consumers see duplicates, in part because every publish has a `Nats-Msg-Id`
  of its own (`packages/messaging/nats/publisher.py:25`).

The hazards of the code, each at its line and with the properties that would
show it, are listed in `PROJECT.json`.

### What makes the components correct

* *Workflow*: a change and its announcement are one; no child runs before its
  parents; an accepted request behaves as one indivisible change; every
  request ends.
* *Outbox*: a row is never lost, never closed without being sent or given up
  for cause, never held by two workers, copied only because of a fault; every
  row is closed in the end.
* *Consumers*: a message is given up only after every delivery met a fault, and
  its effect is repeated only because of one; the agent of a task is executed
  at most once, and its run, outbox row and processed event agree.
* *Redis*: a lock has one holder while its time to live lasts, and comes free;
  a window lets no more requests through than its limit.
* *Identity*: whatever Keycloak, the rows and the events disagree about is due
  to a failure half way, or to an operation that bypasses one of them.

## 2. Modules

| Module | Role |
|---|---|
| `WorkflowDomain` | statuses, operations, what each assigns and announces (constants) |
| `WorkflowService` | the service: requests, sessions, the dependency engine, commit, crash |
| `WorkflowProperties` | its type invariant, safety, action and liveness properties, the inductive invariants |
| `AtomicWorkflow` | abstract: every accepted request is one indivisible change |
| `MCWorkflow` | instances for TLC |
| `WorkflowService_proofs` | theorems about the service however requests overlap |
| `WorkflowChanges_proofs` | what a commit changes: announcements, and the refinement of `AtomicWorkflow` by requests that do not overlap |
| `OutboxPublisher` | the publishers, their properties and inductive invariant |
| `ReliableDelivery` | abstract: what an outbox promises about its events |
| `OutboxPublisher_proofs` | theorems about the publishers, among them the refinement |
| `AgentRuntime` | `handle_task_ready_event`: handlers, the two transactions, the ReAct loop |
| `SingleExecution` | abstract: what that handler promises to whoever delivers events |
| `AgentRuntime_proofs` | theorems about the handler, among them the refinement |
| `MCAgentRuntime` | an instance for TLC |
| `NatsConsumer` | a durable JetStream consumer as `Subscriber.subscribe` sets it up |
| `Identity` | users, Keycloak accounts, roles and memberships |
| `Organization` | organizations, departments, projects and their events |
| `Onboarding` | composes `Identity`, `ReliableDelivery`, `NatsConsumer` and `Organization` |
| `Onboarding_proofs`, `OnboardingDelivery_proofs` | theorems about the services' rows and accounts, and about the listener |
| `MCOnboarding` | an instance for TLC |
| `RedisCoordination` | lock, rate limiter and cache on one Redis |
| `RedisCoordination_proofs`, `RedisLimiter_proofs` | theorems about lock and cache, and about the sliding window |
| `MCRedis` | an instance for TLC |

### WorkflowService and the code

One element of `Req` is one HTTP request, and `session[r]` its handler and its
SQLAlchemy session: `dirty` and `instance` are the attributes to flush,
`staged` the added outbox rows, `phase` the next statement, `reply` the answer.

| Action | Code |
|---|---|
| `StageTask`, `RejectTask`, `TaskMissing` | a `TaskService` handler up to its commit: the row is loaded, the state machine of `Task` applied, the event staged; or 422; or the row does not exist |
| `ReadChildren`, `ReadParents` | `evaluate_downstream_tasks`: the query of the PENDING children, then one query per child |
| `CreateInstance`, `StageInstance`, `InstanceMissing` | the `InstanceService` handlers |
| `ReadRoots` | the query and loop of `start_instance` |
| `BuildError` | `fail_task`, `fail_instance`: pydantic rejects their event |
| `Commit`, `FlushError` | `db.commit()`: one transaction, or an error of the flush |
| `Crash` | the process dies or the connection drops before the commit |

The load of a row and everything up to the next statement is one action, since
nothing else can be seen in between. A `Commit` may leave the client without an
answer (`reply = "lost"`) or with a 500, since `db.refresh()` follows it. Event names leave out the prefix `workflow.events.`
that all but one of them share. The columns other than the status are left out:
no guard of a handler reads them except `retry_count`, which cannot change
(`retry_task` never commits, see below).

`everCompleted` is a history variable; `timeline` is `workflow.workflow_events`.

### OutboxPublisher and the code

`worker[w]` is one publisher process: its flag and the batch its transaction
holds, split into rows not tried yet, marked as processed, and marked as failed.
`Poll` is the SELECT; `Publish`, `MarkFailed` and `PublishDeadLetter` are the
steps between awaits; `Commit`, `CommitFails`, `MarkFailedRaises` are the ends
of `process_events`; `Stage` is any handler's commit. `Poison` rows are those
whose publish always fails (a payload above the server's limit, for example).
`rowModel` says which class the rows have: the publisher calls
`mark_failed(..., max_retries=5)`, which the rows of workflow, identity and
organization accept and those of the agent runtime do not.
The stream and its server are external: a publish delivers, fails, or delivers
and loses its ack.

### AgentRuntime and the code

`call[h]` is one call of `handle_task_ready_event` in a thread or process of its
own: `phase` is the next statement, `iteration` the count of the ReAct loop.
`Deliver` is whoever calls the handler, and may deliver an event twice.

| Action | Code |
|---|---|
| `Malformed`, `Check` | the ids of the payload; the idempotency check (`event_handlers.py:36-50`) |
| `CreateRun`, `CommitRunning` | the INSERT of the run, flushed, then RUNNING and the first commit; the unique `task_id` rejects a second run |
| `Generate` | one call of the LLM client with its three attempts: an answer, a request for tools, or an exception |
| `UseTools` | the tools of one iteration: `ToolsReturn` goes on with the loop (what a tool raises is its output), `ToolUnknown` ends it |
| `MarkFailedRaises` | the agent's result is FAILED: `mark_failed(error=...)` is a TypeError |
| `StageFinished`, `CommitFinished` | run, outbox row and processed event, flushed in that order, and the second commit |
| `CallFails`, `CommitUnanswered` | a crash or database error, before or after a commit took effect |

A statement that inserts a key another open transaction has inserted waits
(`MayInsertRun`, `MayInsertProcessed`), as PostgreSQL's unique indexes do. `run` has
the labels of the database type; the code's CANCELED and TIMEOUT are written by
methods nothing calls. `Replies` stands for any client: `OpenAILLMClient` as it
is can only raise, since `_create_chat_completion(self, param)` is called with
other keywords; the tests pass clients that answer.

### NatsConsumer and the code

`message[m]` is the server's view of a message of the durable consumer, `member[c]`
a process of its queue group with what it was handed. `Deliver`, `AckWaitExpires`
and `TakeOff` are the server, modelled from the configuration the code gives it
(explicit acks, `ack_wait`, `max_deliver`); the rest is `_msg_handler`:
`HandlerReturns`, then `Ack` or `AckLost`; or `HandlerRaises`, which enters the
`except` block and leaves it at once (`Except`). `Leave` loses what a member was
handed. Every failure, a handler slower than `ack_wait` included, is a fault.

### Identity, Organization and Onboarding

`Identity` has one handler in progress: `async def` handlers that await nothing
run one after the other in the event loop, while `Patch` and `DeleteRole`,
declared with `def`, run in threads between any two of its steps.
`Begin...` is the load and its early returns, `CallKeycloak` the blocking call,
`Commit` the row and its event, `CommitRejected` a commit the database refuses
(`Refused`: a unique column, a foreign key, an UPDATE or DELETE that finds no row).

A user stands for a row and for the Keycloak account of the address invited.
`link` and `email` are the row's `keycloak_user_id` and address: an invitation sets
both to the user, and only `Patch` changes them. `PATCH /users/{id}` runs `setattr`
for every key of its payload (`users.py:48`), so `Patch` sets any status, any
Keycloak id that no other row has (one of `Other` has no account), any free address,
may empty `roles`, and may change `id`, which the database allows while no membership
refers to it; a handler that has loaded the row then misses it (`lost`). The other
columns are left out: nothing reads them. `patched` and `lent` remember whom and which
ids and addresses a PATCH has touched; the properties except those and no others.
`heard` and `granted` are what the staged events amount to. `Before` are users who were
invited and became ACTIVE earlier, so that a behaviour can begin with a row that is in
use.

`Organization` makes a request one step, since nothing is awaited in it and there is
one process; a request that commits nothing is no step. The statuses that are ever
committed are the third argument of `UpdateStatus`. Its PATCHes set relationships too
(`org_service.py:50-51`, `department_service.py:49-52`, `project_service.py:50-53`):
`home` is a part's organization, `UpdateOrganization` may empty the departments or the
projects and `UpdatePart` may set a part's organization to null, and the
delete-orphan cascade (`domain/organization.py:38-39`) deletes the rows (`GONE`) with
only the update staged. A row stands for itself
under whatever id or slug it has. No property is stated about these rows: every request
changes them in one step and promises nothing about another, so what one could say of
them would restate an assignment.

`Onboarding` shares the state of the parts: the commit of an invitation accepts an
event of the outbox (`Invite`), a send of the outbox puts a copy into the stream
(`Relay`), and the listener's effect is the announcement of a department.
`FollowersAgree` speaks of the identity service's events only. The
publisher appears as `ReliableDelivery`, which `OutboxPublisher` is proved to
implement.

### RedisCoordination and the code

A command or script is one step. Times are ages in ticks: `client[c].clock` is how
long `c` has waited or held, `zset[a]` the members of the sorted set whose score is
`a` ticks old, negative for processes whose clock is ahead. `Acquire` is the SET NX
EX that succeeds; tries that fail change nothing. `Release` is the Lua script.
`Allow` and `Deny` are the limiter's script, which removes old scores in either
case; `AllowSameTime` is a ZADD of a score that is there, `FailOpen` an exception.
`BeginPurge`, `PurgeKey`, `PurgeReturns` are `scan_iter` and the DELETEs between
its batches; `PurgeKey` may also take a matching key that the scan need not return.
`robbed` and `passed` are history variables.

## 3. What is checked

The runs take from seconds to about two minutes with two workers.

| Run | Instance | What it shows |
|---|---|---|
| `overlap` | join a, b -> c; 3 concurrent requests among start, complete, cancel, start_instance, request_approval; seeds PENDING and COMPLETED; symmetric requests | `OutboxAtomic`, `UnlockJustified`, `ChangesAnnounced` hold however statements interleave |
| `all_operations` | chain a -> b -> c; 2 instance ids; 2 concurrent requests for any of the 18 operations; seeds PENDING and FAILED | `TypeOK`, `SessionInv` (the inductive form of the three), `RequestsEnd` (liveness) |
| `serial` | the join; 4 requests one after the other | `UnlockedOnce`, `CancelledNeverRuns`, `AnnouncedTruly`, `SerialInv` (their inductive form), and `Atomically`: the service implements `AtomicWorkflow` |
| `outbox` | 2 workers, 3 rows (1 poison), batches of 2, 2 retries, 2 faults | types, `Exclusive`, `GivenUpJustly`, `CopiesNeedFaults`, `PInv`, `Delivers` (refinement), `RowsSettle` (liveness) |
| `last_parent` | violation of `LastParentUnlocks` | finding 1 |
| `roots` | violation of `ReadyRespectsDependencies` | finding 2 |
| `lost_update` | violation of `RunningFromReady` | finding 3 |
| `agent_rows` | violation of `AnyRowSettles` | finding 4 |
| `agent_handler` | 2 handlers; 3 events, two about one task and one malformed, each delivered twice; 2 iterations; 2 faults | `OneExecution`, `FinishedTogether`, `StrandedForCause`, `Promise` (refinement of `SingleExecution`), `CallsEnd` (liveness) |
| `onboarding` | 2 users, one of them there before; 1 Keycloak id besides; 1 role, organization, department, project; 1 listener; 2 deliveries, 1 copy, 3 requests, 2 faults | `RowsHaveAccounts`, `LockedOut`, `FollowersAgree`, `NoPhantom`, `LossNeedsFaults`, `RepeatsNeedFaults`, `OInv` (their inductive form), `Onboarded` (liveness) |
| `redis` | 2 clients, time to live 2, timeout 1; 2 processes with clocks 1 apart, window 2, limit 2; 1 cached key; 1 fault | `Exclusive`, `LimitHolds`, `DeniedJustly`, `PurgeComplete`, `KInv` (their inductive form, `HolderOwnsKey` among it), `ComesToRest` (liveness) |
| `dead_letter` | 2 messages, one whose handler always raises; 3 deliveries; violation of `DeadLettered` | finding 5 |

### Bounds

* Three tasks and a join are the smallest graph where a child has a parent
  besides the one that completes, so both ways the engine can err (too early,
  too late) exist; the chain adds a task that is child and parent at once.
* Two overlapping requests suffice for every two-party race; the third in
  `overlap` lets both parents complete while a third request changes the child.
  Four requests in `serial` allow complete a, complete b, complete b again,
  and start the instance again.
* Seeds stand for histories that are too long to replay: rows that are
  COMPLETED, or FAILED (set from outside, since `fail_task` cannot commit).
* `MaxRetries` is 2 for the code's 5, `BatchSize` 2 for 50: a poison row meets
  its limit after more than one batch, and three rows do not fit one batch.
  `MaxFaults` bounds crashes, lost acks, failed publishes and failed commits
  together; `MaxCopies` = 4 is above the most copies two faults can make with
  rows of the usual class, and only rows of the other class saturate it.
* Two handlers and two deliveries are what a race for a key needs; a third
  delivery could only meet what the second does. Two iterations tell "answers"
  from "never answers" for the code's five.
* `MaxDeliver` is 2 for the code's 3, and as many faults are allowed: a loss by
  faults happens, and one fault fewer loses nothing. The publisher sends one copy:
  another is another message, with deliveries of its own, and the ledgers are kept
  per message; the theorems cover any number of copies. Three requests allow invite,
  a change of status and a PATCH, or a PATCH that takes an address or a Keycloak id,
  an invitation and a change of status, or assign, remove and a PATCH or the role's
  deletion between the two. Two users are what it takes to give one's id or address to
  the other; the id besides is one Keycloak does not know. An organization, a
  department or project in it and a PATCH are three requests too.
* A lock that lives two ticks can be held, outlived, taken over and released
  late. A window of two ticks and clocks one tick apart leave ages at which the
  processes differ about a request; the limit of two lets equal timestamps meet a
  window that is not full. The window less the skew, which is what `LimitHolds`
  speaks of, is one tick here; `KInv` and `LimitCorrect` cover wider ones. Behaviours in Redis have no end: only faults are
  bounded.
* Deadlock is not checked: requests are finite and clients may stop sending.

### Fairness

`WorkflowService`: weak fairness of each request's own steps (`Proceed`): a
thread of the pool runs its handler to the end. Sending a request and crashing
are never required.
`OutboxPublisher`: weak fairness of each worker's loop (`Work`), which holds
while its event loop is alive; no worker must ever be started or restarted, so
`RowsSettle` assumes that some worker stays up for good.

`AgentRuntime`: weak fairness of each handler's steps: a thread runs its call to
the end, waiting for keys as long as it has to; nobody has to deliver an event.
`Onboarding`: weak fairness of the publisher's loop for a row it has not sent (the
loop does not end, and a row that is given up disables it), of the server, and of
each listener's start and callback. Requests are never required.
`RedisCoordination`: time passes, and the event loop comes back to a task that
waits in `acquire`. The body of a lock may never end: `ComesToRest`
follows from the time to live and the timeout alone.

### Serial against overlapping requests

Four properties hold only if requests do not overlap (`Overlap = FALSE`), for
the reason finding 3 shows: sessions write over each other. `UnlockedOnce`
fails when two requests complete one parent a second time together,
`CancelledNeverRuns` and `AnnouncedTruly` when a stale copy is committed. They
are kept as the guarantees a client has that waits for each answer. They say nothing
of the hazards that stale copies are when requests overlap: `RunningFromReady`, which
`lost_update` refutes, does.

## 4. Findings

1. *The last parent does not unlock its child* (`last_parent`). The engine
   queries the parents' statuses before the COMPLETED of its own task has been
   flushed. A child of one parent is only unlocked by a second `complete_task`.
   `AtomicWorkflow!CompleteTask` states what the code does instead.
2. *Starting an instance readies the wrong tasks* (`roots`):
   `Task.dependencies.any()` selects the tasks that do have dependencies.
3. *Lost updates* (`lost_update`): a task cancelled by one request is set to
   RUNNING by another that loaded it before. The handler for `StaleDataError`
   in `workflow_main.py` never fires, as no column is a `version_id_col`.
4. *The agent runtime's rows never fail* (`agent_rows`): `mark_failed` raises
   `TypeError`, the whole batch is rolled back and tried again for ever.

5. *Nothing is dead-lettered* (`dead_letter`): `await msg.metadata()` raises in the
   `except` block, so a message whose handler always raises is redelivered by
   `ack_wait` and dropped after `max_deliver`.

Seen while modelling, and not worth a run of their own because a single call
shows them:

* `fail_task` and `fail_instance` always answer 500: `error_message` is a `str`
  (`packages/events/services_events/workflow_events.py:55,109`), the details are
  a dict. So no failure is ever recorded and `cascade_failure` never runs; it
  would recurse for ever on a cyclic graph and cancel a diamond's end twice.
* `retry_task` assigns RETRYING, which `workflow.task_status` does not have
  (`scripts/03_workflow_schema.sql:31-38`): the flush fails, 500.
* `complete_task` and all instance operations accept any status; the methods of
  `WorkflowInstance` that would object are not called. A completed instance can
  be started again. The plan wants services that "enforce status transitions
  (e.g., cannot go COMPLETED->RUNNING)" (`docs/Misc/implementation_plan.md:128`).
* An unknown instance is answered 500 where 404 is meant:
  `WorkflowInstanceNotFound` is built without `blueprint_id`.
* The timeline shows unlocks only: no other handler writes `workflow_events`.
* Rows beyond their retries become FAILED; the status DEAD_LETTER that
  `apps/workflow/workflow_test.py:439` speaks of is never assigned.
* Duplicates are not recognised by JetStream (a random `Nats-Msg-Id`), where the
  plan has `Nats-Msg-Id = event_id` (`implementation_plan.md:166`).
* Three handlers pass `_log_event` its arguments in the wrong order, so their
  rows carry the instance as aggregate and the task as aggregate type.
* The organization service starts no publisher.
* A run of the agent runtime that its agent, or a crash, leaves RUNNING stays so:
  every redelivery meets the unique `task_id` and fails. `StrandedForCause` says
  that nothing else leaves one.
* `OpenAILLMClient` raises TypeError on every call (see above).
* `EventBus.publish_event` raises on every call: `model_dump` has no parameter `model`.
* `create_role` and the operations on API keys raise before their commit;
  `update_department_status` commits nothing (a UUID in its payload).
* An account that Keycloak created before a failed commit blocks every later
  invitation of that address with a 409.
* `PATCH /users/{id}` can disable a user who can still log in; `{"roles": []}` takes all
  roles away without an event; `{"keycloak_user_id": ...}` leaves a row without an
  account, or with another's, whom its next change of status then locks out, and an
  invitation whose id or address was taken meanwhile fails after Keycloak has created
  the account. Deleting a role, and setting a user back to INVITED, are not announced.
* `PATCH` of an organization with `{"departments": []}` or `{"projects": []}`, and of a
  department or project with `{"organization": null}`, deletes rows without an event
  of their own; the latter is answered with 500 (the refresh of the deleted row) after
  it was committed.
* `delete_pattern("*")` deletes locks that are held and rate-limit windows.

## 5. What is proved

TLAPS checks the theorems for every value of the constants that satisfies the
assumption of the module (`ServiceAssumption`, `PublisherAssumption`,
`RuntimeAssumption`, `RedisAssumption`, `OnboardingAssumption`); TLC evaluates each
of them. Every safety invariant, every action property and every refinement that a
passing run checks is a theorem. The bounds `MaxFaults`, `MaxCopies`,
`MaxRequests`, `MaxDeliveries` are arbitrary naturals, and the sets of requests,
workers, handlers, listeners and clients may have any size.

*Workflow service* (`WorkflowService_proofs`), for any tasks, dependency graph,
instances, operations and number of overlapping requests:

* `TypeCorrect`: `Spec => []TypeOK`. It carries weight through `Flushable`: the
  committed status is always a label of the column.
* `Inductive`: `Spec => []IInv`. `OutboxAtomic` and `UnlockJustified` are not
  inductive: a commit could leave rows of a request that was already answered,
  or an unlock that was not justified when it was staged. `InFlight` adds what
  the sessions hold: no rows and no answer before the end, and every staged
  unlock is justified. `CompletedRemembered` links the statuses the engine
  reads to `everCompleted`, which only grows, so that a justification stays
  valid until the commit although the statuses may change.
* `OutboxCorrect`, `UnlockCorrect`: the two conjuncts.

*What commits change* (`WorkflowChanges_proofs`):

* `ChangesCorrect`: `Spec => ChangesAnnounced`, for overlapping requests. Its
  invariant is `StagedAnnounces`: whatever a session has changed, one of its staged
  rows names it. That the row is new in the outbox, and not one an earlier commit
  left, is `InFlight` again. `SessionsCorrect` puts both into one, `SessionInv`.
* With `Overlap = FALSE` as a hypothesis, `SerialCorrect`: `Spec => []SerialInv`.
  At most one request is open, and `OneChange` says of its session, from the
  committed rows alone, what it holds at each phase: a half-read `complete_task` has
  made READY exactly the children it has looked at whose parents are COMPLETED
  (`FoundReady`). Because nobody else commits meanwhile, this stays true until the
  commit. The third conjunct, that an unlocked task is never PENDING again, makes
  `UnlockedOnce` inductive: the engine unlocks PENDING tasks only, and no
  operation assigns PENDING.
* From it `AtomicallyCorrect`, the refinement of `AtomicWorkflow`: the commit is the
  abstract step, everything else, crashes and refused flushes included, leaves the
  rows alone. `CancelledCorrect` is then proved of `AtomicWorkflow` alone;
  `UnlockedOnceCorrect` and `AnnouncedTrulyCorrect` follow from `SerialInv`.

*Publisher* (`OutboxPublisher_proofs`), for any number of rows and workers:

* `Inductive`: `TypeOK` and `PInv`. To `Exclusive` it adds the shape of
  sessions, that a row is marked as published only when it is in the stream
  (`PublishedIsInStream`), and two ledgers: failures (`RetriesPaid`) and copies
  (`CopiesPaid`) are paid for by faults. `CopiesPaid` has to distinguish a row
  whose publication is or will be recorded from one whose copy is already
  charged to a fault.
* `TypeCorrect`, `ExclusiveCorrect`, `GivenUpCorrect`, `CopiesCorrect` follow.
* `Refinement`: `Spec => Delivers`: each step is a step of `ReliableDelivery` or
  leaves its state alone; a commit closes what its session marked.

*Agent runtime* (`AgentRuntime_proofs`), for any events, tasks, handlers,
deliveries, iterations and faults:

* `Inductive`: `TypeOK` and `RInv`. `OneExecution` is not inductive: nothing in it
  keeps a second call from having passed the idempotency check. `CallsAgree` adds
  what a call at each phase knows of its keys (past the INSERT, and until it ends,
  it is the only call of its task that does so), and `ExecutionsHaveRuns` that a task
  whose agent was executed has a run, so the unique `task_id` rejects every later
  call.
* `OneExecutionCorrect`, `FinishedCorrect`, `StrandedCorrect` follow. The run
  `agent_handler` checks these three; the rest of `RInv` is there for the proof.
* `Refinement`: `Spec => Promise`: the first commit starts the abstract
  execution and the second one ends it, whether or not the caller hears of it.

*Redis* (`RedisCoordination_proofs`, `RedisLimiter_proofs`), for any clients,
processes, keys, times to live, windows, limits and clock skews below the window:

* `HolderCorrect`: `HolderOwnsKey` is inductive together with the types, and
  `ExclusiveCorrect` follows from it: two clients within their time would own the one
  key. `PurgeCorrect` rests on `OldAreLeft`.
* `LimitCorrect` and `DenyCorrect` rest on four conjuncts of `KInv` about numbers of
  requests by age: where all clocks agree that a request is in the window, the
  sorted set counts it or a fault let it through (`PassedAreCounted`); the sorted
  set itself is within the limit there (`CountedWithinLimit`); its EXPIRE loses
  nothing that still counts (`QuietSinceExpire`); and what it counts did pass, at an
  age off by at most the skew (`CountedHavePassed`). Totals are cardinalities of
  sets of pairs, so that the lemmas about them (what adding one entry, ageing by
  a tick and removing old scores do) rest on the theorems about finite sets
  instead of an induction; the proof carries that these sets are finite.

*Onboarding* (`Onboarding_proofs`, `OnboardingDelivery_proofs`), for any users,
roles, organizations, listeners, deliveries, copies and faults:

* `RowsHaveAccountsCorrect`, `LockedOutCorrect`, `FollowersCorrect` rest on
  `IdentityInv`, which says of each user what the handler will meet at its commit
  (`RequestAgrees`) and what the row and the account have in common (`RowAgrees`) while
  threads change rows in between. A PATCH can disturb users other than its own: it may
  give them, or take from them, an id. That is kept apart by one fact, that a row's
  Keycloak id and address are its own or in `lent`: a call to Keycloak for one user
  then reaches another row's account only if that row is excused, and an invitation is
  refused without a fault only if its address or id was lent.
* `LossCorrect` and `RepeatsCorrect` rest on two ledgers per message
  (`ConsumerInv`): the deliveries counted against it, less those a member still has
  in front of it, are paid for by faults (`LossesPaid`), and so is every effect but
  one (`RepeatsPaid`). A delivery in front of a member is a pair of the member and a
  place in its inbox; when a member takes the next message the places behind it move
  up, and the lemma `NextMessageCounts` gives the bijection.
* `NoPhantomCorrect` rests on `StagedWithUser`: the stream holds only what was
  staged, and that only with its user. `TypeCorrect` needs the same ledgers, since
  the delivery count is bounded.

The proofs have one lemma per action and one step per conjunct it can disturb.

### Only model-checked

* `RequestsEnd`, `RowsSettle`, `CallsEnd`, `Onboarded`, `ComesToRest`: liveness under
  fairness is beyond the prover.
* The five statements that the code violates are refuted by counterexamples.
* That `Overlap = FALSE` is needed for the serial theorems: the behaviours that
  break them are described in section 3 and found by TLC.

## 6. Not modelled, and the plan

What is left to prove:

1. How far `UnlockedOnce` and `AnnouncedTruly` hold when requests overlap but do not
   touch the same task: the hypothesis `Overlap = FALSE` is stronger than needed.
2. The safety part of the liveness arguments: that each loop of the models
   decreases a measure (children still to look at, iterations, deliveries), which
   leaves to fairness only that steps are taken.

Not modelled:

* `cascade_failure`: its only caller raises before the call.
* The idempotency decorator of the workflow service: applied to nothing; it would
  raise at its first statement, since `workflow_db_session()` is a generator.
* The agent orchestrator, execution service and registry: called by nothing.
* Blueprints, service accounts, API keys and the attributes of roles: rows changed
  by single requests that no other operation reads, or that always fail. The
  listing of the timeline changes nothing.
* The users the development seed inserts: their Keycloak ids are made up, so no
  account belongs to them. The users `Identity` starts with were invited.
* A user's name, avatar, time zone and locale, an organization's plan and settings, and
  what a PATCH sets them to: no operation reads them.
* Typed events (`publish_event`, a subscriber without a handler): publishing one
  always raises, and no listener is registered that way.
* Connections to NATS and Redis: left to the client libraries; a failure is a
  fault of the command that meets it.
* Configuration, logging, telemetry, token validation and deployment files hold no
  state the properties speak of.
