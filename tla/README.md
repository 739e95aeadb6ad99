# Execution service: TLA+ models and proofs

The execution service runs the two queues of a repair shop. It receives service orders
over RabbitMQ, lets a mechanic diagnose and repair them over HTTP, reacts to the payment
events of the saga, and announces each diagnosis and each outcome through a transactional
outbox. It is a TypeScript service over Postgres (TypeORM) and RabbitMQ (amqplib);
`src/k8s/deployment.yaml` runs two replicas of it over the same database and broker.

No single function of this code is hard. What is hard is that every `await` of every use
case is a point where another handler, another request or the other replica runs, that
nothing locks or versions an order between its read and its write, and that messages are
delivered again after a failure. The models are about that.

Paths below are relative to the repository; `src/src` holds the implementation.

## Inventory

| Component | State it keeps | Operations | Interacts with | What makes it correct |
|---|---|---|---|---|
| `ExecutionOrder` (domain) | status, diagnosis, queue position, timestamps of one order | `receive`, `registerDiagnosis`, `enqueueForExecution`, `cancel`, `start`, `finish`, `fail` | called by the use cases on a private copy of the row | each method is refused outside its statuses; position set exactly in the queues |
| Use cases (`application/use-cases`) | nothing between calls; an entity and a fetched queue across awaits | `EnqueueForDiagnosis`, `RegisterDiagnosis`, `EnqueueForExecution`, `CancelExecution`, `StartExecution`, `FinishExecution`, `FailExecution`, two reads | repository; called by consumers and controllers | only heads leave the queues; nothing is repaired unpaid or after a cancellation; one outcome per order |
| `TypeORMExecutionOrderRepository` | `execution_orders`, the sequence `queue_seq` | `save`, `atomicSaveWithEvent`, `findByServiceOrderId`, `findQueue`, `nextQueueSeq` | Postgres | a row and its event commit together; an update writes only what differs from the row it loaded |
| Outbox relay (`OutboxPublisher`, `TypeORMOutboxRepository`) | `outbox_events`, a timer, the events of the poll | `poll`, `publishAndMark`, `stop` | repository, publisher; the other replica's relay | every committed event is relayed; an event is marked only after it was published |
| Broker connection (`RabbitMQConnection`, `LazyEventPublisher`, `RabbitMQEventPublisher`) | a connection and a channel | `connectWithRetry`, `connect`, `publish`, the `close` handler | the relay and, at boot, the consumers | a channel that dies is forgotten and replaced; connections do not pile up |
| Consumers (`EventConsumer` and its two subclasses) | `processed_events`; unacknowledged deliveries | `handleMessage`, `wasProcessed`, `markProcessed`, ack / nack | RabbitMQ, use cases | no event is acknowledged unhandled; duplicates change nothing; invalid events are dropped, others retried |
| HTTP API (`app.ts`, controllers, `errorHandler`) | the frames of its requests | four routes that change an order, one that reads it, one that lists a queue | use cases | a refusal changed nothing; the order shown is not behind the request |
| Boot (`server.ts`, `data-source.ts`, migrations, `env.ts`) | the schema | migrations, wiring, consumer start-up | everything | both replicas may boot together |

The behaviours that are hard to test, each at its line, are the `hazards` of
`PROJECT.json`; the properties below are aimed at them.

## Modules

| Module | Models | Kind |
|---|---|---|
| `ExecutionOrder` | the aggregate: one operator per method of the class | operators |
| `ExecutionUseCases` | the seven writing use cases over the repository and the database, any number at once | state machine |
| `ExecutionUseCases_proofs` | theorems about `ExecutionUseCases` | proofs |
| `OrderQueues` | what the service promises when one call runs at a time: two FIFO queues, a lifecycle, announcements | abstract state machine |
| `SerialUseCases` | `ExecutionUseCases` with one call at a time, and its refinement mapping to `OrderQueues` | refinement |
| `MCSerialUseCases` | a small instance of `SerialUseCases` | model checking |
| `SoloOrders_proofs` | theorems of `ExecutionUseCases` about orders no two calls shared | proofs |
| `SerialUseCases_proofs` | the refinement of `OrderQueues`, proved | proofs |
| `MCExecutionUseCases` | small instances of `ExecutionUseCases` | model checking |
| `OutboxRelay` | what the outbox promises the other services: at-least-once delivery | abstract state machine |
| `OutboxPublisher` | the outbox relays of the replicas, their channels and the broker; implements `OutboxRelay` | state machine |
| `OutboxPublisher_proofs` | theorems about `OutboxPublisher`, the refinement among them | proofs |
| `OutboxDelivery_proofs` | theorems about what the broker gets from the relays: order and copies | proofs |
| `RabbitMQConnection` | the connection object of one process, under the callers that share it | state machine |
| `RabbitMQConnection_proofs` | theorems about `RabbitMQConnection` | proofs |
| `HttpApi` | the routes about one order; extends `ExecutionUseCases`, whose calls the requests make | operations, composed by `EventConsumer` |
| `EventConsumer` | RabbitMQ's deliveries to the replicas and their handlers; extends `HttpApi` | state machine, composition |
| `EventConsumer_proofs` | theorems about the composition | proofs |
| `SoloAnswers_proofs` | unshared orders under handlers, routes and crashes, and what routes show of them | proofs |
| `MCEventConsumer` | small instances of `EventConsumer`: what the other services publish | model checking |

`EventConsumer` is the service as a whole: handlers and requests in two replicas drive the
use cases over one database, and the relay, as abstract as `OutboxRelay`, tells billing of
the diagnoses that make it publish payments. `OutboxPublisher` shows that the real relays
are such a relay, and `RabbitMQConnection` looks inside the connection that the relay and
the consumers share.

### How `ExecutionUseCases` corresponds to the code

`rows`, `queueSeq` and `outbox` are the tables and the sequence. `calls` holds what a call
in flight keeps on its stack: the statement it awaits, the entity it holds, the row
TypeORM loaded to compute the update. One action is one database statement with the
synchronous code after it, up to the next `await`:

- `Begin`: a consumer or a controller invokes `execute`.
- `FindOrder`: `findByServiceOrderId` and its branches (missing order; duplicate
  `order.received`; the head check `RegisterDiagnosis` only makes for an order in the
  diagnosis queue, and `StartExecution` always makes; otherwise the entity's method).
- `NextQueueSeq`: `SELECT nextval`, outside any transaction; a call that is refused or
  fails afterwards wastes its value.
- `FindQueue`: the queue query, the comparison of its first element, then the entity's
  method on the entity found by the *earlier* statement.
- `InsertOrder` / `RejectInsert`: the save of a new order and the `UNIQUE` constraint.
- `LoadRow`, `WriteRow`: TypeORM's save of an existing order is a `SELECT` by id and an
  `UPDATE` of the columns in which the entity differs from that row (`Updated`). Two
  calls can therefore interleave column by column. For the three use cases with an event
  the outbox row is in the same transaction.
- `Abort`: the statement fails or the process dies. `Commits` also allows a commit whose
  answer is lost: the caller sees a failure and the row has changed.

An update blocks on the row lock of another one until that one commits, and then applies
its own columns; a transaction is therefore one step at its commit, and its `SELECT` one
step before it (READ COMMITTED).

`paid`, `overlapped` and `ahead` are history: which orders a committed
`EnqueueForExecution` served, which orders two calls in flight ever shared, and which
order held its queue position when another took its own. No guard reads them. Timestamps,
the failure reason and the contents of a diagnosis are left out: no decision reads them.

### How `OutboxPublisher` corresponds to the code

`await[r]` is the promise the poll of replica `r` is suspended on, `batch[r]` the rest of
its `for` loop. `Create` stamps `createdAt` and `Commit` makes the row visible, since a
transaction can commit after a later-stamped one. `FindUnpublished` takes any page that
`IsPage`: pending rows only, in the order of their stamps, a full page or all there are,
and the oldest. `Connect` is `LazyEventPublisher` awaiting `connectWithRetry`; `Publish`
is the reply to `assertExchange` and the `channel.publish` that follows it, which writes
to `wire[r]`: the channel is not a confirm channel, so nothing tells the code what
`BrokerAccepts` did. `channel[r]` says whether the channel the replica keeps is `open`,
`dead` or none (`closed`). `ConnectDead` is the connection that closes in the read that
answers `createChannel`; the channel it leaves is dead from the start (the next section
has how), `assertExchange` throws on it (`PublishFails`), and it stays until another
connection of the process closes. `ConnectionDrops` is a `close` handler: it forgets the
channel, open or dead, and what was on the wire is gone. The connections a process has lost
track of are not in this module; their late closes are among its drops. `Crash` is the end
of the process and its restart. `missed` is history: the events that `publishAndMark`
failed to write or that were lost on a wire. Rows of the outbox only carry the three types `dispatch` knows,
so its `default` branch is not reachable and left out, and so is `stop()`, which only
tests call. `createdAt` is the `new Date()` of whichever replica writes the event: the
model takes these stamps to be totally ordered and the replicas' clocks to agree, which
`CausesComeFirst` needs and a real clock gives up to its skew.

The set of replicas is finite (`FiniteReplicasAssumption`: a deployment has a number of
them), which only the bound on the copies needs. The mapping to `OutboxRelay`: a copy is told when the broker accepts it; an event is
settled once it is marked and no poll and no wire still carries it.

### How `RabbitMQConnection` corresponds to the code

One process has one `RabbitMQConnection` and two callers of `connectWithRetry`: the start
of the consumers, once, and the relay, before each event. `await[c]` is what a caller is
suspended on, `own[c]` the connection on which it is creating a channel, `channel` the
field of that name. `connect` looks at the field (`Calls`, `Retries`), awaits
`amqplib.connect` (`ConnectionOpens`), awaits `createChannel` and only then sets the
field (`ChannelCreated`); a refused connection or one that closes in between sends the
caller to the delay (`ConnectFails`, `CreationFails`). `Closes` is the handler of any
connection, forgotten or kept: it clears the fields without looking whose they are.
`AnsweredAndClosed` is the one order in which that fails. amqplib handles all the frames
of one read in a row, and the continuation of an `await` runs after them: when the answer
of `createChannel` and the close of its connection are in one read, the handler clears the
field first, and then the continuation sets it to a channel that is dead. Such a connection
is `stillborn` (history). The relay goes on with that channel, and so does every later call
of `connect`; the start of the consumers, which uses it at once, throws, and its process
ends and starts again (`Restarts`). So does a start that finds a dead channel kept. A
channel is named by its connection. The field `connection` is only read by `close()`,
which nothing calls: both are left out.

### How `HttpApi` corresponds to the code

`requests[c]` is the frame of the route that serves client `c`. `Patch` is a request whose
body the route understands, up to the first await of its use case; `Serve` a step of that
use case and, when it throws, `errorHandler`; `ReadBack` the `GetExecutionOrder` by which
each route builds its answer, a statement of its own after the change; `Get` the route that
does only that. `BadRequest` is a body `parseParts`, `parseServices` or `fail` refuse, or
that is not JSON. `CodeOf` is `errorHandler`: 404, 409, 422, and 500 for the rest, which
includes the `SyntaxError` of `express.json`, whose own status it ignores. `took` is
history: whether a step of the request changed the tables.

### How `EventConsumer` corresponds to the code

A message is at one `place`: unpublished, ready in its queue, with a replica that has not
acknowledged it, acknowledged, or dropped (nacked without requeue; no dead-letter queue is
declared). `handlers[c]` is the frame of `handleMessage` around call `c`: the promise it
is suspended on, the replica it runs in and its message. The use case inside it is the
call `c` of `ExecutionUseCases`, advanced by `Step(c, out)`, so that a handler reacts to
what the use case answers in the same step: `handled` and then `markProcessed` when it
returns, `nack` by `isPermanentFailure` when it throws.

- `Tell`: the relay tells billing of a diagnosis that has been committed, in any order.
- `Publish` (external): the os-service publishes an order at any time; billing answers an
  order whose diagnosis it was told of. This is an assumption about billing, not code: a
  payment for an order the service does not know, which would be dropped as a
  `NotFoundError`, cannot occur here, and `NoPaymentIsDropped` and
  `OutcomesFollowToldDiagnoses` rest on that.
- `Subscribe` is the start of the consumers at boot, `Deliver` the callback of
  `channel.consume`. RabbitMQ delivers again what was requeued, so any ready message may
  be next; the prefetch of 10 is the number of `Handlers`.
- `Recall`: `wasProcessed` answers; the body is parsed and the use case begins. The
  bodies are three: one the consumers understand, one that throws an error
  `isPermanentFailure` knows (no service order id, no JSON), one that throws one it does
  not know (`null`: the `TypeError` of reading its field). A message without a
  `messageId` (`NoId`) is not looked up and leaves no record anybody can find.
- `Handle`, `MarkProcessed`, `StatementFails`: the rest of `handleMessage`. TypeORM's save
  of the record is a `SELECT` and an `INSERT`, which fails when another handler of the
  message was faster. It may also commit and its answer be lost, so that the handler
  requeues an event that is recorded; and a process may end between the two
  (`Restarts`, over any set of the records its handlers had sent).
- `Settles`: ack or nack, which reach the broker in the same step; one that is still
  buffered when the connection drops is left out (the event is then delivered again, as
  after a process that ended between the record and the ack). amqplib throws from both when
  the channel is closed; thrown by the `nack` in the `catch` block it rejects the promise of `handleMessage`, which is
  `void`ed: Node ends the process (`UnhandledRejection`).
- `ChannelCloses`: the broker closes the connection in order and only `close` is emitted:
  the messages are ready again, the handlers live on, and nobody subscribes again. A
  connection that is lost emits `error` as well, which has no listener and ends the
  process: a `Crash`.
- `Request`: one step of a route of `HttpApi`, in either replica.

`handled` and `faults` are history; `Fault` bounds failed statements, closed connections
and crashes by `MaxFaults` (`Counted` for those of a use case). An `INSERT` of an order
that exists fails without a fault.

## Runs

| Run | Question | Instance |
|---|---|---|
| `two_calls` | What do two use cases in flight, of any kind, keep from any stage in which orders wait? | 2 orders, each unknown or diagnosed, 2 calls, 2 more sequence values |
| `serial` | Does one call at a time keep the promise of `OrderQueues`? | 3 orders, 1 call, 7 sequence values |
| `outbox_two_replicas` | Are two relays over the same rows one at-least-once relay, and do they repeat or reorder events? | 2 replicas, 2 events, page 1, 2 faults |
| `connection` | Do callers that connect beside each other keep a dead channel, leak connections, or wait for ever? | 2 callers, 4 faults |
| `consumer` | From its first event on, can an event be taken for handled or dropped when it was not, an answer lie, or an outcome overtake its diagnosis? | 2 replicas, 2 handlers and a request, 1 order, 3 messages, 1 fault |
| `consumer_settles` | Is every delivery settled in the end, next to one that never can be? | 2 replicas, 2 handlers, a diagnosed order, 3 messages, 1 fault |
| `only_head`, `started_cancelled`, `one_outcome` | Statements of the service's README and tests that concurrent calls break. | 2 orders, 2 calls, 3 sequence values |
| `lost_event` | The same for the relay. | 1 replica, 1 event, 1 fault |
| `queued_twice`, `deaf_consumers` | The same for the consumers. | as `consumer`; 2 messages and 1 fault, 1 message and 2 faults |

Bounds. Two calls are what a lost update, a stale head check and a duplicate need, and two
orders what an overtaking needs. `two_calls` starts from every mixture of orders that are
not known yet and orders that await payment: from there each of them can still pass
through either queue, and two more values of the sequence let both take a position, or one
order both. Three orders in `serial` make a queue with a middle element, and 7 values allow
one wasted draw beside the six that three orders need. `PageSize` is 10 in the code; 1
makes a backlog of two longer than a page. A page of two whose first event fails is left to
the theorems, which hold for every page size. Four faults in `connection` let each caller
lose two connections; with one fault a kept channel dies or is dead from the start, with
two a forgotten connection closes after it. In `consumer` two handlers and two replicas are
what a zombie handler and its successor need, and the third call lets a request race both;
`MaxSeq` is never reached there. One fault keeps that run short; a zombie handler, a lost
answer, a failed read-back and a crash each need one. Only safety runs declare symmetry, of orders, calls, handlers
or replicas; the liveness runs use none. All runs check deadlock: a call can always begin,
a relay always polls, the caller `relay` always asks again, and the `null` of
`consumer_settles` is delivered for ever.

### What the properties say

For **every** order, however calls interleave and fail:

- `UniquePositions`: no two orders hold one queue position.
- `EveryStageIsAnnounced`: a status or diagnosis the saga must hear of is never in the
  table without its event in the outbox.
- `OutcomeFollowsDiagnosis`: no outcome is in the outbox before its diagnosis.
- `RepairOnlyAfterPayment`: no repair runs or ends for an order that was never paid.
- `OrdersAreReceivedOnce`: an order that has a row is not put into the diagnosis queue
  again, nor changed while it waits there: neither by a second copy of its
  `order.received`, which only the unique constraint stops, nor by a save that comes late.

For the orders **no two calls in flight ever shared** (the others may be overlapped at
will, so this says how far a race spreads):

- `SoloOrdersFollowLifecycle`, `SoloRowsAreWhole`, `SoloOrdersAnnounceOnce`: the README's
  lifecycle, one edge at a time; a row whose columns agree; one diagnosis, one outcome.
- `SoloOrdersNeverOvertake`: such an order never advances past one that held a smaller
  position when it took its own.

With one call at a time, `KeepsPromise`: the use cases refine `OrderQueues`.

For the relay:

- `ImplementsRelay`: together the replicas are one at-least-once relay: nothing is told
  before its transaction committed, nothing settled is told again, and only a fault
  settles an event nobody was told. `EveryEventIsRelayed` (liveness): every committed
  event is settled in the end, if some replica does not keep a dead channel for ever; a
  failure never ends the polling.
- `OnlyFaultsLoseEvents`; `CopiesAreBounded`: at most one copy per replica and fault;
  `CausesComeFirst`: whatever fails, a cause is told before its effect, unless another
  replica still carries it, or the cause itself failed to be written or was lost on its
  wire. Those are overtaken: `publishAndMark` leaves the failed event for the next poll and
  goes on with the ones after it. A failed query, a failed mark or a crash reorders nothing.

For the connection:

- `DeadChannelsAreStillborn`: the channel that is kept, on which the relay publishes and by
  which `/health` answers, is that of an open connection, or of one that closed in the read
  of its channel's answer. In every other order of connects and closes the handler forgets
  it, because it forgets whatever is kept. The exception is the code's (see the findings).
- `ConnectionsAreBounded`: callers that connect beside each other leave connections nobody
  uses and nobody closes. They are at most one per caller at first and one per caller
  after each close, so the leak does not grow while the broker is well.
- `CallersAreServed` (liveness): `connectWithRetry` outlasts refusals and closes; a caller
  gets a channel or its process starts again. The channel may be a dead one.

For consumers and routes:

- `AckedEventsWereHandled`: an event is acknowledged, or recorded so that it would be,
  only after its use case committed.
- `NoPaymentIsDropped`: the order of an approved payment that is dropped was paid by an
  earlier delivery or is being cancelled; an `order.received` is never dropped. This is
  where the permanent errors meet redelivery: the second run of `EnqueueForExecution`
  throws `InvalidTransitionError`, and that must only happen when the first took effect.
- `OutcomesFollowToldDiagnoses`: although the relay tells events in any order, no outcome
  is written before billing was told of the diagnosis: it was paid for.
- `RefusalsChangeNothing`: a request answered 404, 409 or 422 changed nothing; a lost
  answer or a read-back that fails is a 500. `SoloAnswersShowTheChange`: the order shown
  with a 200 is never behind the request it answers, unless calls shared it.
- `EveryEventIsSettled` (liveness): acknowledged or dropped in the end, the `null` bodies
  excepted, which circulate for ever but do not hold up the others. This is shown for
  fewer `null` bodies than handlers (one beside two), not for as many as the prefetch.

Fairness. For the relay, weak fairness of each replica's `Poll`, since the event loop
runs whatever is ready, `connectWithRetry` never gives up and every branch of `poll` ends
in `scheduleNext`; and of `BrokerAccepts`, since a broker that is up reads its socket.
For the connection, weak fairness of each caller's next step: a broker that is up answers
and a timer fires; that a caller calls is not fair.
For the consumers, weak fairness of the delivery of each message (a requeued message goes
back near the head of its queue, and a prefetch of 10 leaves room beside it), of each
handler's next step (Postgres answers), and of the restart of a process and its
subscription (Kubernetes). Publishing, telling and requests are not fair. Faults are not
fair and there are `MaxFaults` of them: the statements hold if faults end.
`ExecutionUseCases` states no liveness: a call never waits for another.

### Findings

- `only_head`: the README promises that only the head of a queue advances. The head check
  and the save are separate statements, and the position is drawn before the row that
  carries it is visible, so an order with a smaller position can appear between the check
  and the save.
- `started_cancelled`: the README and `ExecutionOrder.spec` refuse a cancellation once
  the repair has started. `CancelExecution` checks the entity it read, and its save then
  overwrites a `start`, or even a `finish`, that committed meanwhile. The same race in
  the other direction puts a cancelled order back into repair.
- `one_outcome`: `FinishExecution` and `FailExecution` that both read `IN_EXECUTION` both
  commit, and both events are announced.
- `lost_event`: an event is marked published when the channel buffered it; without
  publisher confirms a connection that drops then loses it for good.
- `queued_twice`: the README calls the consumers idempotent. Asking for the record,
  running the use case and writing the record are separate transactions; a message
  delivered again while its first handler lives on passes the question twice. If both
  calls read `AWAITING_PAYMENT`, the slower one puts the order into the execution queue
  after a mechanic started its repair.
- `deaf_consumers`: the consumers subscribe once, on the channel of boot. After the broker
  closes the connection (a restart of RabbitMQ, for one) the relay opens another and
  `/health` is well again, but nothing consumes; when it has happened to both replicas an
  order stays in the broker.

One more gap has no run of its own. `/health` is to tell the state of RabbitMQ
(`README.md:98`), but a connection that closes in the read that answers `createChannel`
leaves a dead channel in the field and `isConnected()` true: this is the exception that
`DeadChannelsAreStillborn` names and the premise of `EveryEventIsRelayed`. As long as the
channel is kept, `assertExchange` throws at every poll and the replica relays nothing;
another replica, if there is one, relays its events. This rests on the order in which
amqplib handles the frames of a read, which is not in the repository.

Two gaps in the README's handling of invalid payloads need no model: a message whose body
is `null` is not among the permanent errors and is requeued at once, for ever; and a
request whose body is not JSON is answered 500, not the 422 of the README's list
(`README.md:100`), because `errorHandler` does not look at the status `express.json` gives
its error.

## Proofs

No theorem depends on the instance: they hold for every value of the constants, from the
assumptions named below, all of which TLC evaluates in some run.

`ExecutionUseCases_proofs`, for every set of orders, calls and diagnoses and every
`MaxSeq`, from `NoDiagnosisAssumption` and `MaxSeqAssumption`:

- `TypeCorrect`: `Spec => []TypeOK`.
- `PositionsAreUnique`: `Spec => []UniquePositions`. The invariant is not inductive: a
  position that has left a row may be written back by a call that still holds it.
  `PositionsInv` therefore says that a drawn value is held by one order only, in its row
  or in the entities of the calls that serve it, and that none exceeds `queueSeq`; a step
  that draws hands out `queueSeq + 1`, which nothing holds yet.
- `StagesAreAnnounced`: `Spec => []EveryStageIsAnnounced`, and `OutcomesFollowDiagnoses`:
  `Spec => []OutcomeFollowsDiagnosis`. `AnnouncedInv` extends the agreement of row and
  outbox to the entities in flight: what an entity was read from had been announced, and
  what it changed will be announced by its own commit, because the outbox only grows.
- `ReceivedOnce`: `Spec => OrdersAreReceivedOnce`, by `ReceivedInv`: a use case that changes
  an order found its row, holds an entity in a later stage, and, while the row is still in
  the diagnosis queue, has loaded that, so that its update does change the status.
- `RepairsArePaid`: `Spec => []RepairOnlyAfterPayment`, by `PaidInv`: an entity in flight
  carries a status past payment only if it was read from a paid order or is the payment.

`StepShape` and `OneCall` reduce a step to the few ways in which it can change the tables
and one call, and the invariants are proved over those.

`SoloOrders_proofs`, from the same assumptions, for the orders no two calls ever shared,
whatever happens to the others. `CurrentInv` is what the four theorems rest on: such an
order has at most one call in flight (`Alone`), and that call's picture of it is current
at every statement: the entity is the row, then the row with the entity's method applied
to it, which the row still accepts; the row TypeORM loaded is the row. A commit is
therefore one method of the aggregate applied to the row (`SoloWrites`), although it is
written column by column.

- `SoloRowsStayWhole`: `Spec => []SoloRowsAreWhole`. `SoloLifecycle`:
  `Spec => SoloOrdersFollowLifecycle`; each accepted method is an edge (`AppliedEdge`).
- `SoloAnnouncements`: `Spec => []SoloOrdersAnnounceOnce`. `EventsInv` adds that what was
  told bounds the status from below, so no method that would tell it again is accepted.
- `SoloFifo`: `Spec => SoloOrdersNeverOvertake`. `AheadInv`: a pair recorded in `ahead`
  still stands in one queue in that order, and a call past its head check has nobody ahead
  of its order. The check is stale when the call writes; this says why that is harmless
  here: only a change of the order's own row could put somebody ahead of it.

`SerialUseCases_proofs`, for any number of orders and any `MaxSeq`, also from
`OneCallAssumption` (no two calls are in flight together; calls may fail anywhere):

- `ServiceKeepsPromise`: `Spec => KeepsPromise`, the refinement of `OrderQueues`. One call
  overlaps nothing, so `CurrentInv` and `WholeInv` hold of every order; `SerialInv` adds
  that the position in a call's hands is the last one drawn (`LatestInv`, so who takes it
  goes to the end), that a call past its head check is still at the head (`AtHeadInv`), and
  that each queue is listed by some sequence (`Listed`). A list sorted by distinct
  positions is unique (`OneListing`), which makes the `CHOOSE` of `InOrder` that list;
  `QueueStays`, `QueueGrows`, `QueueLoses` and `QueueAdvances` are then what a change of
  one row does to it. `WriteKeepsPromise` and `InsertKeepsPromise` map the two commits to
  steps of `OrderQueues`, `Stutters` everything else to none.

`OutboxPublisher_proofs`, for every set of replicas and events, every page size and any
number of faults, from `PageSizeAssumption` and `MaxFaultsAssumption`:

- `TypeCorrect`, `OnlyFaultsLose` and `Refinement`: `Spec => ImplementsRelay`. The
  invariant `IInv` adds three facts to the types. `CarriedInv`: whatever is marked, in a
  batch or on a wire has been committed; this gives the guard of `Tell`. `SentInv`: an event
  that is marked, or about to be, is `Sent`: on a wire, at the broker, or `missed`.
  `FaultlessInv`: while nothing has failed, nothing is missed, and no poll meets a channel
  that is closed or dead; with `SentInv` this gives the guard of `Settle`. What is settled stays settled because a page
  only takes rows that are not marked.

`OutboxDelivery_proofs`, also from `FiniteReplicasAssumption`, over `CreatedInv`: every
event is created once, commits later, reaches the broker later still, and a cause is older
than its effect.

- `CausesAreToldFirst`: `Spec => []CausesComeFirst`. A poll takes the first event off its
  batch only once that one is `Sent`. `ToldInv`: a cause has been sent, or its effect has
  left no replica and stands behind the cause in every batch that holds it. A page keeps
  this because it lists the oldest pending rows: one that takes the effect and not the
  cause finds the cause marked, and by `SentInv` that means sent.
- `CopiesBounded`: `Spec => []CopiesAreBounded`. `CopiesInv` counts, beside the copies
  accepted, those on a wire and the replicas that may still write one (`MayWrite`: the
  event is pending or in the batch, and has not been written by this poll). Writing moves a
  replica from the last set to the second; only a fault puts it back, and pays for it.

`RabbitMQConnection_proofs`, for every finite set of callers and any number of faults,
from `CallersAssumption` and `ConnectionFaultsAssumption`:

- `TypeCorrect`; `KeptIsOpenOrStillborn`: `Spec => []DeadChannelsAreStillborn`. The
  property is inductive as it stands: a channel is kept while its connection is open or by
  the step that makes it stillborn, and any close forgets whatever is kept.
- `FewConnections`: `Spec => []ConnectionsAreBounded`.
  `OpenersInv` counts, beside the connections opened, the callers that may open one before
  another closes: those that are connecting and, while no channel is kept, those that will
  look and find none. Opening takes a caller out of that set; only a close can fill it,
  and pays for it.

`EventConsumer_proofs`, for every set of orders, calls, replicas and messages, from
`HandlersAssumption` and `ClientsAssumption` (handlers and requests are different calls),
`MessagesAssumption`, `IdsAssumption` (a message id is of one event), `ReplicasAssumption`
(the name of a replica is not that of a place), `FaultsAssumption` and those of
`ExecutionUseCases`:

- `ConsumerTypeCorrect`.
- `AckedAreHandled`: `HandledInv` adds that a handler which awaits `markProcessed` has
  seen its use case end well.
- `UseCasesComposed`: what `ExecutionUseCases_proofs` shows still holds when handlers and
  requests make the calls and a crash resets any set of them. A step of the composition is
  a step of the use cases, leaves them alone, or is such a reset (`ConsumerStep`), and a
  reset keeps each invariant, since each speaks about calls that are in flight.
  `ReceivedComposed`: `ConsumerSpec => OrdersAreReceivedOnce`, in the same way.
- `OutcomesFollowTold`: `PublishedInv` (a payment that is published is of an order told)
  and `ServedInv` (so is every payment served, every order paid, and every outcome's).
- `RefusalsAreHonest`: `PresentInv` (a call past its first read is about a row that
  exists, and rows stay) and `AnswersInv` (while its use case is in flight a request has
  changed nothing; once it has changed something only the read-back is left, and that
  finds the row).
- `PaymentsAreKept`: `PastInv` (an order told of never returns to the diagnosis queue,
  neither by its row nor by an entity in flight; a cancelled one has a cancellation that
  was published) and `ServingInv` (a handler serves the order of its message).

`SoloAnswers_proofs`, from the assumptions of `EventConsumer_proofs`:

- `SoloComposed`: the four properties of unshared orders hold of the composition. Their
  invariants (`SoloInv`) survive a reset for the same reason as the others.
- `AnswersShowTheChange`: `ConsumerSpec => []SoloAnswersShowTheChange`. `ShownInv`: the
  call of a request serves the order and the operation of that request, and while it reads
  back an unshared order is in a stage that follows the change. Only a call that committed
  returns (`OnlyCommitsReturn`), and no edge of the lifecycle leads out of those stages
  (`StagesAreClosed`), so whatever comes between the change and the read-back is harmless.

Every safety property of a passing run is stated by a theorem. Only model-checked are the
three liveness properties, `EveryEventIsRelayed`, `CallersAreServed` and
`EveryEventIsSettled`: they rest on fairness and `ENABLED`, which are out of the prover's
reach. So is whatever would need induction over data; no proof here does. The runs that
expect a violation have nothing to prove.

## Not modelled

- `OutboxPublisher.stop` and `RabbitMQConnection.close`: nothing in the program calls them.
- `GetQueue`, its route and the DTOs: they read by `findQueue`, which `StartExecution` and
  `RegisterDiagnosis` use and which is modelled there, and number and format the rows.
- The contents of diagnoses and bodies: a body is understood or it is not.
- `/health` reads two flags; `DeadChannelsAreStillborn` is about one of them.
- Acks that are still buffered when a connection drops, and payments for orders whose
  diagnosis billing was never told (see `EventConsumer` above).
- Migrations and boot run before the first call; two replicas booting together are a
  matter of DDL locks in Postgres.
- Logging, configuration, New Relic, the scripts that publish test events and the
  deployment manifests.

## Plan

Done: 1. `ExecutionOrder`, `ExecutionUseCases`, `OrderQueues` and their runs; 2. their
proofs; 3. `OutboxPublisher`, as an implementation of `OutboxRelay`, and its proofs;
4. `RabbitMQConnection` and its proofs; 5. `HttpApi` and `EventConsumer`, the composition,
and its proofs; 6. the properties of unshared orders, alone and composed, and the answers
about them; 7. order and number of the copies; 8. the serial refinement.

Next, in this order:

9. What an order that calls did share still keeps, stated as a property, checked by
   `two_calls` and then proved: each column of its row was written by some committed call
   that served it.
10. Shorter proofs of the long step lemmas of `EventConsumer_proofs`, by the frame lemmas
    that the later modules introduced.
