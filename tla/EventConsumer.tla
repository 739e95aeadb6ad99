---------------------------- MODULE EventConsumer ----------------------------
(***************************************************************************)
(* The consumers of the service: RabbitMQ delivers the events of the other *)
(* services to the replicas, and each delivery is handled by a call that   *)
(* asks whether the event was processed, runs its use case, records it and *)
(* acknowledges it, with an await between any two of these.                *)
(*                                                                         *)
(* The channel a delivery came on may close under its handler.  The broker *)
(* then delivers the event again, to whoever consumes, while the handler   *)
(* lives on.  Beside the handlers the replicas serve the mechanics'        *)
(* requests, and their relay tells billing of the diagnoses in the outbox. *)
(***************************************************************************)
EXTENDS HttpApi, FiniteSets

CONSTANTS
    Handlers,   \* the calls that can handle deliveries
    Messages,   \* what the other services will publish
    MaxFaults   \* bound on failed statements, closed channels and crashes

RoutingKeys == {"order.received", "payment.approved", "payment.failed",
                "quotation.rejected"}

(* A body can be valid, lack its service order id (or not be JSON at all), *)
(* or be the JSON value null.                                              *)
Bodies == {"valid", "malformed", "null"}

NoId == 0

Message == [id : Nat, key : RoutingKeys, order : Orders, body : Bodies]

ASSUME HandlersAssumption == Handlers \subseteq Calls \ Clients
ASSUME MessagesAssumption == Messages \subseteq Message
(* A message id, where there is one, is of a single event. *)
ASSUME IdsAssumption ==
    \A m, n \in Messages : m.id = n.id /\ m.id # NoId => m = n
ASSUME ReplicasAssumption ==
    Replicas \cap {"unpublished", "ready", "acked", "dropped"} = {}
ASSUME FaultsAssumption == MaxFaults \in Nat

VARIABLES
    told,       \* the orders whose diagnosis the relay has told billing of
    place,      \* where each message is: with whom, or how it was settled
    consumer,   \* the consumers of each replica
    handlers,   \* what each handler awaits, in which replica
    processed,  \* processed_events: the ids recorded
    handled,    \* history: the messages whose use case ended well
    faults      \* history: the number of faults so far

database == <<rows, queueSeq, outbox, paid, overlapped, ahead>>
consumerVars == <<told, place, consumer, handlers, processed, handled, faults>>
allVars == <<vars, requests, consumerVars>>

NoHandler == [await |-> "nothing"]

OpOf(key) ==
    CASE key = "order.received" -> "EnqueueForDiagnosis"
      [] key = "payment.approved" -> "EnqueueForExecution"
      [] key \in {"payment.failed", "quotation.rejected"} -> "CancelExecution"

ConsumerInit ==
    /\ HttpInit
    /\ told = {}
    /\ place = [m \in Messages |-> "unpublished"]
    /\ consumer = [r \in Replicas |-> "booting"]
    /\ handlers = [c \in Handlers |-> NoHandler]
    /\ processed = {}
    /\ handled = {}
    /\ faults = 0

Fault == faults < MaxFaults /\ faults' = faults + 1

-----------------------------------------------------------------------------
(* The relay tells of a committed event, as OutboxRelay has it: in the end *)
(* and in any order.  Only diagnoses make somebody publish.                *)
Tell(o) ==
    /\ Announced(o, "diagnostic.finished")
    /\ told' = told \cup {o}
    /\ UNCHANGED <<vars, requests, place, consumer, handlers, processed, handled, faults>>

(* The os-service publishes an order when it likes; billing answers an     *)
(* order whose diagnosis it was told of.                                   *)
Publish(m) ==
    /\ place[m] = "unpublished"
    /\ m.key = "order.received" \/ m.order \in told
    /\ place' = [place EXCEPT ![m] = "ready"]
    /\ UNCHANGED <<vars, requests, told, consumer, handlers, processed, handled, faults>>

(* At boot, and only then, the consumers subscribe. *)
Subscribe(r) ==
    /\ consumer[r] = "booting"
    /\ consumer' = [consumer EXCEPT ![r] = "consuming"]
    /\ UNCHANGED <<vars, requests, told, place, handlers, processed, handled, faults>>

-----------------------------------------------------------------------------
Awaits(c, await) == handlers[c].await = await

Live(c) == place[handlers[c].message] = handlers[c].replica

(* ack or nack: on a channel that has closed both throw, and the rejection *)
(* of handleMessage is nobody's.                                           *)
Settles(c, where) ==
    \/ /\ Live(c)
       /\ place' = [place EXCEPT ![handlers[c].message] = where]
       /\ handlers' = [handlers EXCEPT ![c] = NoHandler]
    \/ /\ ~Live(c)
       /\ handlers' = [handlers EXCEPT ![c].await = "rejected"]
       /\ UNCHANGED place

(* The body of the try block up to the first await of the use case.  A     *)
(* malformed event throws an error that isPermanentFailure knows; reading  *)
(* a field of null throws one that it does not.                            *)
Handles(c, m) ==
    \/ /\ m.body = "valid"
       /\ Begin(c, OpOf(m.key), m.order, NoDiagnosis)
       /\ handlers' = [handlers EXCEPT ![c].await = "handle"]
       /\ UNCHANGED place
    \/ /\ m.body = "malformed"
       /\ Settles(c, "dropped")
       /\ UNCHANGED vars
    \/ /\ m.body = "null"
       /\ Settles(c, "ready")
       /\ UNCHANGED vars

(* RabbitMQ pushes a message: handleMessage runs up to its first await.  A *)
(* message without an id is not looked up, and is recorded under a random  *)
(* one: Recall answers for it as for an id never seen.                     *)
Deliver(r, c, m) ==
    /\ consumer[r] = "consuming"
    /\ place[m] = "ready"
    /\ Awaits(c, "nothing")
    /\ place' = [place EXCEPT ![m] = r]
    /\ handlers' = [handlers EXCEPT ![c] =
                       [await |-> "wasProcessed", replica |-> r, message |-> m]]
    /\ UNCHANGED <<vars, requests, told, consumer, processed, handled, faults>>

(* Mutant: the event is recorded before it is handled. *)
RecallRecordsFirst(c) ==
    LET m == handlers[c].message IN
    /\ Awaits(c, "wasProcessed")
    /\ \/ /\ m.id \in processed
          /\ Settles(c, "acked")
          /\ UNCHANGED vars
       \/ /\ m.id \notin processed
          /\ Handles(c, m)
    /\ processed' = processed \cup ({m.id} \ {NoId})
    /\ UNCHANGED <<requests, told, consumer, handled, faults>>

(* wasProcessed answers. *)
Recall(c) ==
    LET m == handlers[c].message IN
    /\ Awaits(c, "wasProcessed")
    /\ \/ /\ m.id \in processed
          /\ Settles(c, "acked")
          /\ UNCHANGED vars
       \/ /\ m.id \notin processed
          /\ Handles(c, m)
    /\ UNCHANGED <<requests, told, consumer, processed, handled, faults>>

(* Mutants: every failure is permanent; an illegal transition is not. *)
PermanentAll == Failures
PermanentOnlyNotFound == {"NotFoundError"}

(* isPermanentFailure *)
Permanent == {"NotFoundError", "InvalidTransitionError"}

(* An insert into a row that exists fails each time; any other failure of  *)
(* a statement is a fault.                                                 *)
Rejected(c) ==
    calls[c].await = "insert" /\ rows[calls[c].order].status # Absent

Counted(c, out) ==
    IF out = "QueryFailedError" /\ ~Rejected(c) THEN Fault ELSE UNCHANGED faults

(* A step of the use case, and of the handler when it returns or throws. *)
Handle(c) ==
    LET m == handlers[c].message IN
    /\ Awaits(c, "handle")
    /\ \E out \in Outcomes :
        /\ Step(c, out)
        /\ Counted(c, out)
        /\ \/ /\ out = "pending"
              /\ UNCHANGED <<place, handlers, handled>>
           \/ /\ out = "ok"
              /\ handlers' = [handlers EXCEPT ![c].await = "markProcessed"]
              /\ handled' = handled \cup {m}
              /\ UNCHANGED place
           \/ /\ out \in Failures
              /\ Settles(c, IF out \in Permanent THEN "dropped" ELSE "ready")
              /\ UNCHANGED handled
    /\ UNCHANGED <<requests, told, consumer, processed>>

(* Mutant: a message without an id is recorded under the id it lacks. *)
MarkProcessedAnyId(c) ==
    /\ Awaits(c, "markProcessed")
    /\ processed' = processed \cup {handlers[c].message.id}
    /\ Settles(c, "acked")
    /\ UNCHANGED <<vars, requests, told, consumer, handled, faults>>

(* markProcessed, then the ack.  The save selects the id and inserts it,   *)
(* which fails when another handler has inserted it in between.            *)
MarkProcessed(c) ==
    LET m == handlers[c].message IN
    /\ Awaits(c, "markProcessed")
    /\ \/ /\ processed' = processed \cup ({m.id} \ {NoId})
          /\ Settles(c, "acked")
       \/ /\ m.id \in processed
          /\ Settles(c, "ready")
          /\ UNCHANGED processed
    /\ UNCHANGED <<vars, requests, told, consumer, handled, faults>>

(* What the record a handler awaits leaves once it committed. *)
RecordOf(c) ==
    IF Awaits(c, "markProcessed") THEN {handlers[c].message.id} \ {NoId} ELSE {}

(* A statement of the deduplication fails, or the record commits and its   *)
(* answer is lost: the handler requeues.                                   *)
StatementFails(c) ==
    /\ Fault
    /\ Awaits(c, "wasProcessed") \/ Awaits(c, "markProcessed")
    /\ processed' \in {processed, processed \cup RecordOf(c)}
    /\ Settles(c, "ready")
    /\ UNCHANGED <<vars, requests, told, consumer, handled>>

-----------------------------------------------------------------------------
(* The mechanics' requests, beside the consumers. *)
Request(c) ==
    /\ \/ \E out \in Outcomes : (Serve(c, out) \/ ReadBack(c, out)) /\ Counted(c, out)
       \/ ReadFails(c) /\ Fault
       \/ BadRequest(c) /\ UNCHANGED faults
       \/ \E r \in Replicas, o \in Orders :
             /\ \/ Get(r, c, o)
                \/ \E op \in RequestOps, d \in Diagnoses \cup {NoDiagnosis} :
                      Patch(r, c, op, o, d)
             /\ UNCHANGED faults
    /\ UNCHANGED <<told, place, consumer, handlers, processed, handled>>

-----------------------------------------------------------------------------
(* A process ends and Kubernetes starts it again: its calls are gone, and  *)
(* the broker gives its deliveries to others.  A record that a call had    *)
(* sent may have committed, without the ack that follows it.               *)
Restarts(r) ==
    LET Handling == {c \in Handlers : ~Awaits(c, "nothing") /\ handlers[c].replica = r}
        Serving  == {c \in Clients : ~Asks(c) /\ requests[c].replica = r}
    IN
    /\ handlers' = [c \in Handlers |-> IF c \in Handling THEN NoHandler ELSE handlers[c]]
    /\ requests' = [c \in Clients |-> IF c \in Serving THEN NoRequest ELSE requests[c]]
    /\ calls' = [c \in Calls |-> IF c \in Handling \cup Serving THEN Idle ELSE calls[c]]
    /\ place' = [m \in Messages |-> IF place[m] = r THEN "ready" ELSE place[m]]
    /\ consumer' = [consumer EXCEPT ![r] = "booting"]
    /\ \E Committed \in SUBSET Handling :
          processed' = processed \cup UNION {RecordOf(c) : c \in Committed}
    /\ UNCHANGED <<database, told, handled>>

Crash(r) == Fault /\ Restarts(r)

(* Node ends a process with an unhandled rejection; the statements its     *)
(* calls have sent may still commit before that.                           *)
UnhandledRejection(r) ==
    /\ \E c \in Handlers : Awaits(c, "rejected") /\ handlers[c].replica = r
    /\ Restarts(r)
    /\ UNCHANGED faults

(* The broker closes the connection: nobody subscribes again.  (An abrupt  *)
(* loss emits an error event nobody listens to, and is a Crash.)           *)
ChannelCloses(r) ==
    /\ Fault
    /\ consumer[r] = "consuming"
    /\ consumer' = [consumer EXCEPT ![r] = "deaf"]
    /\ place' = [m \in Messages |-> IF place[m] = r THEN "ready" ELSE place[m]]
    /\ UNCHANGED <<vars, requests, told, handlers, processed, handled>>

-----------------------------------------------------------------------------
Delivered(m) == \E r \in Replicas, c \in Handlers : Deliver(r, c, m)

Advance(c) == Recall(c) \/ Handle(c) \/ MarkProcessed(c)

ConsumerNext ==
    \/ \E m \in Messages : Publish(m) \/ Delivered(m)
    \/ \E c \in Handlers : Advance(c) \/ StatementFails(c)
    \/ \E c \in Clients : Request(c)
    \/ \E o \in Orders : Tell(o)
    \/ \E r \in Replicas :
          Subscribe(r) \/ UnhandledRejection(r) \/ Crash(r) \/ ChannelCloses(r)

(* The broker delivers what is ready, Postgres answers, and Kubernetes     *)
(* starts what ended.                                                      *)
ConsumerFairness ==
    /\ \A m \in Messages : WF_allVars(Delivered(m))
    /\ \A c \in Handlers : WF_allVars(Advance(c))
    /\ \A r \in Replicas : WF_allVars(Subscribe(r) \/ UnhandledRejection(r))

ConsumerSpec ==
    Init /\ ConsumerInit /\ [][ConsumerNext]_allVars /\ ConsumerFairness

-----------------------------------------------------------------------------
(* Every variable keeps its type; a message without an id leaves no record *)
(* that another could be mistaken for.                                     *)
ConsumerTypeOK ==
    /\ requests \in [Clients -> RequestTypes]
    /\ told \subseteq Orders
    /\ place \in [Messages -> {"unpublished", "ready", "acked", "dropped"} \cup Replicas]
    /\ consumer \in [Replicas -> {"booting", "consuming", "deaf"}]
    /\ handlers \in [Handlers -> {NoHandler} \cup
           [await : {"wasProcessed", "handle", "markProcessed", "rejected"},
            replica : Replicas, message : Messages]]
    /\ processed \subseteq {m.id : m \in Messages} \ {NoId}
    /\ handled \subseteq Messages
    /\ faults \in 0..MaxFaults

(* No event is acknowledged, or recorded so that it would be, before its   *)
(* use case committed: whatever fails or crashes, its effect is in the     *)
(* tables or the event is still to be delivered.                           *)
AckedEventsWereHandled ==
    \A m \in Messages :
        place[m] = "acked" \/ m.id \in processed => m \in handled

(* The saga's order of events survives the relay, which tells events in    *)
(* any order: when the outcome of a repair is written, billing has been    *)
(* told of its diagnosis, since it was paid for.                           *)
OutcomesFollowToldDiagnoses ==
    \A i \in 1..Len(outbox) :
        outbox[i].type # "diagnostic.finished" => outbox[i].order \in told

Cancels(m) == OpOf(m.key) = "CancelExecution"

(* A received order is never dropped, and an approved payment only when it *)
(* took effect by an earlier delivery or its order was being cancelled: it *)
(* is published after the diagnosis it is for, so the row is there.        *)
NoPaymentIsDropped ==
    \A m \in Messages :
        place[m] = "dropped" /\ m.body = "valid" =>
            /\ m.key # "order.received"
            /\ m.key = "payment.approved" =>
                   \/ m.order \in paid
                   \/ \E n \in Messages : /\ Cancels(n)
                                          /\ n.order = m.order
                                          /\ place[n] # "unpublished"

(* Every event published is acknowledged or dropped in the end, as long as *)
(* a consumer lives: neither the requeue of an event whose use case cannot *)
(* succeed nor the events whose body is null, which are requeued for ever, *)
(* keep the others waiting.                                                *)
EveryEventIsSettled ==
    \A m \in Messages :
        place[m] = "ready" ~> place[m] \in {"acked", "dropped"} \/ m.body = "null"

-----------------------------------------------------------------------------
(* README: consumers are idempotent.  An order of one approved payment is  *)
(* put into the execution queue once, however often it is delivered.       *)
EntersExecutionQueueOnce ==
    [][\A o \in Orders :
           /\ rows[o].status # "IN_EXECUTION_QUEUE"
           /\ rows'[o].status = "IN_EXECUTION_QUEUE"
           => o \notin paid]_allVars

(* README's lifecycle: an order received enters the diagnosis queue. *)
ReceivedOrdersAreQueued ==
    \A m \in Messages :
        place[m] = "ready" /\ m.key = "order.received" ~> rows[m.order].status # Absent
=============================================================================
