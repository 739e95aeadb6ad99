------------------------- MODULE ExecutionUseCases -------------------------
(***************************************************************************)
(* The use cases of the service running concurrently over one database.    *)
(*                                                                         *)
(* A call is one execution of a use case: a message handler or an HTTP     *)
(* request, in either of the two replicas.  Every await of the code is a   *)
(* point where other calls run, so a call advances by one database         *)
(* statement at a time: the statement and the synchronous code that        *)
(* follows it up to the next await are one action.  Nothing locks an order *)
(* between the statements of a call and no row carries a version.          *)
(*                                                                         *)
(* An action takes the outcome of its step as a parameter: "pending" when  *)
(* the call is still running, otherwise what the caller is told.  A module *)
(* that composes callers with this one conjoins on that parameter.         *)
(***************************************************************************)
EXTENDS ExecutionOrder, Sequences

CONSTANTS
    Orders,   \* service order ids
    Calls,    \* identities of the calls that can be in flight together
    MaxSeq    \* bound on the values drawn from the Postgres sequence

ASSUME MaxSeqAssumption == MaxSeq \in Nat

VARIABLES
    rows,        \* execution_orders: the row of each service order
    queueSeq,    \* the last value drawn from the sequence queue_seq
    outbox,      \* outbox_events, in commit order
    calls,       \* the local state of each call in flight
    paid,        \* history: the orders EnqueueForExecution committed for
    overlapped,  \* history: the orders two calls in flight ever shared
    ahead        \* history: <<o, p>> when o held its place before p took its own

vars == <<rows, queueSeq, outbox, calls, paid, overlapped, ahead>>

UseCases == DOMAIN AllowedFrom \cup {"EnqueueForDiagnosis"}

EventOf == [RegisterDiagnosis |-> "diagnostic.finished",
            FinishExecution   |-> "execution.finished",
            FailExecution     |-> "execution.failed"]

Events == [type      : {EventOf[op] : op \in DOMAIN EventOf},
           order     : Orders,
           diagnosis : Diagnoses \cup {NoDiagnosis}]

(* A call in flight awaits the statement it will run next. *)
Call == [await     : {"findOrder", "nextSeq", "findQueue", "insert", "load", "write"},
         op        : UseCases,
         order     : Orders,
         diagnosis : Diagnoses \cup {NoDiagnosis},
         entity    : Order,      \* the entity the use case holds
         loaded    : Order]      \* the row TypeORM loaded to diff against

Failures == {"NotFoundError", "InvalidTransitionError", "NotHeadOfQueueError",
             "QueryFailedError"}
Outcomes == {"pending", "ok"} \cup Failures

Idle == [await |-> "idle"]
InFlight(c) == calls[c].await # "idle"

-----------------------------------------------------------------------------
Moves(c, await, entity, out) ==
    /\ calls' = [calls EXCEPT ![c].await = await, ![c].entity = entity]
    /\ out = "pending"

Ends(c, out, answers) ==
    /\ calls' = [calls EXCEPT ![c] = Idle]
    /\ out \in answers

(* The method each use case calls on the entity it found. *)
Applied(call, order, seq) ==
    [RegisterDiagnosis   |-> registerDiagnosis(order, call.diagnosis),
     EnqueueForExecution |-> enqueueForExecution(order, seq),
     CancelExecution     |-> cancel(order),
     StartExecution      |-> start(order),
     FinishExecution     |-> finish(order),
     FailExecution       |-> fail(order)][call.op]

(* The synchronous tail of a use case: the entity's method, then the save. *)
Transitions(c, order, seq, out) ==
    \/ /\ Accepts(order, calls[c].op)
       /\ Moves(c, "load", Applied(calls[c], order, seq), out)
    \/ /\ ~Accepts(order, calls[c].op)
       /\ Ends(c, out, {"InvalidTransitionError"})

-----------------------------------------------------------------------------
Init ==
    /\ rows = [o \in Orders |-> NoOrder]
    /\ queueSeq = 0
    /\ outbox = <<>>
    /\ calls = [c \in Calls |-> Idle]
    /\ paid = {}
    /\ overlapped = {}
    /\ ahead = {}

(* A caller invokes execute. *)
Begin(c, op, o, d) ==
    /\ ~InFlight(c)
    /\ d \in IF op = "RegisterDiagnosis" THEN Diagnoses ELSE {NoDiagnosis}
    /\ calls' = [calls EXCEPT ![c] =
                    [await |-> "findOrder", op |-> op, order |-> o, diagnosis |-> d,
                     entity |-> NoOrder, loaded |-> NoOrder]]
    /\ overlapped' = IF \E b \in Calls \ {c} : InFlight(b) /\ calls[b].order = o
                     THEN overlapped \cup {o}
                     ELSE overlapped
    /\ UNCHANGED <<rows, queueSeq, outbox, paid, ahead>>

(* findByServiceOrderId, and what each use case does with the answer. *)
FindOrder(c, out) ==
    LET call == calls[c]
        order == rows[call.order]
        exists == order.status # Absent
        draws == {"EnqueueForDiagnosis", "EnqueueForExecution"}
        checksHead == \/ call.op = "StartExecution"
                      \/ /\ call.op = "RegisterDiagnosis"
                         /\ order.status = "IN_DIAGNOSIS_QUEUE"
    IN  /\ call.await = "findOrder"
        /\ \/ /\ ~exists
              /\ call.op # "EnqueueForDiagnosis"
              /\ Ends(c, out, {"NotFoundError"})
           \/ /\ exists
              /\ call.op = "EnqueueForDiagnosis"
              /\ Ends(c, out, {"ok"})
           \/ /\ call.op \in draws
              /\ exists <=> call.op = "EnqueueForExecution"
              /\ Moves(c, "nextSeq", order, out)
           \/ /\ exists
              /\ checksHead
              /\ Moves(c, "findQueue", order, out)
           \/ /\ exists
              /\ call.op \notin draws
              /\ ~checksHead
              /\ Transitions(c, order, NoSeq, out)
        /\ UNCHANGED <<rows, queueSeq, outbox, paid, overlapped, ahead>>

(* Mutant: the position is the highest in the table plus one. *)
NextQueueSeqFromTable(c, out) ==
    LET call == calls[c]
        seq == 1 + CHOOSE n \in 0..MaxSeq :
                   /\ \A o \in Orders : rows[o].queueSeq <= n
                   /\ n = 0 \/ \E o \in Orders : rows[o].queueSeq = n
    IN
    /\ call.await = "nextSeq"
    /\ queueSeq < MaxSeq
    /\ queueSeq' = queueSeq + 1
    /\ \/ /\ call.op = "EnqueueForDiagnosis"
          /\ Moves(c, "insert", receive(seq), out)
       \/ /\ call.op = "EnqueueForExecution"
          /\ Transitions(c, call.entity, seq, out)
    /\ UNCHANGED <<rows, outbox, paid, overlapped, ahead>>

(* SELECT nextval: drawn outside any transaction, before the transition is *)
(* checked and before the row that will carry it is written.               *)
NextQueueSeq(c, out) ==
    LET call == calls[c] IN
    /\ call.await = "nextSeq"
    /\ queueSeq < MaxSeq
    /\ queueSeq' = queueSeq + 1
    /\ \/ /\ call.op = "EnqueueForDiagnosis"
          /\ Moves(c, "insert", receive(queueSeq'), out)
       \/ /\ call.op = "EnqueueForExecution"
          /\ Transitions(c, call.entity, queueSeq', out)
    /\ UNCHANGED <<rows, outbox, paid, overlapped, ahead>>

(* Mutant: ORDER BY queue_seq DESC. *)
BeforeDescending(o, p) ==
    /\ rows[p].queueSeq # NoSeq
    /\ rows[o].queueSeq = NoSeq \/ rows[o].queueSeq > rows[p].queueSeq

(* ORDER BY queue_seq ASC: a NULL sorts last, equal keys in any order. *)
Before(o, p) ==
    /\ rows[o].queueSeq # NoSeq
    /\ rows[p].queueSeq = NoSeq \/ rows[o].queueSeq < rows[p].queueSeq

Queues == {"IN_DIAGNOSIS_QUEUE", "IN_EXECUTION_QUEUE"}

Queued(status) == {o \in Orders : rows[o].status = status}

(* Mutant: no head check. *)
HeadsAreAll(status) == Queued(status)

Heads(status) ==
    {o \in Queued(status) : \A p \in Queued(status) : ~Before(p, o)}

(* findQueue and the comparison of its first element with the order of the *)
(* call, then the tail of the use case on the entity found earlier.        *)
FindQueue(c, out) ==
    LET call == calls[c]
        heads == Heads(IF call.op = "StartExecution"
                       THEN "IN_EXECUTION_QUEUE" ELSE "IN_DIAGNOSIS_QUEUE")
    IN  /\ call.await = "findQueue"
        /\ \/ /\ call.order \in heads
              /\ Transitions(c, call.entity, NoSeq, out)
           \/ /\ heads # {call.order}
              /\ Ends(c, out, {"NotHeadOfQueueError"})
        /\ UNCHANGED <<rows, queueSeq, outbox, paid, overlapped, ahead>>

(* A commit answers "ok", or is applied and its answer lost.  The rest is  *)
(* history: a place lasts until the next change of either row.             *)
Commits(c, out) ==
    /\ Ends(c, out, {"ok", "QueryFailedError"})
    /\ paid' = IF calls[c].op = "EnqueueForExecution"
               THEN paid \cup {calls[c].order}
               ELSE paid
    /\ LET Same(o) == rows'[o] = rows[o]
           Precedes(o, p) == /\ rows'[o].status = rows'[p].status
                             /\ rows'[o].status \in Queues
                             /\ rows'[o].queueSeq \in 1..rows'[p].queueSeq
                             /\ o # p
       IN  ahead' = {e \in Orders \X Orders :
                        \/ e \in ahead /\ Same(e[1]) /\ Same(e[2])
                        \/ Same(e[1]) /\ ~Same(e[2]) /\ Precedes(e[1], e[2])}
    /\ UNCHANGED <<queueSeq, overlapped>>

(* Mutant: nothing keeps a second row of the order out. *)
InsertOrderTwice(c, out) ==
    LET call == calls[c] IN
    /\ call.await = "insert"
    /\ rows' = [rows EXCEPT ![call.order] = call.entity]
    /\ UNCHANGED outbox
    /\ Commits(c, out)

(* save of a new entity: its random id matches no row, so TypeORM inserts, *)
(* and service_order_id is UNIQUE.                                         *)
InsertOrder(c, out) ==
    LET call == calls[c] IN
    /\ call.await = "insert"
    /\ rows[call.order].status = Absent
    /\ rows' = [rows EXCEPT ![call.order] = call.entity]
    /\ UNCHANGED outbox
    /\ Commits(c, out)

RejectInsert(c, out) ==
    /\ calls[c].await = "insert"
    /\ rows[calls[c].order].status # Absent
    /\ Ends(c, out, {"QueryFailedError"})
    /\ UNCHANGED <<rows, queueSeq, outbox, paid, overlapped, ahead>>

(* save of an existing entity: TypeORM first selects the row by its id... *)
LoadRow(c, out) ==
    /\ calls[c].await = "load"
    /\ calls' = [calls EXCEPT ![c].await = "write",
                              ![c].loaded = rows[calls[c].order]]
    /\ out = "pending"
    /\ UNCHANGED <<rows, queueSeq, outbox, paid, overlapped, ahead>>

(* ...then updates the columns in which the entity differs from it. *)
Differing(new, old, current) == IF new # old THEN new ELSE current

Updated(row, entity, loaded) ==
    [status    |-> Differing(entity.status, loaded.status, row.status),
     diagnosis |-> Differing(entity.diagnosis, loaded.diagnosis, row.diagnosis),
     queueSeq  |-> Differing(entity.queueSeq, loaded.queueSeq, row.queueSeq)]

(* Mutant: the event is saved after the commit of the row, if at all. *)
WriteRowThenEvent(c, out) ==
    LET call == calls[c] IN
    /\ call.await = "write"
    /\ rows' = [rows EXCEPT ![call.order] = Updated(@, call.entity, call.loaded)]
    /\ \/ UNCHANGED outbox
       \/ /\ call.op \in DOMAIN EventOf
          /\ outbox' = Append(outbox, [type |-> EventOf[call.op], order |-> call.order,
                                       diagnosis |-> call.diagnosis])
    /\ Commits(c, out)

(* The commit of the update, with the outbox row in the same transaction   *)
(* for the use cases that go through atomicSaveWithEvent.                   *)
WriteRow(c, out) ==
    LET call == calls[c] IN
    /\ call.await = "write"
    /\ rows' = [rows EXCEPT ![call.order] = Updated(@, call.entity, call.loaded)]
    /\ outbox' = IF call.op \in DOMAIN EventOf
                 THEN Append(outbox, [type |-> EventOf[call.op], order |-> call.order,
                                      diagnosis |-> call.diagnosis])
                 ELSE outbox
    /\ Commits(c, out)

(* The statement fails, or the replica that runs the call crashes. *)
Abort(c, out) ==
    /\ InFlight(c)
    /\ Ends(c, out, {"QueryFailedError"})
    /\ UNCHANGED <<rows, queueSeq, outbox, paid, overlapped, ahead>>

Step(c, out) ==
    \/ FindOrder(c, out)
    \/ NextQueueSeq(c, out)
    \/ FindQueue(c, out)
    \/ InsertOrder(c, out)
    \/ RejectInsert(c, out)
    \/ LoadRow(c, out)
    \/ WriteRow(c, out)
    \/ Abort(c, out)

Next ==
    \E c \in Calls :
        \/ \E op \in UseCases, o \in Orders, d \in Diagnoses \cup {NoDiagnosis} :
               Begin(c, op, o, d)
        \/ \E out \in Outcomes : Step(c, out)

Spec == Init /\ [][Next]_vars

-----------------------------------------------------------------------------
(* Every variable keeps its type: what a call in flight holds, and what a  *)
(* torn update leaves in a row, is always a value the entity class has.    *)
TypeOK ==
    /\ rows \in [Orders -> Order]
    /\ queueSeq \in Nat
    /\ outbox \in Seq(Events)
    /\ calls \in [Calls -> Call \cup {Idle}]
    /\ paid \subseteq Orders
    /\ overlapped \subseteq Orders
    /\ ahead \subseteq Orders \X Orders

(* No two orders ever hold the same queue position, whatever calls draw,   *)
(* waste or write late: findQueue has one head unless positions are NULL.  *)
UniquePositions ==
    \A o, p \in Orders :
        o # p /\ rows[o].queueSeq # NoSeq => rows[o].queueSeq # rows[p].queueSeq

Announced(o, type) ==
    \E i \in 1..Len(outbox) : outbox[i].order = o /\ outbox[i].type = type

Diagnosed == {"AWAITING_PAYMENT", "IN_EXECUTION_QUEUE", "IN_EXECUTION",
              "FINISHED", "FAILED"}

(* The row and the outbox agree: a status that other services must hear of *)
(* is in the table only with its event, and so is a diagnosis, however the *)
(* statements of concurrent calls, failures and crashes interleave.        *)
EveryStageIsAnnounced ==
    \A o \in Orders :
        /\ rows[o].status \in Diagnosed => Announced(o, "diagnostic.finished")
        /\ rows[o].status = "FINISHED" => Announced(o, "execution.finished")
        /\ rows[o].status = "FAILED" => Announced(o, "execution.failed")
        /\ rows[o].diagnosis # NoDiagnosis =>
               \E i \in 1..Len(outbox) : /\ outbox[i].order = o
                                         /\ outbox[i].diagnosis = rows[o].diagnosis

(* The outbox never tells the outcome of a repair before the diagnosis it  *)
(* repairs: FinishExecution and FailExecution commit after an order has    *)
(* been diagnosed, even when they act on a stale entity.                   *)
OutcomeFollowsDiagnosis ==
    \A j \in 1..Len(outbox) :
        outbox[j].type # "diagnostic.finished" =>
            \E i \in 1..(j - 1) : /\ outbox[i].order = outbox[j].order
                                  /\ outbox[i].type = "diagnostic.finished"

(* No repair runs or ends for an order whose payment was never approved:   *)
(* start accepts no other status, and no late write puts an order back     *)
(* into a stage it had not reached.                                        *)
RepairOnlyAfterPayment ==
    \A o \in Orders :
        rows[o].status \in {"IN_EXECUTION", "FINISHED", "FAILED"} => o \in paid

(* An order is received once: two copies of order.received that both found *)
(* no row insert one, and no late save puts an order that went on back     *)
(* into the diagnosis queue or touches one that waits there.               *)
OrdersAreReceivedOnce ==
    [][\A o \in Orders :
           /\ rows[o].status # Absent
           /\ rows'[o].status = "IN_DIAGNOSIS_QUEUE"
           => rows'[o] = rows[o]]_vars

-----------------------------------------------------------------------------
(* What the code keeps for an order no two calls ever served together; the *)
(* other orders may be overlapped at will.                                 *)

Leaves(o, status, next) == rows[o].status = status /\ rows'[o].status = next

LifecycleEdges ==
    {<<Absent, "IN_DIAGNOSIS_QUEUE">>,
     <<"IN_DIAGNOSIS_QUEUE", "AWAITING_PAYMENT">>,
     <<"AWAITING_PAYMENT", "IN_EXECUTION_QUEUE">>,
     <<"IN_EXECUTION_QUEUE", "IN_EXECUTION">>,
     <<"IN_EXECUTION", "FINISHED">>, <<"IN_EXECUTION", "FAILED">>,
     <<"IN_DIAGNOSIS_QUEUE", "CANCELLED">>,
     <<"AWAITING_PAYMENT", "CANCELLED">>,
     <<"IN_EXECUTION_QUEUE", "CANCELLED">>}

(* Such an order only takes the edges of the README's lifecycle, one at a  *)
(* time, and any other commit leaves its row alone.                        *)
SoloOrdersFollowLifecycle ==
    [][\A o \in Orders \ overlapped' :
           rows'[o] # rows[o] =>
               <<rows[o].status, rows'[o].status>> \in LifecycleEdges]_vars

(* Its columns agree: it has a position exactly while it is in a queue,    *)
(* and a diagnosis from its diagnosis on (a cancelled one may have none).  *)
SoloRowsAreWhole ==
    \A o \in Orders \ overlapped :
        /\ rows[o].queueSeq # NoSeq <=>
               rows[o].status \in Queues
        /\ rows[o].status \in Diagnosed => rows[o].diagnosis # NoDiagnosis
        /\ rows[o].status \in {Absent, "IN_DIAGNOSIS_QUEUE"} =>
               rows[o].diagnosis = NoDiagnosis

(* Its diagnosis is announced at most once, and so is the outcome of its   *)
(* repair, which is finished or failed and never both.                     *)
SoloOrdersAnnounceOnce ==
    \A i, j \in 1..Len(outbox) :
        /\ i # j
        /\ outbox[i].order = outbox[j].order
        /\ outbox[i].order \notin overlapped
        => (outbox[i].type = "diagnostic.finished") #
           (outbox[j].type = "diagnostic.finished")

(* The FIFO that is left when calls interleave: such an order never        *)
(* advances past one that already held a smaller position in the queue     *)
(* when it took its own.  Its head check read both rows.                   *)
SoloOrdersNeverOvertake ==
    [][\A o \in Orders, p \in Orders \ overlapped' :
           \/ Leaves(p, "IN_DIAGNOSIS_QUEUE", "AWAITING_PAYMENT")
           \/ Leaves(p, "IN_EXECUTION_QUEUE", "IN_EXECUTION")
           => <<o, p>> \notin ahead]_vars

-----------------------------------------------------------------------------
(* What the README and the tests promise of any order and the interleaved  *)
(* calls break.                                                            *)

(* README: only the head of a queue may advance, to be diagnosed or to be  *)
(* repaired.                                                               *)
OnlyHeadLeavesQueue ==
    [][\A o \in Orders :
           /\ Leaves(o, "IN_DIAGNOSIS_QUEUE", "AWAITING_PAYMENT")
                 => o \in Heads("IN_DIAGNOSIS_QUEUE")
           /\ Leaves(o, "IN_EXECUTION_QUEUE", "IN_EXECUTION")
                 => o \in Heads("IN_EXECUTION_QUEUE")]_vars

(* README and ExecutionOrder.spec: no cancellation once the repair started. *)
StartedRepairIsNeverCancelled ==
    [][\A o \in Orders :
           rows[o].status \in {"IN_EXECUTION", "FINISHED", "FAILED"} =>
               rows'[o].status # "CANCELLED"]_vars

(* README's lifecycle: an execution ends FINISHED or FAILED, and announces *)
(* one of the two outcomes.                                                *)
OneOutcomeAnnounced ==
    \A o \in Orders :
        ~(Announced(o, "execution.finished") /\ Announced(o, "execution.failed"))
=============================================================================
