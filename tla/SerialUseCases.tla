--------------------------- MODULE SerialUseCases ---------------------------
(***************************************************************************)
(* One call at a time: the service as its unit and feature tests drive it. *)
(* A call may still fail or lose its answer at any statement.              *)
(***************************************************************************)
EXTENDS ExecutionUseCases, FiniteSets

ASSUME OneCallAssumption == \A b, c \in Calls : b = c

(* findQueue: the orders of a table in a status, by position. *)
InOrder(table, status) ==
    LET Queue == {o \in Orders : table[o].status = status}
        Places == 1..Cardinality(Queue)
    IN  CHOOSE queue \in [Places -> Queue] :
            \A i, j \in Places :
                i < j => table[queue[i]].queueSeq < table[queue[j]].queueSeq

Stages == [o \in Orders |-> rows[o].status]

Announcements == [i \in 1..Len(outbox) |-> <<outbox[i].type, outbox[i].order>>]

Promise ==
    INSTANCE OrderQueues WITH
        stage             <- Stages,
        awaitingDiagnosis <- InOrder(rows, "IN_DIAGNOSIS_QUEUE"),
        awaitingRepair    <- InOrder(rows, "IN_EXECUTION_QUEUE"),
        announced         <- Announcements

(* Without overlap the service keeps its promise: every commit is a step   *)
(* of the two FIFO queues and every other statement changes nothing that   *)
(* the promise speaks of.                                                  *)
KeepsPromise == Promise!Spec
=============================================================================
