---------------------------- MODULE OrderQueues ----------------------------
(***************************************************************************)
(* What the service promises to the shop: two FIFO queues and a lifecycle. *)
(*                                                                         *)
(* Every order is in one stage.  Orders wait for a diagnosis in the order  *)
(* in which they were received and for a repair in the order in which they *)
(* were paid; only the head of a queue advances; an order can be cancelled *)
(* until its repair starts; each diagnosis and each outcome is announced   *)
(* exactly once, when it happens.                                          *)
(***************************************************************************)
EXTENDS Naturals, Sequences

CONSTANT Orders

VARIABLES
    stage,             \* the stage each order is in
    awaitingDiagnosis, \* the diagnosis queue
    awaitingRepair,    \* the execution queue
    announced          \* the <<event, order>> pairs the other services are told

vars == <<stage, awaitingDiagnosis, awaitingRepair, announced>>

Init ==
    /\ stage = [o \in Orders |-> "ABSENT"]
    /\ awaitingDiagnosis = <<>>
    /\ awaitingRepair = <<>>
    /\ announced = <<>>

Moves(o, from, to) ==
    /\ stage[o] = from
    /\ stage' = [stage EXCEPT ![o] = to]

HeadLeaves(queue, o) ==
    /\ queue # <<>>
    /\ Head(queue) = o

Receive(o) ==
    /\ Moves(o, "ABSENT", "IN_DIAGNOSIS_QUEUE")
    /\ awaitingDiagnosis' = Append(awaitingDiagnosis, o)
    /\ UNCHANGED <<awaitingRepair, announced>>

Diagnose(o) ==
    /\ Moves(o, "IN_DIAGNOSIS_QUEUE", "AWAITING_PAYMENT")
    /\ HeadLeaves(awaitingDiagnosis, o)
    /\ awaitingDiagnosis' = Tail(awaitingDiagnosis)
    /\ announced' = Append(announced, <<"diagnostic.finished", o>>)
    /\ UNCHANGED awaitingRepair

Pay(o) ==
    /\ Moves(o, "AWAITING_PAYMENT", "IN_EXECUTION_QUEUE")
    /\ awaitingRepair' = Append(awaitingRepair, o)
    /\ UNCHANGED <<awaitingDiagnosis, announced>>

StartRepair(o) ==
    /\ Moves(o, "IN_EXECUTION_QUEUE", "IN_EXECUTION")
    /\ HeadLeaves(awaitingRepair, o)
    /\ awaitingRepair' = Tail(awaitingRepair)
    /\ UNCHANGED <<awaitingDiagnosis, announced>>

EndRepair(o, outcome, event) ==
    /\ Moves(o, "IN_EXECUTION", outcome)
    /\ announced' = Append(announced, <<event, o>>)
    /\ UNCHANGED <<awaitingDiagnosis, awaitingRepair>>

Finish(o) == EndRepair(o, "FINISHED", "execution.finished")

Fail(o) == EndRepair(o, "FAILED", "execution.failed")

(* The queue without the element at place i. *)
Without(queue, i) ==
    [j \in 1..(Len(queue) - 1) |-> IF j < i THEN queue[j] ELSE queue[j + 1]]

(* Who cancels leaves the queue it stands in, wherever it stands. *)
Cancel(o) ==
    /\ \/ /\ Moves(o, "IN_DIAGNOSIS_QUEUE", "CANCELLED")
          /\ \E i \in 1..Len(awaitingDiagnosis) :
                /\ awaitingDiagnosis[i] = o
                /\ awaitingDiagnosis' = Without(awaitingDiagnosis, i)
          /\ UNCHANGED awaitingRepair
       \/ /\ Moves(o, "AWAITING_PAYMENT", "CANCELLED")
          /\ UNCHANGED <<awaitingDiagnosis, awaitingRepair>>
       \/ /\ Moves(o, "IN_EXECUTION_QUEUE", "CANCELLED")
          /\ \E i \in 1..Len(awaitingRepair) :
                /\ awaitingRepair[i] = o
                /\ awaitingRepair' = Without(awaitingRepair, i)
          /\ UNCHANGED awaitingDiagnosis
    /\ UNCHANGED announced

Next ==
    \E o \in Orders :
        \/ Receive(o) \/ Diagnose(o) \/ Pay(o) \/ StartRepair(o)
        \/ Finish(o) \/ Fail(o) \/ Cancel(o)

Spec == Init /\ [][Next]_vars
=============================================================================
