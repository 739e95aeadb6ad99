--------------------------- MODULE ExecutionOrder ---------------------------
(***************************************************************************)
(* The aggregate of the service: one execution order per service order.    *)
(*                                                                         *)
(* An order is the value the entity class holds between restore and        *)
(* toState, reduced to the three columns whose values decide anything: the *)
(* status, the diagnosis and the queue position.  The timestamps and the   *)
(* failure reason are written and never read by a decision of the code, so *)
(* they are left out.                                                      *)
(*                                                                         *)
(* Each method of the class is an operator from the order before to the    *)
(* order after; the assertion that guards the method is the membership of  *)
(* the current status in AllowedFrom of the method.                        *)
(***************************************************************************)
EXTENDS Naturals

CONSTANTS
    Diagnoses,     \* the (parts, services) payloads a mechanic can register
    NoDiagnosis    \* the SQL NULL of the diagnosis column

ASSUME NoDiagnosisAssumption == NoDiagnosis \notin Diagnoses

Status == {"IN_DIAGNOSIS_QUEUE", "AWAITING_PAYMENT", "IN_EXECUTION_QUEUE",
           "IN_EXECUTION", "FINISHED", "FAILED", "CANCELLED"}

Absent == "ABSENT"

(* Postgres sequences start at 1, so 0 stands for a NULL queue_seq. *)
NoSeq == 0

Order == [status    : Status \cup {Absent},
          diagnosis : Diagnoses \cup {NoDiagnosis},
          queueSeq  : Nat]

(* What findByServiceOrderId answers when there is no such row. *)
NoOrder == [status |-> Absent, diagnosis |-> NoDiagnosis, queueSeq |-> NoSeq]

-----------------------------------------------------------------------------
(* Mutants: an assertion with one status too many. *)
AllowedFromCancelAnytime ==
    [RegisterDiagnosis   |-> {"IN_DIAGNOSIS_QUEUE"},
     EnqueueForExecution |-> {"AWAITING_PAYMENT"},
     CancelExecution     |-> {"IN_DIAGNOSIS_QUEUE", "AWAITING_PAYMENT",
                              "IN_EXECUTION_QUEUE", "IN_EXECUTION"},
     StartExecution      |-> {"IN_EXECUTION_QUEUE"},
     FinishExecution     |-> {"IN_EXECUTION"},
     FailExecution       |-> {"IN_EXECUTION"}]

AllowedFromFinishUnpaid ==
    [AllowedFromCancelAnytime EXCEPT !.FinishExecution = {"IN_EXECUTION", "AWAITING_PAYMENT"}]

AllowedFromFailFinished ==
    [AllowedFromCancelAnytime EXCEPT !.FailExecution = {"IN_EXECUTION", "FINISHED"}]

(* assertStatus and assertStatusIn: the statuses each method accepts.  In  *)
(* any other status the method throws InvalidTransitionError and leaves    *)
(* the order as it was.                                                    *)
AllowedFrom ==
    [RegisterDiagnosis   |-> {"IN_DIAGNOSIS_QUEUE"},
     EnqueueForExecution |-> {"AWAITING_PAYMENT"},
     CancelExecution     |-> {"IN_DIAGNOSIS_QUEUE", "AWAITING_PAYMENT",
                              "IN_EXECUTION_QUEUE"},
     StartExecution      |-> {"IN_EXECUTION_QUEUE"},
     FinishExecution     |-> {"IN_EXECUTION"},
     FailExecution       |-> {"IN_EXECUTION"}]

Accepts(order, method) == order.status \in AllowedFrom[method]

receive(seq) ==
    [status |-> "IN_DIAGNOSIS_QUEUE", diagnosis |-> NoDiagnosis, queueSeq |-> seq]

registerDiagnosis(order, diagnosis) ==
    [status |-> "AWAITING_PAYMENT", diagnosis |-> diagnosis, queueSeq |-> NoSeq]

enqueueForExecution(order, seq) ==
    [order EXCEPT !.status = "IN_EXECUTION_QUEUE", !.queueSeq = seq]

(* Mutants: a status no other code knows; a position kept. *)
cancelMisspelt(order) == [order EXCEPT !.status = "CANCELED", !.queueSeq = NoSeq]
cancelInPlace(order) == [order EXCEPT !.status = "CANCELLED"]

cancel(order) == [order EXCEPT !.status = "CANCELLED", !.queueSeq = NoSeq]

start(order) == [order EXCEPT !.status = "IN_EXECUTION", !.queueSeq = NoSeq]

finish(order) == [order EXCEPT !.status = "FINISHED"]

fail(order) == [order EXCEPT !.status = "FAILED"]
=============================================================================
