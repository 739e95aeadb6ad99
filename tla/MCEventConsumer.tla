--------------------------- MODULE MCEventConsumer ---------------------------
(***************************************************************************)
(* Small instances of EventConsumer: the messages the other services       *)
(* publish, and where the story begins.                                    *)
(***************************************************************************)
EXTENDS EventConsumer, TLC

CONSTANT o1   \* the order the messages are about

Event(id, key, body) == [id |-> id, key |-> key, order |-> o1, body |-> body]

(* An order is received, its payment is approved, and a rejection of its   *)
(* quotation without a message id races the approval.                      *)
PaymentStory ==
    {Event(1, "order.received", "valid"),
     Event(2, "payment.approved", "valid"),
     Event(NoId, "quotation.rejected", "valid")}

(* Next to a payment come two bodies nothing can be made of. *)
InvalidStory ==
    {Event(1, "payment.approved", "valid"),
     Event(2, "payment.failed", "malformed"),
     Event(NoId, "payment.failed", "null")}

OnePayment == {Event(1, "order.received", "valid"), Event(2, "payment.approved", "valid")}

OneReceipt == {Event(1, "order.received", "valid")}

Symmetry == Permutations(Replicas) \cup Permutations(Handlers)

(* The story begins once a mechanic has diagnosed the order. *)
DiagnosedInit ==
    /\ \E d \in Diagnoses :
          /\ rows = [o \in Orders |-> registerDiagnosis(NoOrder, d)]
          /\ outbox = <<[type |-> "diagnostic.finished", order |-> o1, diagnosis |-> d]>>
    /\ queueSeq = 1
    /\ calls = [c \in Calls |-> Idle]
    /\ paid = {}
    /\ overlapped = {}
    /\ ahead = {}
    /\ ConsumerInit

DiagnosedSpec == DiagnosedInit /\ [][ConsumerNext]_allVars /\ ConsumerFairness
=============================================================================
