------------------------ MODULE MCExecutionUseCases ------------------------
(***************************************************************************)
(* Small instances of ExecutionUseCases.  Orders, calls and diagnoses are  *)
(* model values a run gives, interchangeable in the safety runs.           *)
(***************************************************************************)
EXTENDS ExecutionUseCases, FiniteSets, TLC

Symmetry == Permutations(Orders) \cup Permutations(Calls)

(* Any stage an order rests in while nobody serves it: orders have been    *)
(* received and diagnosed by calls that ended, in any order, and the       *)
(* others are not known yet.  Calls that failed have drawn positions, too. *)
StagesInit ==
    \E diagnosed \in SUBSET Orders, d \in Diagnoses :
        LET n == Cardinality(diagnosed) IN
        /\ rows = [o \in Orders |-> IF o \in diagnosed THEN registerDiagnosis(NoOrder, d)
                                                       ELSE NoOrder]
        /\ queueSeq = Cardinality(Orders)
        /\ \E served \in [1..n -> diagnosed] :
               /\ \A o \in diagnosed : \E i \in 1..n : served[i] = o
               /\ outbox = [i \in 1..n |-> [type |-> "diagnostic.finished",
                                            order |-> served[i], diagnosis |-> d]]
        /\ calls = [c \in Calls |-> Idle]
        /\ paid = {}
        /\ overlapped = {}
        /\ ahead = {}

StagesSpec == StagesInit /\ [][Next]_vars
=============================================================================
