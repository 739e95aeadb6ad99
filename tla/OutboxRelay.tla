----------------------------- MODULE OutboxRelay -----------------------------
(***************************************************************************)
(* What the outbox promises the other services: at-least-once delivery.    *)
(* An event is told only once it is committed, any number of times until   *)
(* it is settled and never after; and it is told before it is settled as   *)
(* long as nothing has failed.                                             *)
(***************************************************************************)
EXTENDS Naturals

CONSTANT Events

VARIABLES
    committed,   \* the events whose transaction has committed
    copies,      \* how many copies of each the broker has been told
    settled,     \* the events that are never told again
    faulty       \* whether anything has failed so far

vars == <<committed, copies, settled, faulty>>

Init ==
    /\ committed = {}
    /\ copies = [e \in Events |-> 0]
    /\ settled = {}
    /\ faulty = FALSE

Commit(e) ==
    /\ e \notin committed
    /\ committed' = committed \cup {e}
    /\ UNCHANGED <<copies, settled, faulty>>

(* A copy is told, and it may be the last one. *)
Tell(e) ==
    /\ e \in committed \ settled
    /\ copies' = [copies EXCEPT ![e] = @ + 1]
    /\ settled' \in {settled, settled \cup {e}}
    /\ UNCHANGED <<committed, faulty>>

(* The copies of some events are the last ones, or something fails: what   *)
(* fails may settle an event that nobody was told.                         *)
Settle(S) ==
    /\ S \subseteq committed \ settled
    /\ settled' = settled \cup S
    /\ faulty' \in BOOLEAN
    /\ faulty => faulty'
    /\ \A e \in S : copies[e] > 0 \/ faulty'
    /\ UNCHANGED <<committed, copies>>

Next ==
    \/ \E e \in Events : Commit(e) \/ Tell(e)
    \/ \E S \in SUBSET Events : Settle(S)

Safety == Init /\ [][Next]_vars

Delivery == \A e \in Events : e \in committed ~> e \in settled

Spec == Safety /\ Delivery
=============================================================================
