---------------------- MODULE ExecutionUseCases_proofs ----------------------
(***************************************************************************)
(* Proofs about the concurrent use cases, for any sets of orders, calls    *)
(* and diagnoses and any bound on the sequence.                            *)
(***************************************************************************)
EXTENDS ExecutionUseCases, TLAPS

(* The use cases that find an existing order and change it. *)
Changes == {"RegisterDiagnosis", "EnqueueForExecution", "CancelExecution",
            "StartExecution", "FinishExecution", "FailExecution"}

LEMMA UseCasesList ==
    /\ DOMAIN AllowedFrom = Changes
    /\ UseCases = Changes \cup {"EnqueueForDiagnosis"}
    /\ DOMAIN EventOf = {"RegisterDiagnosis", "FinishExecution", "FailExecution"}
BY DEF AllowedFrom, UseCases, Changes, EventOf

(* Applied is the method of the use case. *)
LEMMA AppliedCases ==
    ASSUME NEW call, NEW order, NEW seq
    PROVE  /\ call.op = "RegisterDiagnosis" =>
                 Applied(call, order, seq) = registerDiagnosis(order, call.diagnosis)
           /\ call.op = "EnqueueForExecution" =>
                 Applied(call, order, seq) = enqueueForExecution(order, seq)
           /\ call.op = "CancelExecution" => Applied(call, order, seq) = cancel(order)
           /\ call.op = "StartExecution" => Applied(call, order, seq) = start(order)
           /\ call.op = "FinishExecution" => Applied(call, order, seq) = finish(order)
           /\ call.op = "FailExecution" => Applied(call, order, seq) = fail(order)
BY DEF Applied

(* The entity's methods return orders. *)
LEMMA AppliedType ==
    ASSUME NEW call \in Call, call.op \in Changes,
           call.op = "RegisterDiagnosis" => call.diagnosis \in Diagnoses,
           NEW order \in Order, NEW seq \in Nat
    PROVE  Applied(call, order, seq) \in Order
<1>1. registerDiagnosis(order, call.diagnosis) \in Order
         \/ call.op # "RegisterDiagnosis"
  BY DEF registerDiagnosis, Order, Status, NoSeq, Absent
<1>2. enqueueForExecution(order, seq) \in Order
  BY DEF enqueueForExecution, Order, Status, Absent
<1>3. cancel(order) \in Order
  BY DEF cancel, Order, Status, NoSeq, Absent
<1>4. start(order) \in Order
  BY DEF start, Order, Status, NoSeq, Absent
<1>5. finish(order) \in Order
  BY DEF finish, Order, Status, Absent
<1>6. fail(order) \in Order
  BY DEF fail, Order, Status, Absent
<1> QED
  BY <1>1, <1>2, <1>3, <1>4, <1>5, <1>6, AppliedCases DEF Changes

LEMMA NoOrderType == NoOrder \in Order
BY DEF NoOrder, Order, NoSeq

(* Which use case can await which statement, and what it then holds. *)
AwaitsOK ==
    \A c \in Calls : InFlight(c) =>
        /\ calls[c].op = "RegisterDiagnosis" => calls[c].diagnosis \in Diagnoses
        /\ calls[c].await = "nextSeq" =>
               calls[c].op \in {"EnqueueForDiagnosis", "EnqueueForExecution"}
        /\ calls[c].await = "findQueue" =>
               calls[c].op \in {"StartExecution", "RegisterDiagnosis"}
        /\ calls[c].await = "insert" => calls[c].op = "EnqueueForDiagnosis"
        /\ calls[c].await \in {"load", "write"} => calls[c].op \in Changes

TypeInv == TypeOK /\ AwaitsOK

(* What AwaitsOK asks of a single call. *)
CallOK(call) ==
    /\ call \in Call
    /\ call.op = "RegisterDiagnosis" => call.diagnosis \in Diagnoses
    /\ call.await = "nextSeq" => call.op \in {"EnqueueForDiagnosis", "EnqueueForExecution"}
    /\ call.await = "findQueue" => call.op \in {"StartExecution", "RegisterDiagnosis"}
    /\ call.await = "insert" => call.op = "EnqueueForDiagnosis"
    /\ call.await \in {"load", "write"} => call.op \in Changes

LEMMA TypeInvCalls ==
    TypeInv => /\ \A c \in Calls : calls[c] = Idle \/ CallOK(calls[c])
               /\ \A c \in Calls : InFlight(c) <=> calls[c] # Idle
BY DEF TypeInv, TypeOK, AwaitsOK, CallOK, InFlight, Idle, Call

(* A step that rewrites one call with a well-formed one keeps them all so. *)
LEMMA OneCall ==
    ASSUME TypeInv, NEW c \in Calls, NEW call,
           call = Idle \/ CallOK(call),
           calls' = [calls EXCEPT ![c] = call]
    PROVE  /\ calls' \in [Calls -> Call \cup {Idle}]
           /\ AwaitsOK'
<1>1. calls \in [Calls -> Call \cup {Idle}]
  BY DEF TypeInv, TypeOK
<1>2. calls' \in [Calls -> Call \cup {Idle}]
  BY <1>1 DEF CallOK
<1>3. ASSUME NEW b \in Calls
      PROVE  calls'[b] = Idle \/ CallOK(calls'[b])
  BY <1>1, TypeInvCalls
<1>4. AwaitsOK'
  BY <1>3 DEF AwaitsOK, InFlight, CallOK, Idle
<1> QED
  BY <1>2, <1>4

LEMMA EndsType ==
    ASSUME TypeInv, NEW c \in Calls, NEW out, NEW answers, Ends(c, out, answers)
    PROVE  calls' \in [Calls -> Call \cup {Idle}] /\ AwaitsOK'
BY OneCall DEF Ends

(* The call Moves leaves behind. *)
LEMMA MovesCall ==
    ASSUME TypeInv, NEW c \in Calls, InFlight(c), NEW await, NEW entity, NEW out,
           Moves(c, await, entity, out)
    PROVE  /\ calls' = [calls EXCEPT ![c] = [calls[c] EXCEPT !.await = await,
                                                            !.entity = entity]]
           /\ out = "pending"
BY TypeInvCalls DEF Moves, TypeInv, TypeOK, CallOK, Call

LEMMA MovesType ==
    ASSUME TypeInv, NEW c \in Calls, InFlight(c), NEW entity \in Order, NEW out,
           NEW await \in {"nextSeq", "findQueue", "insert", "load"},
           await = "nextSeq" => calls[c].op \in {"EnqueueForDiagnosis", "EnqueueForExecution"},
           await = "findQueue" => calls[c].op \in {"StartExecution", "RegisterDiagnosis"},
           await = "insert" => calls[c].op = "EnqueueForDiagnosis",
           await = "load" => calls[c].op \in Changes,
           Moves(c, await, entity, out)
    PROVE  calls' \in [Calls -> Call \cup {Idle}] /\ AwaitsOK'
<1> DEFINE call == [calls[c] EXCEPT !.await = await, !.entity = entity]
<1>1. CallOK(calls[c])
  BY TypeInvCalls
<1>2. CallOK(call)
  BY <1>1 DEF CallOK, Call
<1>3. calls' = [calls EXCEPT ![c] = call]
  BY MovesCall
<1> QED
  BY <1>2, <1>3, OneCall

LEMMA TransitionsType ==
    ASSUME TypeInv, NEW c \in Calls, InFlight(c), calls[c].op \in Changes,
           NEW order \in Order, NEW seq \in Nat, NEW out,
           Transitions(c, order, seq, out)
    PROVE  calls' \in [Calls -> Call \cup {Idle}] /\ AwaitsOK'
<1>1. CASE Ends(c, out, {"InvalidTransitionError"})
  BY <1>1, EndsType
<1>2. CASE Moves(c, "load", Applied(calls[c], order, seq), out)
  <2>1. Applied(calls[c], order, seq) \in Order
    BY TypeInvCalls, AppliedType DEF CallOK
  <2> QED
    BY <1>2, <2>1, MovesType
<1> QED
  BY <1>1, <1>2 DEF Transitions

-----------------------------------------------------------------------------
(* Initially, and after every step, every variable has its type. *)
LEMMA TypeInvInit == Init => TypeInv
BY NoOrderType DEF Init, TypeInv, TypeOK, AwaitsOK, InFlight, Idle

(* The two parts a step can disturb, apart from calls. *)
LEMMA CommitsType ==
    ASSUME TypeInv, NEW c \in Calls, InFlight(c), NEW out, Commits(c, out)
    PROVE  /\ calls' \in [Calls -> Call \cup {Idle}] /\ AwaitsOK'
           /\ queueSeq' \in Nat
           /\ paid' \subseteq Orders
           /\ overlapped' \subseteq Orders
           /\ ahead' \subseteq Orders \X Orders
<1>1. calls[c] \in Call
  BY TypeInvCalls DEF CallOK
<1>2. calls' \in [Calls -> Call \cup {Idle}] /\ AwaitsOK'
  BY EndsType DEF Commits
<1>3. paid' \subseteq Orders
  BY <1>1 DEF Commits, TypeInv, TypeOK, Call
<1>4. ahead' \subseteq Orders \X Orders
  BY DEF Commits
<1> QED
  BY <1>2, <1>3, <1>4 DEF Commits, TypeInv, TypeOK

LEMMA BeginType ==
    ASSUME TypeInv, NEW c \in Calls, NEW op \in UseCases, NEW o \in Orders,
           NEW d \in Diagnoses \cup {NoDiagnosis}, Begin(c, op, o, d)
    PROVE  TypeInv'
<1> DEFINE call == [await |-> "findOrder", op |-> op, order |-> o, diagnosis |-> d,
                    entity |-> NoOrder, loaded |-> NoOrder]
<1>1. CallOK(call)
  BY NoOrderType DEF Begin, CallOK, Call
<1>2. calls' \in [Calls -> Call \cup {Idle}] /\ AwaitsOK'
  BY <1>1, OneCall DEF Begin
<1> QED
  BY <1>2 DEF Begin, TypeInv, TypeOK

LEMMA StepType ==
    ASSUME TypeInv, NEW c \in Calls, NEW out \in Outcomes, Step(c, out)
    PROVE  TypeInv'
<1> DEFINE CallsType == calls' \in [Calls -> Call \cup {Idle}] /\ AwaitsOK'
<1>1. InFlight(c) /\ CallOK(calls[c])
  BY TypeInvCalls DEF Step, FindOrder, NextQueueSeq, FindQueue, InsertOrder,
     RejectInsert, LoadRow, WriteRow, Abort, InFlight, Idle
<1>2. calls[c].order \in Orders /\ calls[c].entity \in Order
  BY <1>1 DEF CallOK, Call
<1>3. rows[calls[c].order] \in Order
  BY <1>2 DEF TypeInv, TypeOK
<1>4. CASE FindOrder(c, out)
  <2>1. CASE Ends(c, out, {"NotFoundError"}) \/ Ends(c, out, {"ok"})
    BY <2>1, <1>4, EndsType DEF FindOrder, TypeInv, TypeOK
  <2>2. CASE /\ calls[c].op \in {"EnqueueForDiagnosis", "EnqueueForExecution"}
             /\ Moves(c, "nextSeq", rows[calls[c].order], out)
    <3>1. CallsType
      BY <2>2, <1>1, <1>3, MovesType
    <3> QED
      BY <1>4, <3>1 DEF FindOrder, TypeInv, TypeOK
  <2>3. CASE /\ calls[c].op \in {"StartExecution", "RegisterDiagnosis"}
             /\ Moves(c, "findQueue", rows[calls[c].order], out)
    <3>1. CallsType
      BY <2>3, <1>1, <1>3, MovesType
    <3> QED
      BY <1>4, <3>1 DEF FindOrder, TypeInv, TypeOK
  <2>4. CASE /\ calls[c].op \notin {"EnqueueForDiagnosis", "EnqueueForExecution"}
             /\ Transitions(c, rows[calls[c].order], NoSeq, out)
    <3>1. calls[c].op \in Changes
      BY <2>4, <1>1, UseCasesList DEF CallOK, Call
    <3>2. CallsType
      BY <2>4, <3>1, <1>1, <1>3, TransitionsType DEF NoSeq
    <3> QED
      BY <1>4, <3>2 DEF FindOrder, TypeInv, TypeOK
  <2> QED
    BY <1>4, <2>1, <2>2, <2>3, <2>4 DEF FindOrder
<1>5. CASE NextQueueSeq(c, out)
  <2>1. queueSeq' \in Nat
    BY <1>5 DEF NextQueueSeq, TypeInv, TypeOK
  <2>2. CASE calls[c].op = "EnqueueForDiagnosis" /\ Moves(c, "insert", receive(queueSeq'), out)
    <3>1. receive(queueSeq') \in Order
      BY <2>1 DEF receive, Order, Status
    <3>2. CallsType
      BY <2>2, <3>1, <1>1, MovesType
    <3> QED
      BY <1>5, <2>1, <3>2 DEF NextQueueSeq, TypeInv, TypeOK
  <2>3. CASE /\ calls[c].op = "EnqueueForExecution"
             /\ Transitions(c, calls[c].entity, queueSeq', out)
    <3>1. CallsType
      BY <2>1, <2>3, <1>1, <1>2, TransitionsType DEF Changes
    <3> QED
      BY <1>5, <2>1, <3>1 DEF NextQueueSeq, TypeInv, TypeOK
  <2> QED
    BY <1>5, <2>2, <2>3 DEF NextQueueSeq
<1>6. CASE FindQueue(c, out)
  <2>1. calls[c].op \in Changes
    BY <1>1, <1>6 DEF FindQueue, CallOK, Changes
  <2>2. CallsType
    BY <1>6, <2>1, <1>1, <1>2, TransitionsType, EndsType DEF FindQueue, NoSeq
  <2> QED
    BY <1>6, <2>2 DEF FindQueue, TypeInv, TypeOK
<1>7. CASE InsertOrder(c, out)
  <2>1. rows' \in [Orders -> Order]
    BY <1>2, <1>7 DEF InsertOrder, TypeInv, TypeOK
  <2> QED
    BY <1>1, <1>7, <2>1, CommitsType DEF InsertOrder, TypeInv, TypeOK
<1>8. CASE RejectInsert(c, out)
  BY <1>8, EndsType DEF RejectInsert, TypeInv, TypeOK
<1>9. CASE LoadRow(c, out)
  <2> DEFINE call == [calls[c] EXCEPT !.await = "write", !.loaded = rows[calls[c].order]]
  <2>1. CallOK(call)
    BY <1>1, <1>3, <1>9 DEF LoadRow, CallOK, Call
  <2>2. calls' = [calls EXCEPT ![c] = call]
    BY <1>1, <1>9 DEF LoadRow, CallOK, Call, TypeInv, TypeOK
  <2>3. CallsType
    BY <2>1, <2>2, OneCall
  <2> QED
    BY <1>9, <2>3 DEF LoadRow, TypeInv, TypeOK
<1>10. CASE WriteRow(c, out)
  <2>1. calls[c].loaded \in Order
    BY <1>1 DEF CallOK, Call
  <2>2. Updated(rows[calls[c].order], calls[c].entity, calls[c].loaded) \in Order
    BY <1>2, <1>3, <2>1 DEF Updated, Differing, Order
  <2>3. rows' \in [Orders -> Order]
    BY <1>2, <1>10, <2>2 DEF WriteRow, TypeInv, TypeOK
  <2>4. outbox' \in Seq(Events)
    <3>1. CASE calls[c].op \in DOMAIN EventOf
      <4>1. [type |-> EventOf[calls[c].op], order |-> calls[c].order,
             diagnosis |-> calls[c].diagnosis] \in Events
        BY <3>1, <1>1 DEF Events, CallOK, Call
      <4> QED
        BY <1>10, <3>1, <4>1 DEF WriteRow, TypeInv, TypeOK
    <3>2. CASE calls[c].op \notin DOMAIN EventOf
      BY <1>10, <3>2 DEF WriteRow, TypeInv, TypeOK
    <3> QED
      BY <3>1, <3>2
  <2> QED
    BY <1>1, <1>10, <2>3, <2>4, CommitsType DEF WriteRow, TypeInv, TypeOK
<1>11. CASE Abort(c, out)
  BY <1>11, EndsType DEF Abort, TypeInv, TypeOK
<1> QED
  BY <1>4, <1>5, <1>6, <1>7, <1>8, <1>9, <1>10, <1>11 DEF Step

LEMMA TypeInvNext == TypeInv /\ [Next]_vars => TypeInv'
<1> SUFFICES ASSUME TypeInv, [Next]_vars PROVE TypeInv'
  OBVIOUS
<1>1. CASE Next
  BY <1>1, BeginType, StepType DEF Next
<1>2. CASE UNCHANGED vars
  BY <1>2 DEF vars, TypeInv, TypeOK, AwaitsOK, InFlight
<1> QED
  BY <1>1, <1>2

(* Every variable always has its type, torn updates included. *)
THEOREM TypeCorrect == Spec => []TypeOK
<1>1. Spec => []TypeInv
  BY TypeInvInit, TypeInvNext, PTL DEF Spec
<1>2. TypeInv => TypeOK
  BY DEF TypeInv
<1> QED
  BY <1>1, <1>2, PTL

-----------------------------------------------------------------------------
(***************************************************************************)
(* The shapes of a step.  Seen from the invariants below, a call quits,    *)
(* keeps the row it found, decides (applies its method to what it found),  *)
(* creates an entity, loads the row, inserts or writes.                    *)
(***************************************************************************)
Set(c, call) == calls' = [calls EXCEPT ![c] = call]

(* The order the entity's method is applied to. *)
Found(c) ==
    IF calls[c].await = "findOrder" THEN rows[calls[c].order] ELSE calls[c].entity

Quits(c) == Set(c, Idle)

Keeps(c) ==
    /\ calls[c].op # "EnqueueForDiagnosis" => rows[calls[c].order].status # Absent
    /\ \E await \in {"nextSeq", "findQueue"} :
          Set(c, [calls[c] EXCEPT !.await = await, !.entity = rows[calls[c].order]])

Decides(c, seq) ==
    /\ calls[c].op \in Changes
    /\ calls[c].await \in {"findOrder", "nextSeq", "findQueue"}
    /\ Accepts(Found(c), calls[c].op)
    /\ calls[c].op = "EnqueueForExecution" <=> seq # NoSeq
    /\ Set(c, [calls[c] EXCEPT !.await = "load",
                               !.entity = Applied(calls[c], Found(c), seq)])

Creates(c, seq) ==
    /\ calls[c].op = "EnqueueForDiagnosis"
    /\ Set(c, [calls[c] EXCEPT !.await = "insert", !.entity = receive(seq)])

Loads(c) ==
    /\ calls[c].await = "load"
    /\ Set(c, [calls[c] EXCEPT !.await = "write", !.loaded = rows[calls[c].order]])

LEMMA TransitionsShape ==
    ASSUME TypeInv, NEW c \in Calls, InFlight(c), calls[c].op \in Changes,
           calls[c].await \in {"findOrder", "nextSeq", "findQueue"},
           NEW seq, calls[c].op = "EnqueueForExecution" <=> seq # NoSeq,
           NEW out, Transitions(c, Found(c), seq, out)
    PROVE  Quits(c) \/ Decides(c, seq)
<1>1. CASE Ends(c, out, {"InvalidTransitionError"})
  BY <1>1 DEF Ends, Quits, Set
<1>2. CASE /\ Accepts(Found(c), calls[c].op)
           /\ Moves(c, "load", Applied(calls[c], Found(c), seq), out)
  BY <1>2, MovesCall DEF Decides, Set
<1> QED
  BY <1>1, <1>2 DEF Transitions

LEMMA StepShape ==
    ASSUME TypeInv, NEW c \in Calls, NEW out, Step(c, out)
    PROVE  /\ InFlight(c) /\ CallOK(calls[c])
           /\ \/ /\ UNCHANGED <<rows, outbox, paid, overlapped, ahead>>
                 /\ \/ /\ queueSeq' = queueSeq
                       /\ Quits(c) \/ Keeps(c) \/ Loads(c) \/ Decides(c, NoSeq)
                    \/ /\ queueSeq' = queueSeq + 1
                       /\ \/ Quits(c)
                          \/ Creates(c, queueSeq')
                          \/ Decides(c, queueSeq')
              \/ InsertOrder(c, out)
              \/ WriteRow(c, out)
<1>1. InFlight(c) /\ CallOK(calls[c])
  BY TypeInvCalls DEF Step, FindOrder, NextQueueSeq, FindQueue, InsertOrder,
     RejectInsert, LoadRow, WriteRow, Abort, InFlight, Idle
<1>2. CASE FindOrder(c, out)
  <2>1. CASE Ends(c, out, {"NotFoundError"}) \/ Ends(c, out, {"ok"})
    BY <1>1, <1>2, <2>1 DEF FindOrder, Ends, Quits, Set
  <2>2. CASE /\ calls[c].op # "EnqueueForDiagnosis" => rows[calls[c].order].status # Absent
             /\ \E await \in {"nextSeq", "findQueue"} :
                    Moves(c, await, rows[calls[c].order], out)
    <3>1. PICK await \in {"nextSeq", "findQueue"} :
                   Moves(c, await, rows[calls[c].order], out)
      BY <2>2
    <3>2. Set(c, [calls[c] EXCEPT !.await = await, !.entity = rows[calls[c].order]])
      BY <1>1, <3>1, MovesCall DEF Set
    <3>3. Keeps(c)
      BY <2>2, <3>2 DEF Keeps
    <3> QED
      BY <1>1, <1>2, <3>3 DEF FindOrder
  <2>3. CASE /\ calls[c].op \notin {"EnqueueForDiagnosis", "EnqueueForExecution"}
             /\ Transitions(c, rows[calls[c].order], NoSeq, out)
    <3>1. calls[c].op \in Changes /\ Found(c) = rows[calls[c].order]
      BY <1>1, <1>2, <2>3, UseCasesList DEF CallOK, Call, FindOrder, Found
    <3>2. Quits(c) \/ Decides(c, NoSeq)
      BY <1>1, <1>2, <2>3, <3>1, TransitionsShape DEF FindOrder
    <3> QED
      BY <1>1, <1>2, <3>2 DEF FindOrder
  <2> QED
    BY <1>2, <2>1, <2>2, <2>3 DEF FindOrder
<1>3. CASE NextQueueSeq(c, out)
  <2>1. CASE /\ calls[c].op = "EnqueueForDiagnosis"
             /\ Moves(c, "insert", receive(queueSeq'), out)
    <3>1. Set(c, [calls[c] EXCEPT !.await = "insert", !.entity = receive(queueSeq')])
      BY <1>1, <2>1, MovesCall DEF Set
    <3>2. Creates(c, queueSeq')
      BY <2>1, <3>1 DEF Creates
    <3> QED
      BY <1>1, <1>3, <3>2 DEF NextQueueSeq
  <2>2. CASE /\ calls[c].op = "EnqueueForExecution"
             /\ Transitions(c, calls[c].entity, queueSeq', out)
    <3>1. calls[c].op \in Changes /\ Found(c) = calls[c].entity /\ queueSeq' # NoSeq
      BY <1>3, <2>2 DEF NextQueueSeq, Found, Changes, NoSeq, TypeInv, TypeOK
    <3>2. Quits(c) \/ Decides(c, queueSeq')
      BY <1>1, <1>3, <2>2, <3>1, TransitionsShape DEF NextQueueSeq
    <3> QED
      BY <1>1, <1>3, <3>2 DEF NextQueueSeq
  <2> QED
    BY <1>3, <2>1, <2>2 DEF NextQueueSeq
<1>4. CASE FindQueue(c, out)
  <2>1. CASE Ends(c, out, {"NotHeadOfQueueError"})
    BY <1>1, <1>4, <2>1 DEF FindQueue, Ends, Quits, Set
  <2>2. CASE Transitions(c, calls[c].entity, NoSeq, out)
    <3>1. /\ calls[c].op \in Changes /\ Found(c) = calls[c].entity
          /\ calls[c].op # "EnqueueForExecution"
      BY <1>1, <1>4 DEF FindQueue, Found, Changes, CallOK
    <3>2. Quits(c) \/ Decides(c, NoSeq)
      BY <1>1, <1>4, <2>2, <3>1, TransitionsShape DEF FindQueue
    <3> QED
      BY <1>1, <1>4, <3>2 DEF FindQueue
  <2> QED
    BY <1>4, <2>1, <2>2 DEF FindQueue
<1>5. CASE LoadRow(c, out)
  <2>1. Loads(c)
    BY <1>1, <1>5 DEF LoadRow, Loads, Set, CallOK, Call, TypeInv, TypeOK
  <2> QED
    BY <1>1, <1>5, <2>1 DEF LoadRow
<1>6. CASE RejectInsert(c, out) \/ Abort(c, out)
  BY <1>1, <1>6 DEF RejectInsert, Abort, Ends, Quits, Set
<1> QED
  BY <1>1, <1>2, <1>3, <1>4, <1>5, <1>6 DEF Step

LEMMA SetOne ==
    ASSUME TypeInv, NEW c \in Calls, NEW call, Set(c, call)
    PROVE  /\ calls'[c] = call
           /\ \A b \in Calls \ {c} : calls'[b] = calls[b]
BY DEF Set, TypeInv, TypeOK

-----------------------------------------------------------------------------
(***************************************************************************)
(* Positions.  A position drawn from the sequence is held by one order: in *)
(* its row, or in the entities of the calls that serve it, where a write   *)
(* may still put it back.  A row's position alone is not inductive.        *)
(***************************************************************************)
Holds(o, n) ==
    \/ rows[o].queueSeq = n
    \/ \E c \in Calls : /\ InFlight(c)
                       /\ calls[c].order = o
                       /\ calls[c].entity.queueSeq = n

PositionsInv ==
    \A o \in Orders, n \in Nat \ {NoSeq} :
        Holds(o, n) => /\ n <= queueSeq
                       /\ \A p \in Orders : Holds(p, n) => p = o

(* A method keeps the position, clears it or takes the one it is given. *)
LEMMA AppliedPosition ==
    ASSUME NEW call, call.op \in Changes, NEW order \in Order, NEW seq
    PROVE  Applied(call, order, seq).queueSeq \in {NoSeq, order.queueSeq, seq}
<1>1. registerDiagnosis(order, call.diagnosis).queueSeq = NoSeq
  BY DEF registerDiagnosis
<1>2. enqueueForExecution(order, seq).queueSeq = seq
  BY DEF enqueueForExecution, Order
<1>3. cancel(order).queueSeq = NoSeq
  BY DEF cancel, Order
<1>4. start(order).queueSeq = NoSeq
  BY DEF start, Order
<1>5. finish(order).queueSeq = order.queueSeq
  BY DEF finish, Order
<1>6. fail(order).queueSeq = order.queueSeq
  BY DEF fail, Order
<1> QED
  BY <1>1, <1>2, <1>3, <1>4, <1>5, <1>6, AppliedCases DEF Changes

(* Nothing new is held, but possibly a value just drawn, by one order. *)
LEMMA PositionsKept ==
    ASSUME TypeInv, PositionsInv, NEW owner \in Orders,
           queueSeq' = queueSeq \/ queueSeq' = queueSeq + 1,
           \A o \in Orders, n \in Nat \ {NoSeq} :
               Holds(o, n)' => \/ Holds(o, n)
                               \/ o = owner /\ n = queueSeq' /\ n = queueSeq + 1
    PROVE  PositionsInv'
<1>1. queueSeq \in Nat
  BY DEF TypeInv, TypeOK
<1>2. ASSUME NEW o \in Orders, NEW n \in Nat \ {NoSeq}, Holds(o, n)'
      PROVE  n <= queueSeq' /\ \A p \in Orders : Holds(p, n)' => p = o
  <2>1. CASE Holds(o, n)
    <3>1. n <= queueSeq
      BY <2>1 DEF PositionsInv
    <3>2. n <= queueSeq' /\ n # queueSeq + 1
      BY <1>1, <3>1
    <3>3. \A p \in Orders : Holds(p, n)' => Holds(p, n)
      BY <3>2
    <3> QED
      BY <2>1, <3>2, <3>3 DEF PositionsInv
  <2>2. CASE o = owner /\ n = queueSeq' /\ n = queueSeq + 1
    <3>1. ~ (n <= queueSeq)
      BY <1>1, <2>2
    <3>2. \A p \in Orders : ~Holds(p, n)
      BY <3>1 DEF PositionsInv
    <3> QED
      BY <1>1, <2>2, <3>2
  <2> QED
    BY <1>2, <2>1, <2>2
<1> QED
  BY <1>2 DEF PositionsInv

(* How one call and one row may change what is held. *)
LEMMA PositionsStep ==
    ASSUME TypeInv, PositionsInv, NEW c \in Calls, NEW call, Set(c, call),
           NEW owner \in Orders,
           queueSeq' = queueSeq \/ queueSeq' = queueSeq + 1,
           call.await # "idle" =>
               /\ call.order = owner
               /\ \/ call.entity.queueSeq = NoSeq
                  \/ Holds(owner, call.entity.queueSeq)
                  \/ call.entity.queueSeq = queueSeq' /\ queueSeq' = queueSeq + 1,
           \A o \in Orders : \/ rows'[o].queueSeq = NoSeq
                             \/ Holds(o, rows'[o].queueSeq)
    PROVE  PositionsInv'
<1>1. ASSUME NEW o \in Orders, NEW n \in Nat \ {NoSeq}, Holds(o, n)'
      PROVE  \/ Holds(o, n)
             \/ o = owner /\ n = queueSeq' /\ n = queueSeq + 1
  <2>1. CASE rows'[o].queueSeq = n
    BY <2>1
  <2>2. CASE \E b \in Calls : /\ InFlight(b)'
                             /\ calls'[b].order = o
                             /\ calls'[b].entity.queueSeq = n
    <3>1. PICK b \in Calls : /\ InFlight(b)'
                            /\ calls'[b].order = o
                            /\ calls'[b].entity.queueSeq = n
      BY <2>2
    <3>2. CASE b = c
      BY <3>1, <3>2, SetOne DEF InFlight
    <3>3. CASE b # c
      BY <3>1, <3>3, SetOne DEF InFlight, Holds
    <3> QED
      BY <3>2, <3>3
  <2> QED
    BY <1>1, <2>1, <2>2 DEF Holds
<1> QED
  BY <1>1, PositionsKept

LEMMA PositionsInit == Init => PositionsInv
BY DEF Init, PositionsInv, Holds, InFlight, Idle, NoOrder

LEMMA PositionsNext == TypeInv /\ PositionsInv /\ [Next]_vars => PositionsInv'
<1> SUFFICES ASSUME TypeInv, PositionsInv, [Next]_vars PROVE PositionsInv'
  OBVIOUS
<1>1. ASSUME NEW c \in Calls, NEW op \in UseCases, NEW o \in Orders,
             NEW d \in Diagnoses \cup {NoDiagnosis}, Begin(c, op, o, d)
      PROVE  PositionsInv'
  <2> DEFINE call == [await |-> "findOrder", op |-> op, order |-> o, diagnosis |-> d,
                      entity |-> NoOrder, loaded |-> NoOrder]
  <2>1. Set(c, call) /\ queueSeq' = queueSeq /\ rows' = rows
    BY <1>1 DEF Begin, Set
  <2>2. call.order = o /\ call.entity.queueSeq = NoSeq
    BY DEF NoOrder
  <2>3. \A p \in Orders : Holds(p, rows'[p].queueSeq)
    BY <2>1 DEF Holds
  <2> HIDE DEF call
  <2> QED
    BY <2>1, <2>2, <2>3, PositionsStep
<1>2. ASSUME NEW c \in Calls, NEW out \in Outcomes, Step(c, out)
      PROVE  PositionsInv'
  <2> DEFINE o == calls[c].order
  <2>1. InFlight(c) /\ CallOK(calls[c])
    BY <1>2, StepShape
  <2>2. o \in Orders /\ rows[o] \in Order /\ calls[c].entity \in Order
    BY <2>1 DEF CallOK, Call, TypeInv, TypeOK
  <2>3. Holds(o, rows[o].queueSeq) /\ Holds(o, calls[c].entity.queueSeq)
    BY <2>1 DEF Holds
  <2>4. ASSUME NEW p \in Orders, rows' = rows
        PROVE  Holds(p, rows'[p].queueSeq)
    BY <2>4 DEF Holds
  <2>5. CASE Quits(c) /\ rows' = rows /\ (queueSeq' = queueSeq \/ queueSeq' = queueSeq + 1)
    BY <2>2, <2>4, <2>5, PositionsStep DEF Quits, Idle
  <2>6. CASE Keeps(c) /\ rows' = rows /\ queueSeq' = queueSeq
    <3>1. PICK await \in {"nextSeq", "findQueue"} :
              Set(c, [calls[c] EXCEPT !.await = await, !.entity = rows[o]])
      BY <2>6 DEF Keeps
    <3> DEFINE call == [calls[c] EXCEPT !.await = await, !.entity = rows[o]]
    <3>2. call.order = o /\ call.entity = rows[o]
      BY <2>1 DEF CallOK, Call
    <3> HIDE DEF call
    <3> QED
      BY <2>2, <2>3, <2>4, <2>6, <3>1, <3>2, PositionsStep DEF call
  <2>7. CASE Loads(c) /\ rows' = rows /\ queueSeq' = queueSeq
    <3> DEFINE call == [calls[c] EXCEPT !.await = "write", !.loaded = rows[o]]
    <3>1. call.order = o /\ call.entity = calls[c].entity
      BY <2>1 DEF CallOK, Call
    <3>2. Set(c, call)
      BY <2>7 DEF Loads
    <3> HIDE DEF call
    <3> QED
      BY <2>2, <2>3, <2>4, <2>7, <3>1, <3>2, PositionsStep
  <2>8. ASSUME NEW seq, Decides(c, seq), rows' = rows,
               \/ seq = NoSeq /\ queueSeq' = queueSeq
               \/ seq = queueSeq' /\ queueSeq' = queueSeq + 1
        PROVE  PositionsInv'
    <3> DEFINE call == [calls[c] EXCEPT !.await = "load",
                                        !.entity = Applied(calls[c], Found(c), seq)]
    <3>1. call.order = o /\ call.entity = Applied(calls[c], Found(c), seq)
      BY <2>1 DEF CallOK, Call
    <3>2. Set(c, call) /\ calls[c].op \in Changes
      BY <2>8 DEF Decides
    <3>3. Found(c) \in Order /\ Holds(o, Found(c).queueSeq)
      BY <2>2, <2>3 DEF Found
    <3>4. call.entity.queueSeq \in {NoSeq, Found(c).queueSeq, seq}
      BY <3>1, <3>2, <3>3, AppliedPosition
    <3> HIDE DEF call
    <3> QED
      BY <2>2, <2>4, <2>8, <3>1, <3>2, <3>3, <3>4, PositionsStep
  <2>9. CASE Creates(c, queueSeq') /\ rows' = rows /\ queueSeq' = queueSeq + 1
    <3> DEFINE call == [calls[c] EXCEPT !.await = "insert", !.entity = receive(queueSeq')]
    <3>1. call.order = o /\ call.entity.queueSeq = queueSeq'
      BY <2>1 DEF CallOK, Call, receive
    <3>2. Set(c, call)
      BY <2>9 DEF Creates
    <3> HIDE DEF call
    <3> QED
      BY <2>2, <2>4, <2>9, <3>1, <3>2, PositionsStep
  <2>10. CASE InsertOrder(c, out)
    <3>1. /\ Set(c, Idle) /\ queueSeq' = queueSeq
          /\ rows' = [rows EXCEPT ![o] = calls[c].entity]
      BY <2>10 DEF InsertOrder, Commits, Ends, Set
    <3>2. \A p \in Orders : Holds(p, rows'[p].queueSeq)
      BY <2>2, <2>3, <3>1 DEF Holds, TypeInv, TypeOK
    <3> QED
      BY <2>2, <3>1, <3>2, PositionsStep DEF Idle
  <2>11. CASE WriteRow(c, out)
    <3> DEFINE row == Updated(rows[o], calls[c].entity, calls[c].loaded)
    <3>1. Set(c, Idle) /\ queueSeq' = queueSeq /\ rows' = [rows EXCEPT ![o] = row]
      BY <2>11 DEF WriteRow, Commits, Ends, Set
    <3>2. row.queueSeq \in {rows[o].queueSeq, calls[c].entity.queueSeq}
      BY DEF Updated, Differing
    <3> HIDE DEF row
    <3>3. \A p \in Orders : Holds(p, rows'[p].queueSeq)
      BY <2>2, <2>3, <3>1, <3>2 DEF Holds, TypeInv, TypeOK
    <3> QED
      BY <2>2, <3>1, <3>3, PositionsStep DEF Idle
  <2> QED
    BY <1>2, <2>5, <2>6, <2>7, <2>8, <2>9, <2>10, <2>11, StepShape
<1>3. CASE UNCHANGED vars
  BY <1>3 DEF vars, PositionsInv, Holds, InFlight
<1> QED
  BY <1>1, <1>2, <1>3 DEF Next

(* No two orders ever hold the same position, whatever the calls that draw *)
(* positions waste, delay or write over.                                   *)
THEOREM PositionsAreUnique == Spec => []UniquePositions
<1>1. TypeInv /\ PositionsInv => UniquePositions
  BY DEF PositionsInv, Holds, UniquePositions, TypeInv, TypeOK, Order
<1>2. Spec => [](TypeInv /\ PositionsInv)
  BY TypeInvInit, TypeInvNext, PositionsInit, PositionsNext, PTL DEF Spec
<1> QED
  BY <1>1, <1>2, PTL

-----------------------------------------------------------------------------
(***************************************************************************)
(* Announcements.  The rows alone are not inductive: a call writes what it *)
(* found earlier, so whatever a call holds must have been told too, except *)
(* the event its own transaction is about to tell.                         *)
(***************************************************************************)
ToldDiagnosis(o, d) ==
    \E i \in 1..Len(outbox) : outbox[i].order = o /\ outbox[i].diagnosis = d

Told(o, order) ==
    /\ order.status \in Diagnosed => Announced(o, "diagnostic.finished")
    /\ order.status = "FINISHED" => Announced(o, "execution.finished")
    /\ order.status = "FAILED" => Announced(o, "execution.failed")
    /\ order.diagnosis # NoDiagnosis => ToldDiagnosis(o, order.diagnosis)

(* What a call may still write has been told, or will be by its own event. *)
Writes(call) ==
    /\ call.op \notin DOMAIN EventOf => Told(call.order, call.entity)
    /\ call.op = "RegisterDiagnosis" =>
          /\ call.entity.status = "AWAITING_PAYMENT"
          /\ call.entity.diagnosis = call.diagnosis
    /\ call.op = "FinishExecution" => call.entity.status = "FINISHED"
    /\ call.op = "FailExecution" => call.entity.status = "FAILED"
    /\ call.op \in {"FinishExecution", "FailExecution"} =>
          /\ Announced(call.order, "diagnostic.finished")
          /\ call.entity.diagnosis # NoDiagnosis =>
                 ToldDiagnosis(call.order, call.entity.diagnosis)

CallTold(call) ==
    /\ call.await \in {"nextSeq", "findQueue", "insert"} => Told(call.order, call.entity)
    /\ call.await \in {"load", "write"} => Writes(call)

AnnouncedInv ==
    /\ \A o \in Orders : Told(o, rows[o])
    /\ \A c \in Calls : InFlight(c) => CallTold(calls[c])
    /\ OutcomeFollowsDiagnosis

(* Events are never taken out of the outbox. *)
OutboxGrows == outbox' = outbox \/ \E e \in Events : outbox' = Append(outbox, e)

LEMMA ToldStays ==
    ASSUME TypeInv, OutboxGrows, NEW o, NEW type, NEW d
    PROVE  /\ Announced(o, type) => Announced(o, type)'
           /\ ToldDiagnosis(o, d) => ToldDiagnosis(o, d)'
<1>1. outbox \in Seq(Events)
  BY DEF TypeInv, TypeOK
<1>2. \A i \in 1..Len(outbox) : i \in 1..Len(outbox') /\ outbox'[i] = outbox[i]
  BY <1>1 DEF OutboxGrows
<1> QED
  BY <1>2 DEF Announced, ToldDiagnosis

LEMMA OrderToldStays ==
    ASSUME TypeInv, OutboxGrows, NEW o, NEW order, Told(o, order)
    PROVE  /\ order.status \in Diagnosed => Announced(o, "diagnostic.finished")'
           /\ order.status = "FINISHED" => Announced(o, "execution.finished")'
           /\ order.status = "FAILED" => Announced(o, "execution.failed")'
           /\ order.diagnosis # NoDiagnosis => ToldDiagnosis(o, order.diagnosis)'
BY ToldStays DEF Told

LEMMA CallToldStays ==
    ASSUME TypeInv, OutboxGrows, NEW c \in Calls, CallTold(calls[c]), calls'[c] = calls[c]
    PROVE  CallTold(calls[c])'
<1> DEFINE o == calls[c].order
<1>1. Told(o, calls[c].entity) => Told(o, calls[c].entity)'
  BY OrderToldStays DEF Told
<1> QED
  BY <1>1, ToldStays DEF CallTold, Writes

(* Applying a method to an order that has been told. *)
LEMMA AppliedTold ==
    ASSUME TypeInv, NEW call, call.op \in Changes, call.await = "load",
           NEW found \in Order, NEW seq, Told(call.order, found),
           Accepts(found, call.op), call.entity = Applied(call, found, seq)
    PROVE  CallTold(call)
<1>1. CASE call.op = "RegisterDiagnosis"
  BY <1>1, AppliedCases DEF registerDiagnosis, CallTold, Writes, EventOf
<1>2. CASE call.op = "EnqueueForExecution"
  <2>1. call.entity = enqueueForExecution(found, seq)
    BY <1>2, AppliedCases
  <2>2. found.status = "AWAITING_PAYMENT"
    BY <1>2 DEF Accepts, AllowedFrom
  <2> QED
    BY <1>2, <2>1, <2>2 DEF enqueueForExecution, CallTold, Writes, EventOf, Told, Diagnosed, Order
<1>3. CASE call.op = "CancelExecution"
  <2>1. call.entity = cancel(found)
    BY <1>3, AppliedCases
  <2> QED
    BY <1>3, <2>1 DEF cancel, CallTold, Writes, EventOf, Told, Diagnosed, Order
<1>4. CASE call.op = "StartExecution"
  <2>1. call.entity = start(found)
    BY <1>4, AppliedCases
  <2>2. found.status = "IN_EXECUTION_QUEUE"
    BY <1>4 DEF Accepts, AllowedFrom
  <2> QED
    BY <1>4, <2>1, <2>2 DEF start, CallTold, Writes, EventOf, Told, Diagnosed, Order
<1>5. CASE call.op = "FinishExecution"
  <2>1. call.entity = finish(found)
    BY <1>5, AppliedCases
  <2>2. found.status = "IN_EXECUTION"
    BY <1>5 DEF Accepts, AllowedFrom
  <2> QED
    BY <1>5, <2>1, <2>2 DEF finish, CallTold, Writes, EventOf, Told, Diagnosed, Order
<1>6. CASE call.op = "FailExecution"
  <2>1. call.entity = fail(found)
    BY <1>6, AppliedCases
  <2>2. found.status = "IN_EXECUTION"
    BY <1>6 DEF Accepts, AllowedFrom
  <2> QED
    BY <1>6, <2>1, <2>2 DEF fail, CallTold, Writes, EventOf, Told, Diagnosed, Order
<1> QED
  BY <1>1, <1>2, <1>3, <1>4, <1>5, <1>6 DEF Changes

LEMMA AnnouncedInit == Init => AnnouncedInv
<1> SUFFICES ASSUME Init PROVE AnnouncedInv
  OBVIOUS
<1>1. \A o \in Orders : Told(o, rows[o])
  BY DEF Init, Told, NoOrder, Absent, Diagnosed
<1>2. OutcomeFollowsDiagnosis
  BY DEF Init, OutcomeFollowsDiagnosis
<1> QED
  BY <1>1, <1>2 DEF Init, AnnouncedInv, InFlight, Idle

(* A step that leaves the rows and the outbox alone and sets one call. *)
LEMMA AnnouncedCall ==
    ASSUME TypeInv, AnnouncedInv, NEW c \in Calls, NEW call, Set(c, call),
           rows' = rows, outbox' = outbox, call.await # "idle" => CallTold(call)
    PROVE  AnnouncedInv'
<1>1. \A o \in Orders : Told(o, rows[o])'
  BY DEF AnnouncedInv, Told, ToldDiagnosis, Announced
<1>2. ASSUME NEW b \in Calls, InFlight(b)'
      PROVE  CallTold(calls[b])'
  <2>1. CASE b = c
    BY <1>2, <2>1, SetOne DEF InFlight, CallTold, Writes, Told, ToldDiagnosis, Announced
  <2>2. CASE b # c
    <3>1. CallTold(calls[b])
      BY <1>2, <2>2, SetOne DEF InFlight, AnnouncedInv
    <3> QED
      BY <2>2, <3>1, SetOne, CallToldStays DEF OutboxGrows
  <2> QED
    BY <2>1, <2>2
<1>3. OutcomeFollowsDiagnosis'
  BY DEF AnnouncedInv, OutcomeFollowsDiagnosis
<1> QED
  BY <1>1, <1>2, <1>3 DEF AnnouncedInv

(* A commit sets one row to what the outbox then tells. *)
LEMMA AnnouncedCommit ==
    ASSUME TypeInv, AnnouncedInv, NEW c \in Calls, NEW o \in Orders, NEW row,
           Set(c, Idle), rows' = [rows EXCEPT ![o] = row], OutboxGrows,
           Told(o, row)', OutcomeFollowsDiagnosis'
    PROVE  AnnouncedInv'
<1>1. ASSUME NEW p \in Orders PROVE Told(p, rows[p])'
  <2>1. CASE p = o
    BY <2>1 DEF TypeInv, TypeOK
  <2>2. CASE p # o
    <3>1. rows'[p] = rows[p] /\ Told(p, rows[p])
      BY <2>2 DEF TypeInv, TypeOK, AnnouncedInv
    <3> QED
      BY <3>1, OrderToldStays DEF Told
  <2> QED
    BY <2>1, <2>2
<1>2. ASSUME NEW b \in Calls, InFlight(b)'
      PROVE  CallTold(calls[b])'
  <2>1. b # c
    BY <1>2, SetOne DEF InFlight, Idle
  <2>2. calls'[b] = calls[b] /\ CallTold(calls[b])
    BY <1>2, <2>1, SetOne DEF InFlight, AnnouncedInv
  <2> QED
    BY <2>2, CallToldStays
<1> QED
  BY <1>1, <1>2 DEF AnnouncedInv

(* The commit of an update: the row mixes columns of the entity and of the *)
(* row, each of which has been told, or is told by this very transaction.  *)
LEMMA AnnouncedWrite ==
    ASSUME TypeInv, AnnouncedInv, NEW c \in Calls, NEW out, WriteRow(c, out)
    PROVE  AnnouncedInv'
<1> SUFFICES ASSUME NEW call, call = calls[c],
                    NEW row, row = Updated(rows[call.order], call.entity, call.loaded)
             PROVE  AnnouncedInv'
  OBVIOUS
<1> DEFINE o == call.order
           op == call.op
           entity == call.entity
           event == [type |-> EventOf[op], order |-> o, diagnosis |-> call.diagnosis]
<1>1. InFlight(c) /\ CallOK(call)
  BY TypeInvCalls DEF WriteRow, InFlight, Idle
<1>2. o \in Orders /\ call.await = "write" /\ op \in Changes
  BY <1>1 DEF CallOK, Call, WriteRow
<1>3. Set(c, Idle) /\ rows' = [rows EXCEPT ![o] = row]
  BY DEF WriteRow, Commits, Ends, Set
<1>4. Writes(call) /\ Told(o, rows[o])
  BY <1>1, <1>2 DEF AnnouncedInv, CallTold
<1>5. /\ row.status \in {entity.status, rows[o].status}
      /\ row.diagnosis \in {entity.diagnosis, rows[o].diagnosis}
  BY DEF Updated, Differing
<1>6. outbox \in Seq(Events)
  BY DEF TypeInv, TypeOK
<1>7. CASE op \notin DOMAIN EventOf
  <2>1. outbox' = outbox
    BY <1>7 DEF WriteRow
  <2>2. Told(o, entity)
    BY <1>4, <1>7 DEF Writes
  <2>3. Told(o, row)'
    BY <1>4, <1>5, <2>1, <2>2 DEF Told, Announced, ToldDiagnosis
  <2>4. OutcomeFollowsDiagnosis'
    BY <2>1 DEF AnnouncedInv, OutcomeFollowsDiagnosis
  <2> QED
    BY <1>2, <1>3, <2>1, <2>3, <2>4, AnnouncedCommit DEF OutboxGrows
<1>8. CASE op \in DOMAIN EventOf
  <2>1. event \in Events
    BY <1>1, <1>8 DEF Events, CallOK, Call
  <2>2. outbox' = Append(outbox, event)
    BY <1>8 DEF WriteRow
  <2>3. OutboxGrows
    BY <2>1, <2>2 DEF OutboxGrows
  <2>4. Announced(o, EventOf[op])' /\ ToldDiagnosis(o, call.diagnosis)'
    <3>1. /\ Len(outbox') = Len(outbox) + 1 /\ Len(outbox) \in Nat
          /\ outbox'[Len(outbox) + 1] = event
      BY <1>6, <2>1, <2>2
    <3> QED
      BY <3>1 DEF Announced, ToldDiagnosis
  <2>5. op = "RegisterDiagnosis" \/ op = "FinishExecution" \/ op = "FailExecution"
    BY <1>8, UseCasesList
  <2>6. Announced(o, "diagnostic.finished")'
    <3>1. CASE op = "RegisterDiagnosis"
      BY <2>4, <3>1 DEF EventOf
    <3>2. CASE op \in {"FinishExecution", "FailExecution"}
      BY <1>4, <2>3, <3>2, ToldStays DEF Writes
    <3> QED
      BY <2>5, <3>1, <3>2
  <2>7. /\ row.status = "FINISHED" => Announced(o, "execution.finished")'
        /\ row.status = "FAILED" => Announced(o, "execution.failed")'
    <3>1. CASE row.status = rows[o].status
      BY <1>4, <2>3, <3>1, ToldStays DEF Told
    <3>2. CASE row.status = entity.status
      BY <1>4, <2>4, <2>5, <3>2 DEF Writes, EventOf
    <3> QED
      BY <1>5, <3>1, <3>2
  <2>8. row.diagnosis # NoDiagnosis => ToldDiagnosis(o, row.diagnosis)'
    <3>1. CASE row.diagnosis = rows[o].diagnosis
      BY <1>4, <2>3, <3>1, ToldStays DEF Told
    <3>2. CASE row.diagnosis = entity.diagnosis
      BY <1>4, <2>3, <2>4, <2>5, <3>2, ToldStays DEF Writes
    <3> QED
      BY <1>5, <3>1, <3>2
  <2>9. OutcomeFollowsDiagnosis'
    <3> SUFFICES ASSUME NEW j \in 1..Len(outbox'),
                        outbox'[j].type # "diagnostic.finished"
                 PROVE  \E i \in 1..(j - 1) :
                            /\ outbox'[i].order = outbox'[j].order
                            /\ outbox'[i].type = "diagnostic.finished"
      BY DEF OutcomeFollowsDiagnosis
    <3>1. /\ Len(outbox') = Len(outbox) + 1 /\ Len(outbox) \in Nat
          /\ outbox'[Len(outbox) + 1] = event
          /\ \A i \in 1..Len(outbox) : outbox'[i] = outbox[i]
      BY <1>6, <2>1, <2>2
    <3>2. CASE j \in 1..Len(outbox)
      <4>1. PICK i \in 1..(j - 1) : /\ outbox[i].order = outbox[j].order
                                   /\ outbox[i].type = "diagnostic.finished"
        BY <3>1, <3>2 DEF AnnouncedInv, OutcomeFollowsDiagnosis
      <4>2. i \in 1..Len(outbox)
        BY <3>1, <3>2
      <4> QED
        BY <3>1, <3>2, <4>1, <4>2
    <3>3. CASE j = Len(outbox) + 1
      <4>1. op \in {"FinishExecution", "FailExecution"}
        BY <2>5, <3>1, <3>3 DEF EventOf
      <4>2. Announced(o, "diagnostic.finished")
        BY <1>4, <4>1 DEF Writes
      <4>3. PICK i \in 1..Len(outbox) : /\ outbox[i].order = o
                                       /\ outbox[i].type = "diagnostic.finished"
        BY <4>2 DEF Announced
      <4> QED
        BY <3>1, <3>3, <4>3
    <3> QED
      BY <3>1, <3>2, <3>3
  <2>10. Told(o, row)'
    BY <2>6, <2>7, <2>8 DEF Told
  <2> QED
    BY <1>2, <1>3, <2>3, <2>9, <2>10, AnnouncedCommit
<1> QED
  BY <1>7, <1>8

LEMMA AnnouncedStep ==
    ASSUME TypeInv, AnnouncedInv, NEW c \in Calls, NEW out, Step(c, out)
    PROVE  AnnouncedInv'
<1> DEFINE o == calls[c].order
<1>1. InFlight(c) /\ CallOK(calls[c])
  BY StepShape
<1>2. o \in Orders /\ rows[o] \in Order /\ calls[c].entity \in Order
  BY <1>1 DEF CallOK, Call, TypeInv, TypeOK
<1>3. Told(o, rows[o]) /\ CallTold(calls[c])
  BY <1>1, <1>2 DEF AnnouncedInv
<1>4. CASE Quits(c) /\ rows' = rows /\ outbox' = outbox
  BY <1>4, AnnouncedCall DEF Quits, Idle
<1>5. CASE Keeps(c) /\ rows' = rows /\ outbox' = outbox
  <2>1. PICK await \in {"nextSeq", "findQueue"} :
            Set(c, [calls[c] EXCEPT !.await = await, !.entity = rows[o]])
    BY <1>5 DEF Keeps
  <2> DEFINE call == [calls[c] EXCEPT !.await = await, !.entity = rows[o]]
  <2>2. call.order = o /\ call.entity = rows[o] /\ call.await = await
    BY <1>1 DEF CallOK, Call
  <2> HIDE DEF call
  <2>3. CallTold(call)
    BY <1>3, <2>2 DEF CallTold
  <2> QED
    BY <1>5, <2>1, <2>3, AnnouncedCall DEF call
<1>6. CASE Loads(c) /\ rows' = rows /\ outbox' = outbox
  <2> DEFINE call == [calls[c] EXCEPT !.await = "write", !.loaded = rows[o]]
  <2>1. /\ call.order = o /\ call.entity = calls[c].entity /\ call.op = calls[c].op
        /\ call.diagnosis = calls[c].diagnosis /\ call.await = "write"
    BY <1>1 DEF CallOK, Call
  <2>2. Set(c, call) /\ calls[c].await = "load"
    BY <1>6 DEF Loads
  <2> HIDE DEF call
  <2>3. CallTold(call)
    BY <1>3, <2>1, <2>2 DEF CallTold, Writes
  <2> QED
    BY <1>6, <2>2, <2>3, AnnouncedCall
<1>7. ASSUME NEW seq, Decides(c, seq), rows' = rows, outbox' = outbox
      PROVE  AnnouncedInv'
  <2> DEFINE call == [calls[c] EXCEPT !.await = "load",
                                      !.entity = Applied(calls[c], Found(c), seq)]
  <2>1. /\ call.order = o /\ call.op = calls[c].op /\ call.await = "load"
        /\ call.diagnosis = calls[c].diagnosis
        /\ call.entity = Applied(calls[c], Found(c), seq)
    BY <1>1 DEF CallOK, Call
  <2>2. Set(c, call) /\ calls[c].op \in Changes /\ Accepts(Found(c), calls[c].op)
    BY <1>7 DEF Decides
  <2>3. Found(c) \in Order /\ Told(o, Found(c))
    BY <1>2, <1>3, <1>7 DEF Found, Decides, CallTold
  <2> HIDE DEF call
  <2>4. Applied(call, Found(c), seq) = Applied(calls[c], Found(c), seq)
    BY <2>1 DEF Applied
  <2>5. CallTold(call)
    BY <2>1, <2>2, <2>3, <2>4, AppliedTold
  <2> QED
    BY <1>7, <2>2, <2>5, AnnouncedCall
<1>8. CASE Creates(c, queueSeq') /\ rows' = rows /\ outbox' = outbox
  <2> DEFINE call == [calls[c] EXCEPT !.await = "insert", !.entity = receive(queueSeq')]
  <2>1. call.await = "insert" /\ call.entity = receive(queueSeq')
    BY <1>1 DEF CallOK, Call
  <2>2. Set(c, call)
    BY <1>8 DEF Creates
  <2> HIDE DEF call
  <2>3. CallTold(call)
    BY <2>1 DEF CallTold, Told, receive, Diagnosed
  <2> QED
    BY <1>8, <2>2, <2>3, AnnouncedCall
<1>9. CASE InsertOrder(c, out)
  <2> SUFFICES ASSUME NEW p, p = o, NEW entity, entity = calls[c].entity
               PROVE  AnnouncedInv'
    OBVIOUS
  <2>1. Set(c, Idle) /\ outbox' = outbox /\ rows' = [rows EXCEPT ![p] = entity]
    BY <1>9 DEF InsertOrder, Commits, Ends, Set
  <2>2. Told(p, entity)
    BY <1>3, <1>9 DEF InsertOrder, CallTold
  <2>3. Told(p, entity)' /\ OutcomeFollowsDiagnosis'
    BY <2>1, <2>2 DEF Told, Announced, ToldDiagnosis, AnnouncedInv, OutcomeFollowsDiagnosis
  <2> QED
    BY <1>2, <2>1, <2>3, AnnouncedCommit DEF OutboxGrows
<1> QED
  BY <1>4, <1>5, <1>6, <1>7, <1>8, <1>9, AnnouncedWrite, StepShape

LEMMA AnnouncedNext == TypeInv /\ AnnouncedInv /\ [Next]_vars => AnnouncedInv'
<1> SUFFICES ASSUME TypeInv, AnnouncedInv, [Next]_vars PROVE AnnouncedInv'
  OBVIOUS
<1>1. ASSUME NEW c \in Calls, NEW op \in UseCases, NEW o \in Orders,
             NEW d \in Diagnoses \cup {NoDiagnosis}, Begin(c, op, o, d)
      PROVE  AnnouncedInv'
  <2> DEFINE call == [await |-> "findOrder", op |-> op, order |-> o, diagnosis |-> d,
                      entity |-> NoOrder, loaded |-> NoOrder]
  <2>1. Set(c, call) /\ rows' = rows /\ outbox' = outbox
    BY <1>1 DEF Begin, Set
  <2>2. CallTold(call)
    BY DEF CallTold
  <2> HIDE DEF call
  <2> QED
    BY <2>1, <2>2, AnnouncedCall
<1>2. CASE UNCHANGED vars
  BY <1>2 DEF vars, AnnouncedInv, Told, Announced, ToldDiagnosis, InFlight, CallTold,
     Writes, OutcomeFollowsDiagnosis
<1> QED
  BY <1>1, <1>2, AnnouncedStep DEF Next

LEMMA AlwaysAnnounced == Spec => [](TypeInv /\ AnnouncedInv)
BY TypeInvInit, TypeInvNext, AnnouncedInit, AnnouncedNext, PTL DEF Spec

(* The rows never say more than the outbox tells: no interleaving of calls *)
(* and no crash leaves a diagnosed or ended order, or a stored diagnosis,  *)
(* without its event.                                                      *)
THEOREM StagesAreAnnounced == Spec => []EveryStageIsAnnounced
<1>1. AnnouncedInv => EveryStageIsAnnounced
  BY DEF AnnouncedInv, Told, ToldDiagnosis, EveryStageIsAnnounced
<1> QED
  BY <1>1, AlwaysAnnounced, PTL

(* The outbox tells the diagnosis of an order before any outcome of it.    *)
THEOREM OutcomesFollowDiagnoses == Spec => []OutcomeFollowsDiagnosis
<1>1. AnnouncedInv => OutcomeFollowsDiagnosis
  BY DEF AnnouncedInv
<1> QED
  BY <1>1, AlwaysAnnounced, PTL

-----------------------------------------------------------------------------
(***************************************************************************)
(* Payment.  A stage past the payment stands in a row, or in an entity     *)
(* about to be written, only once EnqueueForExecution has committed for    *)
(* the order; that use case alone may hold one before its commit.          *)
(***************************************************************************)
PaidStages == {"IN_EXECUTION_QUEUE", "IN_EXECUTION", "FINISHED", "FAILED"}

PaidInv ==
    /\ \A o \in Orders : rows[o].status \in PaidStages => o \in paid
    /\ \A c \in Calls :
          /\ InFlight(c)
          /\ calls[c].op # "EnqueueForExecution"
          /\ calls[c].entity.status \in PaidStages
          => calls[c].order \in paid

LEMMA AppliedPaid ==
    ASSUME NEW call, call.op \in Changes \ {"EnqueueForExecution"}, NEW found \in Order,
           Accepts(found, call.op), NEW seq,
           Applied(call, found, seq).status \in PaidStages
    PROVE  found.status \in PaidStages
<1>1. CASE call.op = "RegisterDiagnosis"
  BY <1>1, AppliedCases DEF registerDiagnosis, PaidStages
<1>2. CASE call.op = "CancelExecution"
  <2>1. Applied(call, found, seq) = cancel(found)
    BY <1>2, AppliedCases
  <2>2. cancel(found).status = "CANCELLED"
    BY DEF cancel, Order
  <2> QED
    BY <2>1, <2>2 DEF PaidStages
<1>3. CASE call.op \in {"StartExecution", "FinishExecution", "FailExecution"}
  BY <1>3 DEF Accepts, AllowedFrom, PaidStages
<1> QED
  BY <1>1, <1>2, <1>3 DEF Changes

(* A step that leaves the rows and the history alone and sets one call. *)
LEMMA PaidCall ==
    ASSUME TypeInv, PaidInv, NEW c \in Calls, NEW call, Set(c, call),
           rows' = rows, paid' = paid,
           /\ call.await # "idle" /\ call.op # "EnqueueForExecution"
           /\ call.entity.status \in PaidStages
           => call.order \in paid
    PROVE  PaidInv'
<1>1. ASSUME NEW b \in Calls, InFlight(b)', calls'[b].op # "EnqueueForExecution",
             calls'[b].entity.status \in PaidStages
      PROVE  calls'[b].order \in paid
  <2>1. CASE b = c
    BY <1>1, <2>1, SetOne DEF InFlight
  <2>2. CASE b # c
    BY <1>1, <2>2, SetOne DEF InFlight, PaidInv
  <2> QED
    BY <2>1, <2>2
<1> QED
  BY <1>1 DEF PaidInv

LEMMA PaidCommit ==
    ASSUME TypeInv, PaidInv, NEW c \in Calls, NEW out, InFlight(c), Commits(c, out),
           NEW o \in Orders, o = calls[c].order, NEW row, rows' = [rows EXCEPT ![o] = row],
           row.status \in {rows[o].status, calls[c].entity.status}
    PROVE  PaidInv'
<1>1. /\ Set(c, Idle) /\ paid \subseteq paid'
      /\ calls[c].op = "EnqueueForExecution" => o \in paid'
  BY DEF Commits, Ends, Set
<1>2. ASSUME NEW p \in Orders, rows'[p].status \in PaidStages
      PROVE  p \in paid'
  <2>1. CASE p # o
    BY <1>1, <1>2, <2>1 DEF PaidInv, TypeInv, TypeOK
  <2>2. CASE p = o
    <3>1. rows'[p] = row
      BY <2>2 DEF TypeInv, TypeOK
    <3> QED
      BY <1>1, <1>2, <2>2, <3>1 DEF PaidInv
  <2> QED
    BY <2>1, <2>2
<1>3. ASSUME NEW b \in Calls, InFlight(b)', calls'[b].op # "EnqueueForExecution",
             calls'[b].entity.status \in PaidStages
      PROVE  calls'[b].order \in paid'
  <2>1. b # c
    BY <1>1, <1>3, SetOne DEF InFlight, Idle
  <2> QED
    BY <1>1, <1>3, <2>1, SetOne DEF InFlight, PaidInv
<1> QED
  BY <1>2, <1>3 DEF PaidInv

LEMMA PaidStep ==
    ASSUME TypeInv, PaidInv, NEW c \in Calls, NEW out, Step(c, out)
    PROVE  PaidInv'
<1> SUFFICES ASSUME NEW o, o = calls[c].order
             PROVE  PaidInv'
  OBVIOUS
<1>1. InFlight(c) /\ CallOK(calls[c])
  BY StepShape
<1>2. o \in Orders /\ rows[o] \in Order /\ calls[c].entity \in Order
  BY <1>1 DEF CallOK, Call, TypeInv, TypeOK
<1>3. CASE Quits(c) /\ rows' = rows /\ paid' = paid
  BY <1>3, PaidCall DEF Quits, Idle
<1>4. CASE Keeps(c) /\ rows' = rows /\ paid' = paid
  <2>1. PICK await \in {"nextSeq", "findQueue"} :
            Set(c, [calls[c] EXCEPT !.await = await, !.entity = rows[o]])
    BY <1>4 DEF Keeps
  <2> DEFINE call == [calls[c] EXCEPT !.await = await, !.entity = rows[o]]
  <2>2. call.order = o /\ call.entity = rows[o]
    BY <1>1 DEF CallOK, Call
  <2> HIDE DEF call
  <2> QED
    BY <1>2, <1>4, <2>1, <2>2, PaidCall DEF call, PaidInv
<1>5. CASE Loads(c) /\ rows' = rows /\ paid' = paid
  <2> DEFINE call == [calls[c] EXCEPT !.await = "write", !.loaded = rows[o]]
  <2>1. call.order = o /\ call.entity = calls[c].entity /\ call.op = calls[c].op
    BY <1>1 DEF CallOK, Call
  <2>2. Set(c, call)
    BY <1>5 DEF Loads
  <2> HIDE DEF call
  <2> QED
    BY <1>1, <1>5, <2>1, <2>2, PaidCall DEF PaidInv
<1>6. ASSUME NEW seq, Decides(c, seq), rows' = rows, paid' = paid
      PROVE  PaidInv'
  <2> DEFINE call == [calls[c] EXCEPT !.await = "load",
                                      !.entity = Applied(calls[c], Found(c), seq)]
  <2>1. /\ call.order = o /\ call.op = calls[c].op
        /\ call.entity = Applied(calls[c], Found(c), seq)
    BY <1>1 DEF CallOK, Call
  <2>2. Set(c, call) /\ calls[c].op \in Changes /\ Accepts(Found(c), calls[c].op)
    BY <1>6 DEF Decides
  <2>3. /\ Found(c) \in Order
        /\ /\ calls[c].op # "EnqueueForExecution" /\ Found(c).status \in PaidStages
           => o \in paid
    BY <1>1, <1>2 DEF Found, PaidInv
  <2> HIDE DEF call
  <2> QED
    BY <1>6, <2>1, <2>2, <2>3, AppliedPaid, PaidCall
<1>7. CASE Creates(c, queueSeq') /\ rows' = rows /\ paid' = paid
  <2> DEFINE call == [calls[c] EXCEPT !.await = "insert", !.entity = receive(queueSeq')]
  <2>1. call.entity.status = "IN_DIAGNOSIS_QUEUE"
    BY <1>1 DEF CallOK, Call, receive
  <2>2. Set(c, call)
    BY <1>7 DEF Creates
  <2> HIDE DEF call
  <2> QED
    BY <1>7, <2>1, <2>2, PaidCall DEF PaidStages
<1>8. CASE InsertOrder(c, out)
  <2> SUFFICES ASSUME NEW row, row = calls[c].entity
               PROVE  PaidInv'
    OBVIOUS
  <2> QED
    BY <1>1, <1>2, <1>8, PaidCommit DEF InsertOrder
<1>9. CASE WriteRow(c, out)
  <2> SUFFICES ASSUME NEW row, row = Updated(rows[o], calls[c].entity, calls[c].loaded)
               PROVE  PaidInv'
    OBVIOUS
  <2>1. row.status \in {rows[o].status, calls[c].entity.status}
    BY DEF Updated, Differing
  <2> QED
    BY <1>1, <1>2, <1>9, <2>1, PaidCommit DEF WriteRow
<1> QED
  BY <1>3, <1>4, <1>5, <1>6, <1>7, <1>8, <1>9, StepShape

LEMMA PaidNext == TypeInv /\ PaidInv /\ [Next]_vars => PaidInv'
<1> SUFFICES ASSUME TypeInv, PaidInv, [Next]_vars PROVE PaidInv'
  OBVIOUS
<1>1. ASSUME NEW c \in Calls, NEW op \in UseCases, NEW o \in Orders,
             NEW d \in Diagnoses \cup {NoDiagnosis}, Begin(c, op, o, d)
      PROVE  PaidInv'
  <2> DEFINE call == [await |-> "findOrder", op |-> op, order |-> o, diagnosis |-> d,
                      entity |-> NoOrder, loaded |-> NoOrder]
  <2>1. Set(c, call) /\ rows' = rows /\ paid' = paid
    BY <1>1 DEF Begin, Set
  <2>2. call.entity.status \notin PaidStages
    BY DEF NoOrder, Absent, PaidStages
  <2> HIDE DEF call
  <2> QED
    BY <2>1, <2>2, PaidCall
<1>2. CASE UNCHANGED vars
  BY <1>2 DEF vars, PaidInv, InFlight
<1> QED
  BY <1>1, <1>2, PaidStep DEF Next

(* No repair runs or has ended for an order whose payment was not approved *)
(* first, however late the writes of other calls come.                     *)
THEOREM RepairsArePaid == Spec => []RepairOnlyAfterPayment
<1>1. Init => PaidInv
  BY DEF Init, PaidInv, InFlight, Idle, NoOrder, Absent, PaidStages
<1>2. Spec => [](TypeInv /\ PaidInv)
  BY <1>1, TypeInvInit, TypeInvNext, PaidNext, PTL DEF Spec
<1>3. PaidInv => RepairOnlyAfterPayment
  BY DEF PaidInv, PaidStages, RepairOnlyAfterPayment
<1> QED
  BY <1>2, <1>3, PTL

-----------------------------------------------------------------------------
(***************************************************************************)
(* Received once.  A use case that changes an order found its row, has put *)
(* the order into a later stage, and, while the row is still in the        *)
(* diagnosis queue, has loaded that: its update then changes the status.   *)
(***************************************************************************)
Received == {Absent, "IN_DIAGNOSIS_QUEUE"}

CallReceived(call) ==
    /\ call.await \in {"nextSeq", "findQueue", "load", "write"}
    /\ call.op # "EnqueueForDiagnosis"
    => /\ rows[call.order].status # Absent
       /\ call.await \in {"load", "write"} => call.entity.status \notin Received
       /\ /\ call.await = "write"
          /\ rows[call.order].status = "IN_DIAGNOSIS_QUEUE"
          => call.loaded.status = "IN_DIAGNOSIS_QUEUE"

ReceivedInv == \A c \in Calls : CallReceived(calls[c])

LEMMA AppliedReceived ==
    ASSUME NEW call, call.op \in Changes, NEW found \in Order, NEW seq
    PROVE  Applied(call, found, seq).status \notin Received
<1>1. registerDiagnosis(found, call.diagnosis).status \notin Received
  BY DEF registerDiagnosis, Received, Absent
<1>2. enqueueForExecution(found, seq).status \notin Received
  BY DEF enqueueForExecution, Order, Received, Absent
<1>3. cancel(found).status \notin Received
  BY DEF cancel, Order, Received, Absent
<1>4. start(found).status \notin Received
  BY DEF start, Order, Received, Absent
<1>5. finish(found).status \notin Received
  BY DEF finish, Order, Received, Absent
<1>6. fail(found).status \notin Received
  BY DEF fail, Order, Received, Absent
<1> QED
  BY <1>1, <1>2, <1>3, <1>4, <1>5, <1>6, AppliedCases DEF Changes

(* A step that leaves the rows alone and sets one call. *)
LEMMA ReceivedCall ==
    ASSUME TypeInv, ReceivedInv, NEW c \in Calls, NEW call, Set(c, call),
           rows' = rows, CallReceived(call)
    PROVE  ReceivedInv'
<1>1. ASSUME NEW b \in Calls  PROVE CallReceived(calls'[b])
  BY SetOne DEF ReceivedInv
<1> QED
  BY <1>1 DEF ReceivedInv, CallReceived

(* What a step may do to a row, once it is there. *)
RowGoesOn(o) ==
    rows[o].status # Absent =>
        /\ rows'[o].status # Absent
        /\ rows'[o].status = "IN_DIAGNOSIS_QUEUE" => rows'[o] = rows[o]

(* The end of a call that may have changed rows. *)
LEMMA ReceivedEnds ==
    ASSUME TypeInv, ReceivedInv, NEW c \in Calls, Set(c, Idle),
           \A o \in Orders : RowGoesOn(o)
    PROVE  ReceivedInv'
<1> SUFFICES ASSUME NEW b \in Calls  PROVE CallReceived(calls[b])'
  BY DEF ReceivedInv
<1>1. CASE b = c
  BY <1>1, SetOne DEF CallReceived, Idle
<1>2. CASE b # c
  <2>1. calls'[b] = calls[b] /\ CallReceived(calls[b])
    BY <1>2, SetOne DEF ReceivedInv
  <2>2. calls[b] = Idle \/ calls[b].order \in Orders
    BY TypeInvCalls DEF CallOK, Call
  <2>3. CASE calls[b] = Idle
    BY <2>1, <2>3 DEF CallReceived, Idle
  <2>4. CASE calls[b].order \in Orders
    BY <2>1, <2>4 DEF CallReceived, RowGoesOn
  <2> QED
    BY <2>2, <2>3, <2>4
<1> QED
  BY <1>1, <1>2

LEMMA ReceivedStep ==
    ASSUME TypeInv, ReceivedInv, NEW c \in Calls, NEW out, Step(c, out)
    PROVE  ReceivedInv' /\ \A o \in Orders : RowGoesOn(o)
<1> SUFFICES ASSUME NEW o, o = calls[c].order
             PROVE  ReceivedInv' /\ \A p \in Orders : RowGoesOn(p)
  OBVIOUS
<1>1. InFlight(c) /\ CallOK(calls[c]) /\ CallReceived(calls[c])
  BY StepShape DEF ReceivedInv
<1>2. o \in Orders /\ rows[o] \in Order /\ calls[c].entity \in Order
  BY <1>1 DEF CallOK, Call, TypeInv, TypeOK
<1>3. ASSUME rows' = rows  PROVE \A p \in Orders : RowGoesOn(p)
  BY <1>3 DEF RowGoesOn
<1>4. CASE Quits(c) /\ rows' = rows
  BY <1>3, <1>4, ReceivedEnds DEF Quits
<1>5. CASE Keeps(c) /\ rows' = rows
  <2>1. PICK await \in {"nextSeq", "findQueue"} :
            Set(c, [calls[c] EXCEPT !.await = await, !.entity = rows[o]])
    BY <1>5 DEF Keeps
  <2> DEFINE call == [calls[c] EXCEPT !.await = await, !.entity = rows[o]]
  <2>2. call.order = o /\ call.op = calls[c].op /\ call.await = await
    BY <1>1 DEF CallOK, Call
  <2>3. CallReceived(call)
    BY <1>5, <2>2 DEF CallReceived, Keeps
  <2> QED
    BY <1>3, <1>5, <2>1, <2>3, ReceivedCall
<1>6. CASE Loads(c) /\ rows' = rows
  <2> DEFINE call == [calls[c] EXCEPT !.await = "write", !.loaded = rows[o]]
  <2>1. /\ call.order = o /\ call.entity = calls[c].entity /\ call.op = calls[c].op
        /\ call.await = "write" /\ call.loaded = rows[o] /\ calls[c].await = "load"
    BY <1>1, <1>6 DEF CallOK, Call, Loads
  <2>2. Set(c, call)
    BY <1>6 DEF Loads
  <2> HIDE DEF call
  <2>3. CallReceived(call)
    BY <1>1, <2>1 DEF CallReceived
  <2> QED
    BY <1>3, <1>6, <2>2, <2>3, ReceivedCall
<1>7. ASSUME NEW seq, Decides(c, seq), rows' = rows
      PROVE  ReceivedInv' /\ \A p \in Orders : RowGoesOn(p)
  <2> DEFINE call == [calls[c] EXCEPT !.await = "load",
                                      !.entity = Applied(calls[c], Found(c), seq)]
  <2>1. /\ call.order = o /\ call.op = calls[c].op /\ call.await = "load"
        /\ call.entity = Applied(calls[c], Found(c), seq)
    BY <1>1 DEF CallOK, Call
  <2>2. Set(c, call) /\ calls[c].op \in Changes /\ Accepts(Found(c), calls[c].op)
    BY <1>7 DEF Decides
  <2>3. Found(c) \in Order /\ call.entity.status \notin Received
    BY <1>2, <2>1, <2>2, AppliedReceived DEF Found
  <2>4. rows[o].status # Absent
    <3>1. CASE calls[c].await = "findOrder"
      BY <2>2, <3>1 DEF Found, Accepts, AllowedFrom, Absent, Changes
    <3>2. CASE calls[c].await # "findOrder"
      BY <1>1, <1>7, <2>2, <3>2 DEF Decides, CallReceived, Changes
    <3> QED
      BY <3>1, <3>2
  <2> HIDE DEF call
  <2>5. CallReceived(call)
    BY <2>1, <2>3, <2>4 DEF CallReceived
  <2> QED
    BY <1>3, <1>7, <2>2, <2>5, ReceivedCall
<1>8. CASE Creates(c, queueSeq') /\ rows' = rows
  <2> DEFINE call == [calls[c] EXCEPT !.await = "insert", !.entity = receive(queueSeq')]
  <2>1. call.await = "insert"
    BY <1>1 DEF CallOK, Call
  <2>2. Set(c, call)
    BY <1>8 DEF Creates
  <2> HIDE DEF call
  <2> QED
    BY <1>3, <1>8, <2>1, <2>2, ReceivedCall DEF CallReceived
<1>9. CASE InsertOrder(c, out)
  <2>1. /\ Set(c, Idle) /\ rows[o].status = Absent
        /\ rows' = [rows EXCEPT ![o] = calls[c].entity]
    BY <1>9 DEF InsertOrder, Commits, Ends, Set
  <2>2. \A p \in Orders : RowGoesOn(p)
    BY <2>1 DEF RowGoesOn, TypeInv, TypeOK
  <2> QED
    BY <2>1, <2>2, ReceivedEnds
<1>10. CASE WriteRow(c, out)
  <2> DEFINE row == Updated(rows[o], calls[c].entity, calls[c].loaded)
  <2>1. Set(c, Idle) /\ rows' = [rows EXCEPT ![o] = row] /\ calls[c].await = "write"
    BY <1>10 DEF WriteRow, Commits, Ends, Set
  <2>2. /\ rows[o].status # Absent
        /\ calls[c].entity.status \notin Received
        /\ rows[o].status = "IN_DIAGNOSIS_QUEUE" =>
               calls[c].loaded.status = "IN_DIAGNOSIS_QUEUE"
    BY <1>1, <2>1 DEF CallReceived, CallOK, Changes
  <2>3. row.status \notin Received
    BY <2>2 DEF Updated, Differing, Received
  <2> HIDE DEF row
  <2>4. \A p \in Orders : RowGoesOn(p)
    BY <2>1, <2>3 DEF RowGoesOn, Received, TypeInv, TypeOK
  <2> QED
    BY <2>1, <2>4, ReceivedEnds
<1> QED
  BY <1>4, <1>5, <1>6, <1>7, <1>8, <1>9, <1>10, StepShape

LEMMA ReceivedNext ==
    TypeInv /\ ReceivedInv /\ [Next]_vars => ReceivedInv' /\ \A o \in Orders : RowGoesOn(o)
<1> SUFFICES ASSUME TypeInv, ReceivedInv, [Next]_vars
             PROVE  ReceivedInv' /\ \A o \in Orders : RowGoesOn(o)
  OBVIOUS
<1>1. ASSUME NEW c \in Calls, NEW op \in UseCases, NEW o \in Orders,
             NEW d \in Diagnoses \cup {NoDiagnosis}, Begin(c, op, o, d)
      PROVE  ReceivedInv' /\ \A p \in Orders : RowGoesOn(p)
  <2> DEFINE call == [await |-> "findOrder", op |-> op, order |-> o, diagnosis |-> d,
                      entity |-> NoOrder, loaded |-> NoOrder]
  <2>1. Set(c, call) /\ rows' = rows
    BY <1>1 DEF Begin, Set
  <2>2. call.await = "findOrder"
    OBVIOUS
  <2> HIDE DEF call
  <2> QED
    BY <2>1, <2>2, ReceivedCall DEF CallReceived, RowGoesOn
<1>2. CASE UNCHANGED vars
  BY <1>2 DEF vars, ReceivedInv, CallReceived, RowGoesOn
<1> QED
  BY <1>1, <1>2, ReceivedStep DEF Next

(* However many copies of order.received race and whatever saves come      *)
(* late, an order that has a row never enters the diagnosis queue again,   *)
(* and one that waits there is not touched until it leaves.                *)
THEOREM ReceivedOnce == Spec => OrdersAreReceivedOnce
<1>1. Init => ReceivedInv
  BY DEF Init, ReceivedInv, CallReceived, Idle
<1>2. TypeInv /\ ReceivedInv /\ [Next]_vars =>
          [\A o \in Orders : /\ rows[o].status # Absent
                             /\ rows'[o].status = "IN_DIAGNOSIS_QUEUE"
                             => rows'[o] = rows[o]]_vars
  BY ReceivedNext DEF RowGoesOn
<1> QED
  BY <1>1, <1>2, TypeInvInit, TypeInvNext, ReceivedNext, PTL DEF Spec, OrdersAreReceivedOnce
=============================================================================
