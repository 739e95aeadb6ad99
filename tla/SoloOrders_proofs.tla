-------------------------- MODULE SoloOrders_proofs --------------------------
(***************************************************************************)
(* Proofs about the orders no two calls ever served together, while other  *)
(* orders are overlapped at will.                                          *)
(*                                                                         *)
(* Why such orders are safe although nothing locks a row: while a call     *)
(* serves one, no other call writes its row, so what the call found is     *)
(* still there when it decides, loads and writes.  CurrentInv says that,   *)
(* statement by statement, and every theorem below rests on it.            *)
(***************************************************************************)
EXTENDS ExecutionUseCases_proofs

(* Two calls in flight on an order have overlapped on it. *)
Alone ==
    \A b, c \in Calls :
        b # c /\ InFlight(b) /\ InFlight(c) /\ calls[b].order = calls[c].order =>
            calls[c].order \in overlapped

(* What a call holds agrees with the row its order has now. *)
CurrentAt(call, row) ==
    /\ call.await \in {"nextSeq", "findQueue"} => call.entity = row
    /\ call.await = "insert" => \E seq \in Nat \ {NoSeq} : call.entity = receive(seq)
    /\ call.await \in {"load", "write"} =>
          /\ Accepts(row, call.op)
          /\ \E seq \in Nat : /\ call.op = "EnqueueForExecution" => seq # NoSeq
                             /\ call.entity = Applied(call, row, seq)
    /\ call.await = "write" => call.loaded = row

CurrentInv ==
    /\ Alone
    /\ \A c \in Calls : InFlight(c) /\ calls[c].order \notin overlapped =>
           CurrentAt(calls[c], rows[calls[c].order])

-----------------------------------------------------------------------------
(* The call a step leaves behind serves the same order, for the same use   *)
(* case, and the others are left alone.                                    *)
SameCall(c) ==
    /\ calls'[c].op = calls[c].op
    /\ calls'[c].order = calls[c].order
    /\ calls'[c].diagnosis = calls[c].diagnosis

LEMMA SetFields ==
    ASSUME TypeInv, NEW c \in Calls, CallOK(calls[c]), NEW await, NEW entity,
           Set(c, [calls[c] EXCEPT !.await = await, !.entity = entity])
    PROVE  /\ calls'[c].await = await /\ calls'[c].entity = entity
           /\ SameCall(c)
           /\ \A b \in Calls \ {c} : calls'[b] = calls[b]
<1> DEFINE call == [calls[c] EXCEPT !.await = await, !.entity = entity]
<1>1. /\ call.await = await /\ call.entity = entity
      /\ call.op = calls[c].op
      /\ call.order = calls[c].order /\ call.diagnosis = calls[c].diagnosis
  BY DEF CallOK, Call
<1>2. Set(c, call)
  OBVIOUS
<1> HIDE DEF call
<1>3. calls'[c] = call /\ \A b \in Calls \ {c} : calls'[b] = calls[b]
  BY <1>2, SetOne
<1> QED
  BY <1>1, <1>3 DEF SameCall

LEMMA LoadsFields ==
    ASSUME TypeInv, NEW c \in Calls, CallOK(calls[c]), Loads(c)
    PROVE  /\ calls[c].await = "load" /\ calls'[c].await = "write"
           /\ calls'[c].entity = calls[c].entity
           /\ calls'[c].loaded = rows[calls[c].order]
           /\ SameCall(c)
           /\ \A b \in Calls \ {c} : calls'[b] = calls[b]
<1> DEFINE call == [calls[c] EXCEPT !.await = "write", !.loaded = rows[calls[c].order]]
<1>1. /\ call.await = "write" /\ call.entity = calls[c].entity
      /\ call.loaded = rows[calls[c].order] /\ call.op = calls[c].op
      /\ call.order = calls[c].order /\ call.diagnosis = calls[c].diagnosis
  BY DEF CallOK, Call
<1>2. Set(c, call)
  BY DEF Loads
<1> HIDE DEF call
<1>3. calls'[c] = call /\ \A b \in Calls \ {c} : calls'[b] = calls[b]
  BY <1>2, SetOne
<1> QED
  BY <1>1, <1>3 DEF SameCall, Loads

LEMMA IdleFields ==
    ASSUME TypeInv, NEW c \in Calls, Set(c, Idle)
    PROVE  calls'[c] = Idle /\ \A b \in Calls \ {c} : calls'[b] = calls[b]
BY SetOne

(* A step sets one call, keeps the order it serves, and touches no row but *)
(* that order's, which it changes only when it ends.                       *)
LEMMA StepFrame ==
    ASSUME TypeInv, NEW c \in Calls, NEW out, Step(c, out)
    PROVE  /\ overlapped' = overlapped
           /\ \A b \in Calls \ {c} : calls'[b] = calls[b]
           /\ calls'[c] # Idle => SameCall(c) /\ rows' = rows
           /\ \A o \in Orders \ {calls[c].order} : rows'[o] = rows[o]
<1>1. InFlight(c) /\ CallOK(calls[c])
  BY StepShape
<1>2. CASE Keeps(c) /\ UNCHANGED <<rows, overlapped>>
  BY <1>1, <1>2, SetFields DEF Keeps
<1>3. ASSUME NEW seq, Decides(c, seq), UNCHANGED <<rows, overlapped>>
      PROVE  SameCall(c) /\ \A b \in Calls \ {c} : calls'[b] = calls[b]
  BY <1>1, <1>3, SetFields DEF Decides
<1>4. ASSUME NEW seq, Creates(c, seq), UNCHANGED <<rows, overlapped>>
      PROVE  SameCall(c) /\ \A b \in Calls \ {c} : calls'[b] = calls[b]
  BY <1>1, <1>4, SetFields DEF Creates
<1>5. CASE Loads(c) /\ UNCHANGED <<rows, overlapped>>
  BY <1>1, <1>5, LoadsFields
<1>6. CASE Quits(c) /\ UNCHANGED <<rows, overlapped>>
  BY <1>6, IdleFields DEF Quits
<1>7. CASE InsertOrder(c, out) \/ WriteRow(c, out)
  <2>1. Set(c, Idle) /\ overlapped' = overlapped
    BY <1>7 DEF InsertOrder, WriteRow, Commits, Ends, Set
  <2>2. \A o \in Orders \ {calls[c].order} : rows'[o] = rows[o]
    BY <1>7 DEF InsertOrder, WriteRow, TypeInv, TypeOK
  <2> QED
    BY <2>1, <2>2, IdleFields
<1> QED
  BY <1>2, <1>3, <1>4, <1>5, <1>6, <1>7, StepShape

LEMMA AloneNext == TypeInv /\ Alone /\ [Next]_vars => Alone'
<1> SUFFICES ASSUME TypeInv, Alone, [Next]_vars PROVE Alone'
  OBVIOUS
<1>1. ASSUME NEW c \in Calls, NEW op \in UseCases, NEW o \in Orders,
             NEW d \in Diagnoses \cup {NoDiagnosis}, Begin(c, op, o, d)
      PROVE  Alone'
  <2> DEFINE call == [await |-> "findOrder", op |-> op, order |-> o, diagnosis |-> d,
                      entity |-> NoOrder, loaded |-> NoOrder]
  <2>1. /\ calls'[c] = call
        /\ \A b \in Calls \ {c} : calls'[b] = calls[b]
    BY <1>1, SetOne DEF Begin, Set
  <2>2. call.order = o
    OBVIOUS
  <2>3. \A b \in Calls \ {c} : InFlight(b) /\ calls[b].order = o => o \in overlapped'
    BY <1>1 DEF Begin
  <2>4. \A p \in overlapped : p \in overlapped'
    BY <1>1 DEF Begin
  <2> HIDE DEF call
  <2> QED
    BY <2>1, <2>2, <2>3, <2>4 DEF Alone, InFlight
<1>2. ASSUME NEW c \in Calls, NEW out \in Outcomes, Step(c, out)
      PROVE  Alone'
  <2>1. InFlight(c)
    BY <1>2, StepShape
  <2> QED
    BY <1>2, <2>1, StepFrame DEF Alone, InFlight, Idle, SameCall
<1>3. CASE UNCHANGED vars
  BY <1>3 DEF vars, Alone, InFlight
<1> QED
  BY <1>1, <1>2, <1>3 DEF Next

(* What a step must show of the call it sets. *)
LEMMA CurrentStep ==
    ASSUME TypeInv, CurrentInv, Alone', NEW c \in Calls, NEW out, Step(c, out),
           /\ calls'[c] # Idle
           /\ calls[c].order \notin overlapped
           /\ CurrentAt(calls[c], rows[calls[c].order])
           => CurrentAt(calls'[c], rows[calls[c].order])
    PROVE  CurrentInv'
<1>1. InFlight(c) /\ calls[c].order \in Orders
  BY StepShape DEF CallOK, Call
<1> SUFFICES ASSUME NEW b \in Calls, InFlight(b)', calls'[b].order \notin overlapped
             PROVE  CurrentAt(calls'[b], rows'[calls'[b].order])
  BY StepFrame DEF CurrentInv, CurrentAt, SameCall
<1>2. CASE b = c
  BY <1>1, <1>2, StepFrame DEF CurrentInv, InFlight, Idle, SameCall
<1>3. CASE b # c
  <2>1. calls'[b] = calls[b] /\ InFlight(b)
    BY <1>3, StepFrame DEF InFlight
  <2>2. calls[b].order \in Orders \ {calls[c].order}
    BY <1>1, <1>3, <2>1, TypeInvCalls DEF CurrentInv, Alone, CallOK, Call
  <2> QED
    BY <2>1, <2>2, StepFrame DEF CurrentInv
<1> QED
  BY <1>2, <1>3

(* The methods look at nothing of a call but its use case and payload. *)
LEMMA AppliedSame ==
    ASSUME NEW call, NEW other, call.op \in Changes, other.op = call.op,
           other.diagnosis = call.diagnosis, NEW order, NEW seq
    PROVE  Applied(other, order, seq) = Applied(call, order, seq)
BY AppliedCases DEF Changes

LEMMA CurrentNext == TypeInv /\ CurrentInv /\ [Next]_vars => CurrentInv'
<1> SUFFICES ASSUME TypeInv, CurrentInv, [Next]_vars PROVE CurrentInv'
  OBVIOUS
<1> USE AloneNext DEF CurrentInv
<1>1. ASSUME NEW c \in Calls, NEW op \in UseCases, NEW o \in Orders,
             NEW d \in Diagnoses \cup {NoDiagnosis}, Begin(c, op, o, d)
      PROVE  CurrentInv'
  <2>1. /\ calls'[c].await = "findOrder"
        /\ \A b \in Calls \ {c} : calls'[b] = calls[b]
        /\ rows' = rows
    <3> DEFINE begun == [await |-> "findOrder", op |-> op, order |-> o, diagnosis |-> d,
                         entity |-> NoOrder, loaded |-> NoOrder]
    <3>1. Set(c, begun) /\ begun.await = "findOrder" /\ rows' = rows
      BY <1>1 DEF Begin, Set
    <3> HIDE DEF begun
    <3> QED
      BY <3>1, SetOne
  <2>2. \A p \in overlapped : p \in overlapped'
    BY <1>1 DEF Begin
  <2>3. ASSUME NEW b \in Calls, InFlight(b)', calls'[b].order \notin overlapped'
        PROVE  CurrentAt(calls'[b], rows'[calls'[b].order])
    <3>1. CASE b = c
      BY <2>1, <3>1 DEF CurrentAt
    <3>2. CASE b # c
      BY <2>1, <2>2, <2>3, <3>2 DEF InFlight
    <3> QED
      BY <3>1, <3>2
  <2> QED
    BY <2>3 DEF CurrentAt
<1>2. ASSUME NEW c \in Calls, NEW out \in Outcomes, Step(c, out)
      PROVE  CurrentInv'
  <2> DEFINE row == rows[calls[c].order]
             call == calls'[c]
  <2>1. InFlight(c) /\ CallOK(calls[c]) /\ queueSeq \in Nat
    BY <1>2, StepShape DEF TypeInv, TypeOK
  <2> SUFFICES ASSUME call # Idle, CurrentAt(calls[c], row)
               PROVE  CurrentAt(call, row)
    BY <1>2, CurrentStep
  <2>2. CASE Keeps(c)
    <3>1. PICK await \in {"nextSeq", "findQueue"} :
             Set(c, [calls[c] EXCEPT !.await = await, !.entity = row])
      BY <2>2 DEF Keeps
    <3> HIDE DEF row
    <3>2. call.await = await /\ call.entity = row
      BY <2>1, <3>1, SetFields
    <3> QED
      BY <3>2 DEF CurrentAt
  <2>3. CASE Creates(c, queueSeq') /\ queueSeq' = queueSeq + 1
    <3>1. call.await = "insert" /\ call.entity = receive(queueSeq')
      BY <2>1, <2>3, SetFields DEF Creates
    <3>2. queueSeq' \in Nat \ {NoSeq}
      BY <2>1, <2>3 DEF NoSeq
    <3> QED
      BY <3>1, <3>2 DEF CurrentAt
  <2>4. ASSUME NEW seq \in Nat, Decides(c, seq)
        PROVE  CurrentAt(call, row)
    <3>1. Found(c) = row
      BY <2>4 DEF Decides, Found, CurrentAt
    <3>2. /\ call.await = "load" /\ call.entity = Applied(calls[c], row, seq)
          /\ call.op = calls[c].op /\ call.diagnosis = calls[c].diagnosis
      <4>1. Set(c, [calls[c] EXCEPT !.await = "load",
                                    !.entity = Applied(calls[c], row, seq)])
        BY <2>4, <3>1 DEF Decides
      <4> HIDE DEF row
      <4> QED
        BY <2>1, <4>1, SetFields DEF SameCall
    <3>3. /\ calls[c].op \in Changes /\ Accepts(row, calls[c].op)
          /\ calls[c].op = "EnqueueForExecution" => seq # NoSeq
      BY <2>4, <3>1 DEF Decides
    <3>4. call.entity = Applied(call, row, seq)
      BY <3>2, <3>3, AppliedSame
    <3> QED
      BY <3>2, <3>3, <3>4 DEF CurrentAt
  <2>5. CASE Loads(c)
    <3>1. /\ calls[c].await = "load" /\ call.await = "write" /\ call.loaded = row
          /\ call.entity = calls[c].entity
          /\ call.op = calls[c].op /\ call.diagnosis = calls[c].diagnosis
      BY <2>1, <2>5, LoadsFields DEF SameCall
    <3>2. PICK seq \in Nat : /\ calls[c].op = "EnqueueForExecution" => seq # NoSeq
                            /\ calls[c].entity = Applied(calls[c], row, seq)
      BY <3>1 DEF CurrentAt
    <3>3. calls[c].op \in Changes /\ Accepts(row, call.op)
      BY <2>1, <3>1 DEF CallOK, CurrentAt
    <3>4. call.entity = Applied(call, row, seq)
      BY <3>1, <3>2, <3>3, AppliedSame
    <3> QED
      BY <3>1, <3>2, <3>3, <3>4 DEF CurrentAt
  <2>6. CASE Quits(c) \/ InsertOrder(c, out) \/ WriteRow(c, out)
    BY <2>6, IdleFields DEF Quits, InsertOrder, WriteRow, Commits, Ends, Set
  <2> QED
    BY <1>2, <2>1, <2>2, <2>3, <2>4, <2>5, <2>6, StepShape DEF NoSeq
<1>3. CASE UNCHANGED vars
  BY <1>3 DEF vars, InFlight, CurrentAt
<1> QED
  BY <1>1, <1>2, <1>3 DEF Next

LEMMA CurrentInit == Init => CurrentInv
BY DEF Init, CurrentInv, Alone, InFlight, Idle

-----------------------------------------------------------------------------
(***************************************************************************)
(* What the commits of such an order do to its row.                        *)
(***************************************************************************)

(* An update that was diffed against the row it finds writes the entity.   *)
LEMMA UpdatedCurrent ==
    ASSUME NEW row \in Order, NEW entity \in Order
    PROVE  Updated(row, entity, row) = entity
<1>1. /\ Updated(row, entity, row).status = entity.status
      /\ Updated(row, entity, row).diagnosis = entity.diagnosis
      /\ Updated(row, entity, row).queueSeq = entity.queueSeq
  BY DEF Updated, Differing
<1>2. Updated(row, entity, row) \in Order
  BY DEF Updated, Differing, Order
<1> QED
  BY <1>1, <1>2 DEF Order

SoloWrites(c) ==
    LET row == rows[calls[c].order] IN
    /\ calls[c].op \in Changes
    /\ Accepts(row, calls[c].op)
    /\ \E seq \in Nat : /\ calls[c].op = "EnqueueForExecution" => seq # NoSeq
                       /\ rows'[calls[c].order] = Applied(calls[c], row, seq)
    /\ rows'[calls[c].order] = calls[c].entity

LEMMA SoloWrite ==
    ASSUME TypeInv, CurrentInv, NEW c \in Calls, NEW out, WriteRow(c, out),
           InFlight(c), calls[c].order \notin overlapped
    PROVE  SoloWrites(c)
<1> DEFINE o == calls[c].order
<1>1. CallOK(calls[c]) /\ CurrentAt(calls[c], rows[o]) /\ calls[c].await = "write"
  BY TypeInvCalls DEF CurrentInv, WriteRow
<1>2. o \in Orders /\ rows[o] \in Order /\ calls[c].entity \in Order
  BY <1>1 DEF CallOK, Call, TypeInv, TypeOK
<1>3. rows'[o] = Updated(rows[o], calls[c].entity, rows[o])
  BY <1>1, <1>2 DEF WriteRow, CurrentAt, TypeInv, TypeOK
<1>4. rows'[o] = calls[c].entity
  BY <1>2, <1>3, UpdatedCurrent
<1> QED
  BY <1>1, <1>4 DEF SoloWrites, CurrentAt, CallOK

LEMMA SoloInsert ==
    ASSUME TypeInv, CurrentInv, NEW c \in Calls, NEW out, InsertOrder(c, out),
           InFlight(c), calls[c].order \notin overlapped
    PROVE  /\ rows[calls[c].order].status = Absent
           /\ \E seq \in Nat \ {NoSeq} : rows'[calls[c].order] = receive(seq)
BY TypeInvCalls DEF CurrentInv, CurrentAt, InsertOrder, TypeInv, TypeOK, CallOK, Call

(* Every change of such a row is the one or the other. *)
LEMMA SoloChange ==
    ASSUME TypeInv, CurrentInv, Next, NEW o \in Orders \ overlapped',
           rows'[o] # rows[o]
    PROVE  \E c \in Calls, out \in Outcomes :
              /\ calls[c].order = o /\ InFlight(c) /\ o \notin overlapped
              /\ \/ WriteRow(c, out) /\ SoloWrites(c)
                 \/ /\ InsertOrder(c, out) /\ rows[o].status = Absent
                    /\ \E seq \in Nat \ {NoSeq} : rows'[o] = receive(seq)
<1>1. PICK c \in Calls, out \in Outcomes : Step(c, out)
  BY DEF Next, Begin
<1>2. calls[c].order = o /\ o \notin overlapped /\ InFlight(c)
  BY <1>1, StepFrame, StepShape
<1>3. WriteRow(c, out) \/ InsertOrder(c, out)
  BY <1>1, StepShape
<1> QED
  BY <1>2, <1>3, SoloWrite, SoloInsert

(* The columns of a row agree with its status. *)
Whole(row) ==
    /\ row.queueSeq # NoSeq <=> row.status \in Queues
    /\ row.status \in Diagnosed => row.diagnosis # NoDiagnosis
    /\ row.status \in {Absent, "IN_DIAGNOSIS_QUEUE"} => row.diagnosis = NoDiagnosis

(* Each method takes one edge of the lifecycle and keeps a row whole. *)
LEMMA AppliedEdge ==
    ASSUME NEW call, CallOK(call), call.op \in Changes, NEW row \in Order,
           Accepts(row, call.op),
           NEW seq \in Nat, call.op = "EnqueueForExecution" => seq # NoSeq
    PROVE  LET next == Applied(call, row, seq)
           IN  /\ <<row.status, next.status>> \in LifecycleEdges
               /\ Whole(row) => Whole(next)
<1> USE DEF Accepts, AllowedFrom, LifecycleEdges, Whole, Queues, Diagnosed, Absent, Order
<1>1. CASE call.op = "RegisterDiagnosis"
  <2>1. Applied(call, row, seq) = registerDiagnosis(row, call.diagnosis)
    BY <1>1, AppliedCases
  <2>2. call.diagnosis # NoDiagnosis
    BY <1>1, NoDiagnosisAssumption DEF CallOK
  <2> QED
    BY <1>1, <2>1, <2>2 DEF registerDiagnosis
<1>2. CASE call.op = "EnqueueForExecution"
  <2>1. Applied(call, row, seq) = enqueueForExecution(row, seq)
    BY <1>2, AppliedCases
  <2> QED
    BY <1>2, <2>1 DEF enqueueForExecution
<1>3. CASE call.op = "CancelExecution"
  <2>1. Applied(call, row, seq) = cancel(row)
    BY <1>3, AppliedCases
  <2> QED
    BY <1>3, <2>1 DEF cancel
<1>4. CASE call.op = "StartExecution"
  <2>1. Applied(call, row, seq) = start(row)
    BY <1>4, AppliedCases
  <2> QED
    BY <1>4, <2>1 DEF start
<1>5. CASE call.op = "FinishExecution"
  <2>1. Applied(call, row, seq) = finish(row)
    BY <1>5, AppliedCases
  <2> QED
    BY <1>5, <2>1 DEF finish
<1>6. CASE call.op = "FailExecution"
  <2>1. Applied(call, row, seq) = fail(row)
    BY <1>6, AppliedCases
  <2> QED
    BY <1>6, <2>1 DEF fail
<1> QED
  BY <1>1, <1>2, <1>3, <1>4, <1>5, <1>6 DEF Changes

(* SoloRowsAreWhole, SoloOrdersFollowLifecycle: an order that calls serve  *)
(* one at a time takes one edge of the lifecycle at a time, whatever       *)
(* happens to the others, and its columns always agree.                    *)
LEMMA SoloEdge ==
    ASSUME TypeInv, CurrentInv, [Next]_vars, NEW o \in Orders \ overlapped',
           rows'[o] # rows[o]
    PROVE  /\ <<rows[o].status, rows'[o].status>> \in LifecycleEdges
           /\ Whole(rows[o]) => Whole(rows'[o])
<1>1. Next
  BY DEF vars
<1>2. PICK c \in Calls, out \in Outcomes :
          /\ calls[c].order = o /\ InFlight(c)
          /\ \/ WriteRow(c, out) /\ SoloWrites(c)
             \/ /\ rows[o].status = Absent
                /\ \E seq \in Nat \ {NoSeq} : rows'[o] = receive(seq)
  BY <1>1, SoloChange
<1>3. CASE SoloWrites(c)
  <2>1. CallOK(calls[c]) /\ rows[o] \in Order
    BY <1>2, TypeInvCalls DEF TypeInv, TypeOK
  <2>2. PICK seq \in Nat : /\ calls[c].op = "EnqueueForExecution" => seq # NoSeq
                          /\ rows'[o] = Applied(calls[c], rows[o], seq)
    BY <1>2, <1>3 DEF SoloWrites
  <2> QED
    BY <1>2, <1>3, <2>1, <2>2, AppliedEdge DEF SoloWrites
<1>4. CASE rows[o].status = Absent /\ \E seq \in Nat \ {NoSeq} : rows'[o] = receive(seq)
  BY <1>4 DEF receive, Whole, Queues, Diagnosed, Absent, LifecycleEdges
<1> QED
  BY <1>2, <1>3, <1>4

WholeInv == \A o \in Orders \ overlapped : Whole(rows[o])

LEMMA WholeInit == Init => WholeInv
BY DEF Init, WholeInv, Whole, NoOrder, Absent, Queues, Diagnosed, NoSeq

LEMMA WholeNext == TypeInv /\ CurrentInv /\ WholeInv /\ [Next]_vars => WholeInv'
<1> SUFFICES ASSUME TypeInv, CurrentInv, WholeInv, [Next]_vars,
                    NEW o \in Orders \ overlapped'
             PROVE  Whole(rows'[o])
  BY DEF WholeInv, Whole
<1>1. o \notin overlapped
  <2>1. CASE Next
    BY <2>1, StepFrame DEF Next, Begin
  <2>2. CASE UNCHANGED vars
    BY <2>2 DEF vars
  <2> QED
    BY <2>1, <2>2
<1>2. CASE rows'[o] # rows[o]
  BY <1>1, <1>2, SoloEdge DEF WholeInv
<1>3. CASE rows'[o] = rows[o]
  BY <1>1, <1>3 DEF WholeInv
<1> QED
  BY <1>2, <1>3

LEMMA AlwaysCurrent == Spec => [](TypeInv /\ CurrentInv /\ WholeInv)
BY TypeInvInit, TypeInvNext, CurrentInit, CurrentNext, WholeInit, WholeNext,
   PTL DEF Spec

(* The columns of an order no two calls ever served together agree with    *)
(* its status: a position exactly while it queues, a diagnosis from its    *)
(* diagnosis on.                                                           *)
THEOREM SoloRowsStayWhole == Spec => []SoloRowsAreWhole
<1>1. WholeInv => SoloRowsAreWhole
  BY DEF WholeInv, Whole, SoloRowsAreWhole
<1> QED
  BY <1>1, AlwaysCurrent, PTL

(* Such an order takes only the edges of the lifecycle, one at a time. *)
THEOREM SoloLifecycle == Spec => SoloOrdersFollowLifecycle
<1>1. TypeInv /\ CurrentInv /\ [Next]_vars =>
         [\A o \in Orders \ overlapped' :
             rows'[o] # rows[o] =>
                 <<rows[o].status, rows'[o].status>> \in LifecycleEdges]_vars
  BY SoloEdge
<1> QED
  BY <1>1, AlwaysCurrent, PTL DEF Spec, SoloOrdersFollowLifecycle

-----------------------------------------------------------------------------
(***************************************************************************)
(* SoloOrdersAnnounceOnce.  What the outbox has told of such an order      *)
(* bounds the status of its row from below, so no method that would tell   *)
(* the same again accepts the row.                                         *)
(***************************************************************************)
EventAt(e, row) ==
    IF e.type = "diagnostic.finished"
    THEN row.status \in Diagnosed \cup {"CANCELLED"}
    ELSE row.status \in {"FINISHED", "FAILED"}

EventsInv ==
    /\ \A i \in 1..Len(outbox) :
          outbox[i].order \notin overlapped => EventAt(outbox[i], rows[outbox[i].order])
    /\ SoloOrdersAnnounceOnce

(* The edges keep what was told true. *)
LEMMA EdgeKeepsEvents ==
    ASSUME NEW e, NEW row, NEW next, EventAt(e, row),
           <<row.status, next.status>> \in LifecycleEdges
    PROVE  EventAt(e, next)
BY DEF EventAt, LifecycleEdges, Diagnosed, Absent

(* A commit that tells something of such an order is the first to. *)
LEMMA SoloEvent ==
    ASSUME NEW call, CallOK(call), call.op \in DOMAIN EventOf, NEW row \in Order,
           Accepts(row, call.op), NEW seq,
           NEW e, e.type = EventOf[call.op]
    PROVE  /\ EventAt(e, Applied(call, row, seq))
           /\ \A f : EventAt(f, row) =>
                 (f.type = "diagnostic.finished") # (e.type = "diagnostic.finished")
<1> USE DEF Accepts, AllowedFrom, Diagnosed, EventOf, EventAt, Order
<1>1. CASE call.op = "RegisterDiagnosis"
  <2>1. Applied(call, row, seq) = registerDiagnosis(row, call.diagnosis)
    BY <1>1, AppliedCases
  <2> QED
    BY <1>1, <2>1 DEF registerDiagnosis
<1>2. CASE call.op = "FinishExecution"
  <2>1. Applied(call, row, seq) = finish(row)
    BY <1>2, AppliedCases
  <2> QED
    BY <1>2, <2>1 DEF finish
<1>3. CASE call.op = "FailExecution"
  <2>1. Applied(call, row, seq) = fail(row)
    BY <1>3, AppliedCases
  <2> QED
    BY <1>3, <2>1 DEF fail
<1> QED
  BY <1>1, <1>2, <1>3, UseCasesList

(* The events already told, after any step. *)
LEMMA OldEvents ==
    ASSUME TypeInv, CurrentInv, EventsInv, [Next]_vars,
           \A o \in overlapped : o \in overlapped',
           NEW i \in 1..Len(outbox), outbox[i].order \notin overlapped'
    PROVE  EventAt(outbox[i], rows'[outbox[i].order])
<1> DEFINE o == outbox[i].order
<1>1. o \in Orders \ overlapped'
  <2>1. outbox \in Seq(Events)
    BY DEF TypeInv, TypeOK
  <2>2. outbox[i] \in Events
    BY <2>1
  <2> QED
    BY <2>2 DEF Events
<1>2. EventAt(outbox[i], rows[o])
  BY DEF EventsInv
<1>3. CASE rows'[o] = rows[o]
  BY <1>2, <1>3
<1>4. CASE rows'[o] # rows[o]
  BY <1>1, <1>2, <1>4, SoloEdge, EdgeKeepsEvents
<1> QED
  BY <1>3, <1>4

LEMMA OverlappedGrows ==
    ASSUME TypeInv, [Next]_vars
    PROVE  \A o \in overlapped : o \in overlapped'
<1>1. CASE Next
  BY <1>1, StepFrame DEF Next, Begin
<1>2. CASE UNCHANGED vars
  BY <1>2 DEF vars
<1> QED
  BY <1>1, <1>2

LEMMA EventsInit == Init => EventsInv
BY DEF Init, EventsInv, SoloOrdersAnnounceOnce

LEMMA EventsSame ==
    ASSUME TypeInv, CurrentInv, EventsInv, [Next]_vars, outbox' = outbox
    PROVE  EventsInv'
<1>1. \A i \in 1..Len(outbox) : outbox[i].order \notin overlapped' =>
          EventAt(outbox[i], rows'[outbox[i].order])
  BY OldEvents, OverlappedGrows
<1>2. SoloOrdersAnnounceOnce'
  BY OverlappedGrows DEF EventsInv, SoloOrdersAnnounceOnce
<1> QED
  BY <1>1, <1>2 DEF EventsInv, EventAt

LEMMA EventsWrite ==
    ASSUME TypeInv, CurrentInv, EventsInv, NEW c \in Calls, NEW out \in Outcomes,
           WriteRow(c, out), calls[c].op \in DOMAIN EventOf
    PROVE  EventsInv'
<1> DEFINE o == calls[c].order
           n == Len(outbox)
           e == [type |-> EventOf[calls[c].op], order |-> o,
                 diagnosis |-> calls[c].diagnosis]
<1>1. InFlight(c) /\ CallOK(calls[c])
  BY TypeInvCalls DEF WriteRow, InFlight, Idle
<1>2. Next
  BY <1>1 DEF Next, Step
<1>3. outbox \in Seq(Events) /\ outbox' = Append(outbox, e)
  BY DEF WriteRow, TypeInv, TypeOK
<1>4. /\ n \in Nat /\ Len(outbox') = n + 1 /\ outbox'[n + 1] = e
      /\ \A i \in 1..n : outbox'[i] = outbox[i]
  BY <1>3
<1>5. \A i \in 1..n : outbox[i].order \notin overlapped' =>
          EventAt(outbox[i], rows'[outbox[i].order])
  BY <1>2, OldEvents, OverlappedGrows
<1>6. overlapped' = overlapped
  BY DEF WriteRow, Commits
<1>7. o \notin overlapped =>
          /\ EventAt(e, rows'[o])
          /\ \A f : EventAt(f, rows[o]) =>
                (f.type = "diagnostic.finished") # (e.type = "diagnostic.finished")
  <2> SUFFICES ASSUME o \notin overlapped
               PROVE  /\ EventAt(e, rows'[o])
                      /\ \A f : EventAt(f, rows[o]) =>
                            (f.type = "diagnostic.finished") # (e.type = "diagnostic.finished")
    OBVIOUS
  <2>1. SoloWrites(c)
    BY <1>1, SoloWrite
  <2>2. PICK seq \in Nat : rows'[o] = Applied(calls[c], rows[o], seq)
    BY <2>1 DEF SoloWrites
  <2>3. Accepts(rows[o], calls[c].op) /\ rows[o] \in Order
    BY <1>1, <2>1 DEF SoloWrites, CallOK, Call, TypeInv, TypeOK
  <2>4. e.type = EventOf[calls[c].op]
    OBVIOUS
  <2> HIDE DEF e
  <2> QED
    BY <1>1, <2>2, <2>3, <2>4, SoloEvent
<1>8. e.order = o
  OBVIOUS
<1> HIDE DEF e, o, n
<1>9. ASSUME NEW i \in 1..Len(outbox'), outbox'[i].order \notin overlapped'
      PROVE  EventAt(outbox'[i], rows'[outbox'[i].order])
  <2>1. CASE i \in 1..n
    BY <1>4, <1>5, <1>9, <2>1
  <2>2. CASE i = n + 1
    BY <1>4, <1>6, <1>7, <1>8, <1>9, <2>2
  <2> QED
    BY <1>4, <2>1, <2>2
<1>10. \A i \in 1..n : outbox[i].order = o /\ o \notin overlapped =>
          (outbox[i].type = "diagnostic.finished") # (e.type = "diagnostic.finished")
  BY <1>7 DEF EventsInv, n
<1>11. SoloOrdersAnnounceOnce'
  <2> SUFFICES ASSUME NEW i \in 1..(n + 1), NEW j \in 1..(n + 1), i # j,
                      outbox'[i].order = outbox'[j].order,
                      outbox'[i].order \notin overlapped
               PROVE  (outbox'[i].type = "diagnostic.finished") #
                      (outbox'[j].type = "diagnostic.finished")
    BY <1>4, <1>6 DEF SoloOrdersAnnounceOnce
  <2>1. CASE i \in 1..n /\ j \in 1..n
    BY <1>4, <2>1 DEF EventsInv, SoloOrdersAnnounceOnce, n
  <2>2. CASE i = n + 1 /\ j \in 1..n
    BY <1>4, <1>8, <1>10, <2>2
  <2>3. CASE i \in 1..n /\ j = n + 1
    BY <1>4, <1>8, <1>10, <2>3
  <2> QED
    BY <1>4, <2>1, <2>2, <2>3
<1> QED
  BY <1>9, <1>11 DEF EventsInv, EventAt

LEMMA EventsNext == TypeInv /\ CurrentInv /\ EventsInv /\ [Next]_vars => EventsInv'
<1> SUFFICES ASSUME TypeInv, CurrentInv, EventsInv, [Next]_vars PROVE EventsInv'
  OBVIOUS
<1>1. CASE outbox' = outbox
  BY <1>1, EventsSame
<1>2. CASE outbox' # outbox
  <2>1. PICK c \in Calls, out \in Outcomes : Step(c, out)
    BY <1>2 DEF Next, Begin, vars
  <2>2. WriteRow(c, out)
    BY <1>2, <2>1, StepShape DEF InsertOrder
  <2>3. calls[c].op \in DOMAIN EventOf
    BY <1>2, <2>2 DEF WriteRow
  <2> QED
    BY <2>2, <2>3, EventsWrite
<1> QED
  BY <1>1, <1>2

(* The diagnosis of an order no two calls ever served together is told at  *)
(* most once, and so is the outcome of its repair.                         *)
THEOREM SoloAnnouncements == Spec => []SoloOrdersAnnounceOnce
<1>1. TypeInv /\ CurrentInv /\ [Next]_vars /\ EventsInv => EventsInv'
  BY EventsNext
<1>2. EventsInv => SoloOrdersAnnounceOnce
  BY DEF EventsInv
<1> QED
  BY <1>1, <1>2, EventsInit, AlwaysCurrent, PTL DEF Spec

-----------------------------------------------------------------------------
(***************************************************************************)
(* SoloOrdersNeverOvertake.  The head check of a call reads the queue one  *)
(* statement before it loads the row it will write.  From that read to the *)
(* commit nothing can come ahead of the order: only a change of its own    *)
(* row could put a pair with it second into ahead, and nobody else makes   *)
(* one.                                                                    *)
(***************************************************************************)
ChecksHead == {"RegisterDiagnosis", "StartExecution"}

HeldInv ==
    \A e \in ahead :
        /\ e[1] \in Orders /\ e[2] \in Orders /\ e[1] # e[2]
        /\ rows[e[1]].status = rows[e[2]].status
        /\ rows[e[1]].status \in Queues
        /\ rows[e[1]].queueSeq \in 1..rows[e[2]].queueSeq

Passed(call) ==
    /\ call.await \in {"load", "write"}
    /\ call.op \in ChecksHead
    => \A o \in Orders : <<o, call.order>> \notin ahead

PassedInv ==
    \A c \in Calls : InFlight(c) /\ calls[c].order \notin overlapped => Passed(calls[c])

AheadInv == HeldInv /\ PassedInv

(* How a step can change the history of places. *)
LEMMA AheadFrame ==
    ASSUME TypeInv, [Next]_vars
    PROVE  \/ ahead' = ahead /\ rows' = rows
           \/ \A e \in ahead' :
                 /\ e = <<e[1], e[2]>> /\ e[1] \in Orders /\ e[2] \in Orders
                 /\ rows'[e[1]] = rows[e[1]]
                 /\ \/ e \in ahead /\ rows'[e[2]] = rows[e[2]]
                    \/ /\ rows'[e[2]] # rows[e[2]] /\ e[1] # e[2]
                       /\ rows'[e[1]].status = rows'[e[2]].status
                       /\ rows'[e[1]].status \in Queues
                       /\ rows'[e[1]].queueSeq \in 1..rows'[e[2]].queueSeq
<1>1. CASE UNCHANGED vars
  BY <1>1 DEF vars
<1>2. ASSUME NEW c \in Calls, NEW out \in Outcomes, Step(c, out)
      PROVE  (ahead' = ahead /\ rows' = rows) \/ Commits(c, out)
  BY <1>2, StepShape DEF InsertOrder, WriteRow
<1>3. ASSUME NEW c, NEW out, Commits(c, out), NEW e \in ahead'
      PROVE  /\ e = <<e[1], e[2]>> /\ e[1] \in Orders /\ e[2] \in Orders
             /\ rows'[e[1]] = rows[e[1]]
             /\ \/ e \in ahead /\ rows'[e[2]] = rows[e[2]]
                \/ /\ rows'[e[2]] # rows[e[2]] /\ e[1] # e[2]
                   /\ rows'[e[1]].status = rows'[e[2]].status
                   /\ rows'[e[1]].status \in Queues
                   /\ rows'[e[1]].queueSeq \in 1..rows'[e[2]].queueSeq
  BY <1>3 DEF Commits
<1> QED
  BY <1>1, <1>2, <1>3 DEF Next, Begin

LEMMA HeldNext == TypeInv /\ HeldInv /\ [Next]_vars => HeldInv'
<1> SUFFICES ASSUME TypeInv, HeldInv, [Next]_vars, NEW e \in ahead'
             PROVE  /\ e[1] \in Orders /\ e[2] \in Orders /\ e[1] # e[2]
                    /\ rows'[e[1]].status = rows'[e[2]].status
                    /\ rows'[e[1]].status \in Queues
                    /\ rows'[e[1]].queueSeq \in 1..rows'[e[2]].queueSeq
  BY DEF HeldInv
<1>1. CASE ahead' = ahead /\ rows' = rows
  BY <1>1 DEF HeldInv
<1>2. CASE ~(ahead' = ahead /\ rows' = rows)
  BY <1>2, AheadFrame DEF HeldInv
<1> QED
  BY <1>1, <1>2

(* A use case that must be at the head of its queue decides only when it   *)
(* found itself there.                                                     *)
LEMMA DecidesAtHead ==
    ASSUME TypeInv, CurrentInv, NEW c \in Calls, NEW out, Step(c, out),
           calls'[c] # Idle, calls'[c].await = "load", calls[c].op \in ChecksHead
    PROVE  /\ calls[c].await = "findQueue"
           /\ calls[c].order \in Heads(IF calls[c].op = "StartExecution"
                                       THEN "IN_EXECUTION_QUEUE" ELSE "IN_DIAGNOSIS_QUEUE")
<1>1. InFlight(c) /\ CallOK(calls[c])
  BY StepShape
<1>2. ASSUME NEW await, await # "load", NEW entity, NEW m, Moves(c, await, entity, m)
      PROVE  FALSE
  <2>1. calls'[c].await = await
    <3>1. Set(c, [calls[c] EXCEPT !.await = await, !.entity = entity])
      BY <1>1, <1>2, MovesCall DEF Set
    <3> QED
      BY <1>1, <3>1, SetFields
  <2> QED
    BY <1>2, <2>1
<1>3. ASSUME NEW m, NEW answers, Ends(c, m, answers)
      PROVE  FALSE
  BY <1>3, IdleFields DEF Ends, Set
<1>4. CASE FindOrder(c, out)
  <2>1. /\ calls[c].op = "RegisterDiagnosis"
        /\ rows[calls[c].order].status # "IN_DIAGNOSIS_QUEUE"
        /\ Transitions(c, rows[calls[c].order], NoSeq, out)
    BY <1>2, <1>3, <1>4 DEF FindOrder, ChecksHead
  <2> QED
    BY <1>3, <2>1 DEF Transitions, Accepts, AllowedFrom
<1>5. CASE NextQueueSeq(c, out)
  BY <1>5 DEF NextQueueSeq, ChecksHead
<1>6. CASE FindQueue(c, out)
  BY <1>3, <1>6 DEF FindQueue
<1>7. CASE LoadRow(c, out)
  <2>1. Loads(c)
    BY <1>1, <1>7 DEF LoadRow, Loads, Set, CallOK, Call, TypeInv, TypeOK
  <2> QED
    BY <1>1, <2>1, LoadsFields
<1>8. CASE InsertOrder(c, out) \/ RejectInsert(c, out) \/ WriteRow(c, out) \/ Abort(c, out)
  BY <1>3, <1>8 DEF InsertOrder, RejectInsert, WriteRow, Commits, Abort
<1> QED
  BY <1>4, <1>5, <1>6, <1>7, <1>8 DEF Step

(* The head of a queue has nobody ahead of it. *)
LEMMA HeadIsNotPassed ==
    ASSUME TypeInv, PositionsInv, HeldInv, NEW p \in Orders, NEW status,
           rows[p].status = status, p \in Heads(status), NEW o \in Orders
    PROVE  <<o, p>> \notin ahead
<1> SUFFICES ASSUME <<o, p>> \in ahead PROVE FALSE
  OBVIOUS
<1>1. /\ o # p /\ rows[o].status = status
      /\ rows[o].queueSeq \in 1..rows[p].queueSeq
  <2>1. <<o, p>>[1] = o /\ <<o, p>>[2] = p
    OBVIOUS
  <2> QED
    BY <2>1 DEF HeldInv
<1>2. rows[o].queueSeq \in Nat /\ rows[p].queueSeq \in Nat
  BY DEF TypeInv, TypeOK, Order
<1>3. rows[o].queueSeq # rows[p].queueSeq
  BY <1>1, <1>2 DEF PositionsInv, Holds, NoSeq
<1>4. Before(o, p)
  BY <1>1, <1>2, <1>3 DEF Before, NoSeq
<1> QED
  BY <1>1, <1>4 DEF Heads, Queued

(* Nothing comes ahead of an order whose row a step leaves alone. *)
LEMMA NothingComesAhead ==
    ASSUME TypeInv, [Next]_vars, NEW p, rows'[p] = rows[p],
           \A o \in Orders : <<o, p>> \notin ahead
    PROVE  \A o \in Orders : <<o, p>> \notin ahead'
<1> SUFFICES ASSUME NEW o \in Orders, <<o, p>> \in ahead' PROVE FALSE
  OBVIOUS
<1>1. <<o, p>>[2] = p
  OBVIOUS
<1> QED
  BY <1>1, AheadFrame

LEMMA PassedStep ==
    ASSUME TypeInv, PositionsInv, CurrentInv, AheadInv,
           NEW c \in Calls, NEW out \in Outcomes, Step(c, out)
    PROVE  PassedInv'
<1>1. InFlight(c) /\ CallOK(calls[c]) /\ Next
  BY StepShape DEF Next
<1> SUFFICES ASSUME NEW b \in Calls, InFlight(b)', calls'[b].order \notin overlapped',
                    calls'[b].await \in {"load", "write"}, calls'[b].op \in ChecksHead
             PROVE  \A o \in Orders : <<o, calls'[b].order>> \notin ahead'
  BY DEF PassedInv, Passed
<1>2. overlapped' = overlapped
  BY StepFrame
<1>3. CASE b # c
  <2>1. calls'[b] = calls[b] /\ InFlight(b)
    BY <1>3, StepFrame DEF InFlight
  <2>2. calls[b].order \in Orders \ {calls[c].order}
    BY <1>1, <1>2, <1>3, <2>1, TypeInvCalls DEF CurrentInv, Alone, CallOK, Call
  <2>3. rows'[calls[b].order] = rows[calls[b].order]
    BY <2>2, StepFrame
  <2>4. \A o \in Orders : <<o, calls[b].order>> \notin ahead
    BY <1>2, <2>1 DEF AheadInv, PassedInv, Passed
  <2> QED
    BY <1>1, <2>1, <2>3, <2>4, NothingComesAhead
<1>4. CASE b = c
  <2> DEFINE p == calls[c].order
  <2>1. calls'[c] # Idle /\ calls'[c].order = p /\ calls'[c].op = calls[c].op /\ rows' = rows
    BY <1>4, StepFrame DEF InFlight, Idle, SameCall
  <2>2. \A o \in Orders : <<o, p>> \notin ahead
    <3>1. CASE Loads(c)
      BY <1>1, <1>2, <1>4, <2>1, <3>1 DEF AheadInv, PassedInv, Passed, Loads
    <3>2. CASE \E seq : Decides(c, seq)
      <4>1. PICK seq : Decides(c, seq)
        BY <3>2
      <4>2. calls'[c].await = "load"
        BY <1>1, <4>1, SetFields DEF Decides
      <4>3. /\ calls[c].await = "findQueue"
            /\ p \in Heads(IF calls[c].op = "StartExecution"
                           THEN "IN_EXECUTION_QUEUE" ELSE "IN_DIAGNOSIS_QUEUE")
        BY <1>4, <2>1, <4>2, DecidesAtHead
      <4>4. Accepts(rows[p], calls[c].op) /\ p \in Orders
        BY <1>1, <1>2, <1>4, <2>1, <4>1, <4>3
           DEF Decides, Found, CurrentInv, CurrentAt, CallOK, Call
      <4>5. rows[p].status = IF calls[c].op = "StartExecution"
                             THEN "IN_EXECUTION_QUEUE" ELSE "IN_DIAGNOSIS_QUEUE"
        BY <1>4, <2>1, <4>4 DEF Accepts, AllowedFrom, ChecksHead
      <4> QED
        BY <4>3, <4>4, <4>5, HeadIsNotPassed DEF AheadInv
    <3>3. CASE Keeps(c)
      <4>1. PICK await \in {"nextSeq", "findQueue"} :
               Set(c, [calls[c] EXCEPT !.await = await, !.entity = rows[calls[c].order]])
        BY <3>3 DEF Keeps
      <4>2. calls'[c].await = await
        BY <1>1, <4>1, SetFields
      <4> QED
        BY <1>4, <4>2
    <3>4. CASE \E seq : Creates(c, seq)
      <4>1. calls'[c].await = "insert"
        BY <1>1, <3>4, SetFields DEF Creates
      <4> QED
        BY <1>4, <4>1
    <3>5. CASE Quits(c) \/ InsertOrder(c, out) \/ WriteRow(c, out)
      BY <2>1, <3>5, IdleFields
         DEF Quits, InsertOrder, WriteRow, Commits, Ends, Set
    <3> QED
      BY <3>1, <3>2, <3>3, <3>4, <3>5, StepShape
  <2> QED
    BY <1>1, <1>4, <2>1, <2>2, NothingComesAhead
<1> QED
  BY <1>3, <1>4

LEMMA AheadNext ==
    TypeInv /\ PositionsInv /\ CurrentInv /\ AheadInv /\ [Next]_vars => AheadInv'
<1> SUFFICES ASSUME TypeInv, PositionsInv, CurrentInv, AheadInv, [Next]_vars
             PROVE  PassedInv'
  BY HeldNext DEF AheadInv
<1>1. ASSUME NEW c \in Calls, NEW op \in UseCases, NEW o \in Orders,
             NEW d \in Diagnoses \cup {NoDiagnosis}, Begin(c, op, o, d)
      PROVE  PassedInv'
  <2> DEFINE begun == [await |-> "findOrder", op |-> op, order |-> o, diagnosis |-> d,
                       entity |-> NoOrder, loaded |-> NoOrder]
  <2>1. Set(c, begun) /\ begun.await = "findOrder" /\ ahead' = ahead
    BY <1>1 DEF Begin, Set
  <2> HIDE DEF begun
  <2>2. calls'[c].await = "findOrder" /\ \A b \in Calls \ {c} : calls'[b] = calls[b]
    BY <2>1, SetOne
  <2>3. \A p \in overlapped : p \in overlapped'
    BY OverlappedGrows
  <2> QED
    BY <2>1, <2>2, <2>3 DEF AheadInv, PassedInv, Passed, InFlight
<1>2. ASSUME NEW c \in Calls, NEW out \in Outcomes, Step(c, out)
      PROVE  PassedInv'
  BY <1>2, PassedStep
<1>3. CASE UNCHANGED vars
  BY <1>3 DEF vars, AheadInv, PassedInv, Passed, InFlight
<1> QED
  BY <1>1, <1>2, <1>3 DEF Next

LEMMA AheadInit == Init => AheadInv
BY DEF Init, AheadInv, HeldInv, PassedInv, InFlight, Idle

(* The commit that advances such an order. *)
LEMMA SoloAdvance ==
    ASSUME TypeInv, CurrentInv, AheadInv, [Next]_vars, NEW o \in Orders,
           NEW p \in Orders \ overlapped',
           \/ Leaves(p, "IN_DIAGNOSIS_QUEUE", "AWAITING_PAYMENT")
           \/ Leaves(p, "IN_EXECUTION_QUEUE", "IN_EXECUTION")
    PROVE  <<o, p>> \notin ahead
<1>1. rows'[p] # rows[p] /\ Next
  BY DEF Leaves, vars
<1>2. rows[p].status # Absent
  BY DEF Leaves, Absent
<1>3. PICK c \in Calls, out \in Outcomes :
          /\ calls[c].order = p /\ InFlight(c) /\ p \notin overlapped
          /\ WriteRow(c, out) /\ SoloWrites(c)
  BY <1>1, <1>2, SoloChange
<1>4. PICK seq \in Nat : rows'[p] = Applied(calls[c], rows[p], seq)
  BY <1>3 DEF SoloWrites
<1>5. calls[c].op \in ChecksHead
  <2>1. /\ enqueueForExecution(rows[p], seq).status = "IN_EXECUTION_QUEUE"
        /\ cancel(rows[p]).status = "CANCELLED"
        /\ finish(rows[p]).status = "FINISHED"
        /\ fail(rows[p]).status = "FAILED"
    BY DEF enqueueForExecution, cancel, finish, fail, TypeInv, TypeOK, Order
  <2> QED
    BY <1>3, <1>4, <2>1, AppliedCases DEF Leaves, SoloWrites, Changes, ChecksHead
<1> QED
  BY <1>3, <1>5 DEF AheadInv, PassedInv, Passed, WriteRow

(* An order no two calls ever served together never advances past one that *)
(* already held a smaller position in the queue when it took its own.      *)
THEOREM SoloFifo == Spec => SoloOrdersNeverOvertake
<1>1. TypeInv /\ PositionsInv /\ CurrentInv /\ AheadInv /\ [Next]_vars => AheadInv'
  BY AheadNext
<1>2. TypeInv /\ CurrentInv /\ AheadInv /\ [Next]_vars =>
         [\A o \in Orders, p \in Orders \ overlapped' :
             \/ Leaves(p, "IN_DIAGNOSIS_QUEUE", "AWAITING_PAYMENT")
             \/ Leaves(p, "IN_EXECUTION_QUEUE", "IN_EXECUTION")
             => <<o, p>> \notin ahead]_vars
  BY SoloAdvance
<1>3. Spec => [](TypeInv /\ PositionsInv)
  BY TypeInvInit, TypeInvNext, PositionsInit, PositionsNext, PTL DEF Spec
<1> QED
  BY <1>1, <1>2, <1>3, AheadInit, AlwaysCurrent, PTL DEF Spec, SoloOrdersNeverOvertake
=============================================================================
