------------------------- MODULE SoloAnswers_proofs -------------------------
(***************************************************************************)
(* Proofs about the orders no two calls ever served together, when those   *)
(* calls are deliveries and requests: replicas crash under them, messages  *)
(* come twice, and a route reads its order back in a statement of its own. *)
(***************************************************************************)
EXTENDS EventConsumer_proofs, SoloOrders_proofs

-----------------------------------------------------------------------------
(***************************************************************************)
(* What SoloOrders_proofs shows of the use cases stays true under their    *)
(* callers: a replica that ends takes calls away and changes nothing else. *)
(***************************************************************************)
SoloInv == CurrentInv /\ WholeInv /\ EventsInv /\ AheadInv

LEMMA SoloInvInit == Init => SoloInv
BY CurrentInit, WholeInit, EventsInit, AheadInit DEF SoloInv

LEMMA ResetsSolo ==
    ASSUME TypeInv, SoloInv, Resets
    PROVE  SoloInv'
<1>1. UNCHANGED <<rows, queueSeq, outbox, paid, overlapped, ahead>>
  BY DEF Resets, database
<1>2. CurrentInv'
  BY <1>1, ResetsCalls DEF SoloInv, CurrentInv, Alone, CurrentAt
<1>3. WholeInv'
  BY <1>1 DEF SoloInv, WholeInv, Whole
<1>4. EventsInv'
  BY <1>1 DEF SoloInv, EventsInv, EventAt, SoloOrdersAnnounceOnce
<1>5. HeldInv'
  BY <1>1 DEF SoloInv, AheadInv, HeldInv
<1>6. PassedInv'
  BY <1>1, ResetsCalls DEF SoloInv, AheadInv, PassedInv, Passed
<1> QED
  BY <1>2, <1>3, <1>4, <1>5, <1>6 DEF SoloInv, AheadInv

LEMMA SoloInvNext ==
    ASSUME ConsumerTypeOK, UseCasesInv, SoloInv, [ConsumerNext]_allVars
    PROVE  SoloInv'
<1>1. CASE [Next]_vars
  BY <1>1, CurrentNext, WholeNext, EventsNext, AheadNext DEF SoloInv, UseCasesInv
<1>2. CASE Resets
  BY <1>2, ResetsSolo DEF UseCasesInv
<1> QED
  BY <1>1, <1>2, ConsumerStep

LEMMA AlwaysSolo == ConsumerSpec => [](ConsumerTypeOK /\ UseCasesInv /\ SoloInv)
BY ConsumerTypeInit, ConsumerTypeNext, UseCasesInvInit, UseCasesInvNext,
   SoloInvInit, SoloInvNext, PTL DEF ConsumerSpec

(* A step of the composition takes a row of such an order along one edge   *)
(* of the lifecycle, or leaves it.                                         *)
LEMMA SoloFlow ==
    ASSUME ConsumerTypeOK, UseCasesInv, SoloInv, [ConsumerNext]_allVars
    PROVE  /\ \A o \in overlapped : o \in overlapped'
           /\ \A o \in Orders \ overlapped' :
                 rows'[o] # rows[o] =>
                     <<rows[o].status, rows'[o].status>> \in LifecycleEdges
<1>1. CASE [Next]_vars
  BY <1>1, OverlappedGrows, SoloEdge DEF UseCasesInv, SoloInv
<1>2. CASE Resets
  BY <1>2 DEF Resets, database
<1> QED
  BY <1>1, <1>2, ConsumerStep

LEMMA SoloFifoStep ==
    ASSUME ConsumerTypeOK, UseCasesInv, SoloInv, [ConsumerNext]_allVars,
           NEW o \in Orders, NEW p \in Orders \ overlapped',
           \/ Leaves(p, "IN_DIAGNOSIS_QUEUE", "AWAITING_PAYMENT")
           \/ Leaves(p, "IN_EXECUTION_QUEUE", "IN_EXECUTION")
    PROVE  <<o, p>> \notin ahead
<1>1. CASE [Next]_vars
  BY <1>1, SoloAdvance DEF UseCasesInv, SoloInv
<1>2. CASE Resets
  BY <1>2 DEF Resets, database, Leaves
<1> QED
  BY <1>1, <1>2, ConsumerStep

(* An order that deliveries and requests never share keeps the lifecycle,  *)
(* whole rows, single announcements and its place in the queue, although   *)
(* messages are delivered twice and replicas crash under its calls.        *)
THEOREM SoloComposed ==
    ConsumerSpec => /\ [](SoloRowsAreWhole /\ SoloOrdersAnnounceOnce)
                    /\ SoloOrdersFollowLifecycle
                    /\ SoloOrdersNeverOvertake
<1>1. SoloInv => SoloRowsAreWhole /\ SoloOrdersAnnounceOnce
  BY DEF SoloInv, WholeInv, Whole, SoloRowsAreWhole, EventsInv
<1>2. ConsumerTypeOK /\ UseCasesInv /\ SoloInv /\ [ConsumerNext]_allVars =>
         [\A o \in Orders \ overlapped' :
             rows'[o] # rows[o] =>
                 <<rows[o].status, rows'[o].status>> \in LifecycleEdges]_vars
  BY SoloFlow
<1>3. ConsumerTypeOK /\ UseCasesInv /\ SoloInv /\ [ConsumerNext]_allVars =>
         [\A o \in Orders, p \in Orders \ overlapped' :
             \/ Leaves(p, "IN_DIAGNOSIS_QUEUE", "AWAITING_PAYMENT")
             \/ Leaves(p, "IN_EXECUTION_QUEUE", "IN_EXECUTION")
             => <<o, p>> \notin ahead]_vars
  BY SoloFifoStep
<1> QED
  BY <1>1, <1>2, <1>3, AlwaysSolo, PTL
     DEF ConsumerSpec, SoloOrdersFollowLifecycle, SoloOrdersNeverOvertake

-----------------------------------------------------------------------------
(***************************************************************************)
(* SoloAnswersShowTheChange.  A use case of a request returns only after   *)
(* its commit, which put a row nobody else serves into the stage it leads  *)
(* to; from there the edges of the lifecycle lead only to later stages,    *)
(* whoever takes them before the route has read the row back.              *)
(***************************************************************************)
Shown(c) ==
    /\ Awaiting(c, "useCase") /\ InFlight(c) =>
           calls[c].op = requests[c].op /\ calls[c].order = requests[c].order
    /\ /\ Awaiting(c, "readBack")
       /\ requests[c].op \in RequestOps
       /\ requests[c].order \notin overlapped
       => rows[requests[c].order].status \in StagesFrom[requests[c].op]

ShownInv == \A c \in Clients : Shown(c)

LEMMA StagesOf ==
    /\ StagesFrom["RegisterDiagnosis"] = Diagnosed \cup {"CANCELLED"}
    /\ StagesFrom["StartExecution"] = {"IN_EXECUTION", "FINISHED", "FAILED"}
    /\ StagesFrom["FinishExecution"] = {"FINISHED"}
    /\ StagesFrom["FailExecution"] = {"FAILED"}
BY DEF StagesFrom

(* No edge leads back out of the stages behind a request. *)
LEMMA StagesAreClosed ==
    ASSUME NEW op \in RequestOps, NEW from, NEW to, from \in StagesFrom[op],
           <<from, to>> \in LifecycleEdges
    PROVE  to \in StagesFrom[op]
BY StagesOf DEF RequestOps, LifecycleEdges, Diagnosed, Absent

(* The method of a request puts an order into its stages. *)
LEMMA AppliedStage ==
    ASSUME NEW call, call.op \in RequestOps, NEW row \in Order, NEW seq
    PROVE  Applied(call, row, seq).status \in StagesFrom[call.op]
<1>1. /\ registerDiagnosis(row, call.diagnosis).status = "AWAITING_PAYMENT"
      /\ start(row).status = "IN_EXECUTION"
      /\ finish(row).status = "FINISHED"
      /\ fail(row).status = "FAILED"
  BY DEF registerDiagnosis, start, finish, fail, Order
<1> QED
  BY <1>1, AppliedCases, StagesOf DEF RequestOps, Diagnosed

(* The use cases of the requests return from nothing but their commit. *)
LEMMA OnlyCommitsReturn ==
    ASSUME TypeInv, NEW c \in Calls, Step(c, "ok"), calls[c].op \in RequestOps
    PROVE  WriteRow(c, "ok")
<1>1. CallOK(calls[c])
  BY StepShape
<1>2. ~InsertOrder(c, "ok")
  BY <1>1 DEF InsertOrder, CallOK, RequestOps
<1> QED
  BY <1>2 DEF Step, FindOrder, NextQueueSeq, FindQueue, RejectInsert, LoadRow, Abort,
     Transitions, Moves, Ends, RequestOps

(* The requests a step does not serve. *)
LEMMA ShownKept ==
    ASSUME ConsumerTypeOK, UseCasesInv, SoloInv, [ConsumerNext]_allVars, ShownInv,
           NEW c \in Clients, requests'[c] = requests[c],
           InFlight(c)' => /\ InFlight(c)
                           /\ calls'[c].op = calls[c].op /\ calls'[c].order = calls[c].order
    PROVE  Shown(c)'
<1>1. ASSUME Awaiting(c, "readBack"), requests[c].op \in RequestOps,
             requests[c].order \notin overlapped'
      PROVE  rows'[requests[c].order].status \in StagesFrom[requests[c].op]
  <2>1. requests[c].order \in Orders
    BY <1>1, ServedType DEF Served, Asks, Awaiting
  <2>2. requests[c].order \notin overlapped
    BY <1>1, SoloFlow
  <2>3. rows[requests[c].order].status \in StagesFrom[requests[c].op]
    BY <1>1, <2>2 DEF ShownInv, Shown
  <2> QED
    BY <1>1, <2>1, <2>3, SoloFlow, StagesAreClosed
<1> QED
  BY <1>1 DEF ShownInv, Shown, Awaiting

(* The step of a request's use case, and of the route when it returns. *)
LEMMA ServeShows ==
    ASSUME ConsumerTypeOK, UseCasesInv, SoloInv, ShownInv, NEW c \in Clients,
           NEW out \in Outcomes, Serve(c, out)
    PROVE  Shown(c)'
<1>1. c \in Calls /\ TypeInv /\ CurrentInv /\ Step(c, out) /\ Awaiting(c, "useCase")
  BY ClientsAssumption DEF Serve, UseCasesInv, SoloInv
<1>2. requests[c] \in Served /\ requests \in [Clients -> RequestTypes]
  BY <1>1, ServedType DEF Asks, Awaiting, ConsumerTypeOK
<1>3. /\ InFlight(c) /\ CallOK(calls[c])
      /\ calls[c].op = requests[c].op /\ calls[c].order = requests[c].order
  BY <1>1, StepShape DEF ShownInv, Shown
<1> DEFINE took == requests[c].took \/ rows' # rows \/ outbox' # outbox
<1>4. \/ out = "pending" /\ requests' = [requests EXCEPT ![c].took = took]
      \/ /\ out = "ok"
         /\ requests' = [requests EXCEPT ![c].took = took, ![c].await = "readBack"]
      \/ requests' = [requests EXCEPT ![c] = Answered(out, took)]
  BY DEF Serve
<1> HIDE DEF took
<1>5. CASE out = "pending" /\ requests' = [requests EXCEPT ![c].took = took]
  <2>1. /\ requests'[c].await = "useCase" /\ requests'[c].op = requests[c].op
        /\ requests'[c].order = requests[c].order
    BY <1>1, <1>2, <1>5 DEF Served, Awaiting
  <2>2. InFlight(c)' => calls'[c].op = calls[c].op /\ calls'[c].order = calls[c].order
    BY <1>1, StepSame DEF SameCalls
  <2> QED
    BY <1>3, <2>1, <2>2 DEF Shown, Awaiting
<1>6. CASE /\ out = "ok"
           /\ requests' = [requests EXCEPT ![c].took = took, ![c].await = "readBack"]
  <2>1. /\ requests'[c].await = "readBack" /\ requests'[c].op = requests[c].op
        /\ requests'[c].order = requests[c].order
    BY <1>2, <1>6 DEF Served
  <2>2. ASSUME requests[c].op \in RequestOps, requests[c].order \notin overlapped'
        PROVE  rows'[requests[c].order].status \in StagesFrom[requests[c].op]
    <3>1. WriteRow(c, "ok") /\ overlapped' = overlapped
      BY <1>1, <1>3, <1>6, <2>2, OnlyCommitsReturn, StepFrame
    <3>2. SoloWrites(c)
      BY <1>1, <1>3, <2>2, <3>1, SoloWrite
    <3>3. rows[calls[c].order] \in Order
      BY <1>1, <1>3 DEF CallOK, Call, TypeInv, TypeOK
    <3> QED
      BY <1>3, <2>2, <3>2, <3>3, AppliedStage DEF SoloWrites
  <2> QED
    BY <2>1, <2>2 DEF Shown, Awaiting
<1>7. CASE requests' = [requests EXCEPT ![c] = Answered(out, took)]
  BY <1>2, <1>7 DEF Shown, Awaiting, Answered
<1> QED
  BY <1>4, <1>5, <1>6, <1>7

LEMMA RequestShows ==
    ASSUME ConsumerTypeOK, UseCasesInv, SoloInv, ShownInv, NEW c \in Clients, Request(c)
    PROVE  Shown(c)'
<1>1. requests \in [Clients -> RequestTypes] /\ c \in Calls /\ TypeInv
  BY ClientsAssumption DEF ConsumerTypeOK, UseCasesInv
<1>2. CASE \E out \in Outcomes : Serve(c, out)
  BY <1>2, ServeShows
<1>3. ASSUME NEW out, NEW took, requests' = [requests EXCEPT ![c] = Answered(out, took)]
      PROVE  Shown(c)'
  BY <1>1, <1>3 DEF Shown, Awaiting, Answered
<1>4. CASE \/ \E out \in Outcomes : ReadBack(c, out)
           \/ ReadFails(c) \/ BadRequest(c)
  BY <1>3, <1>4 DEF ReadBack, ReadFails, BadRequest, Answers
<1>5. ASSUME NEW r \in Replicas, NEW o \in Orders, Get(r, c, o)
      PROVE  Shown(c)'
  BY <1>1, <1>5 DEF Get, Frame, Shown, Awaiting, RequestOps
<1>6. ASSUME NEW r \in Replicas, NEW o \in Orders, NEW op \in RequestOps, NEW d,
             Patch(r, c, op, o, d)
      PROVE  Shown(c)'
  <2>1. calls'[c].op = op /\ calls'[c].order = o
    BY <1>1, <1>6 DEF Patch, Begin, TypeInv, TypeOK
  <2> QED
    BY <1>1, <1>6, <2>1 DEF Patch, Frame, Shown, Awaiting
<1> QED
  BY <1>2, <1>4, <1>5, <1>6 DEF Request

LEMMA ShownNext ==
    ASSUME ConsumerTypeOK, UseCasesInv, SoloInv, ShownInv, [ConsumerNext]_allVars
    PROVE  ShownInv'
<1>1. TypeInv /\ Clients \subseteq Calls
  BY ClientsAssumption DEF UseCasesInv
<1>2. CASE UNCHANGED <<vars, requests>>
  BY <1>1, <1>2, ShownKept DEF vars, ShownInv, InFlight
<1>3. ASSUME NEW h \in Handlers, Recall(h) \/ Handle(h)
      PROVE  ShownInv'
  <2>1. h \in Calls /\ h \notin Clients
    BY HandlersAssumption
  <2>2. requests' = requests
    BY <1>3 DEF Recall, Handle
  <2>3. \/ \E out \in Outcomes : Step(h, out)
        \/ \E op \in UseCases, o \in Orders, d \in Diagnoses \cup {NoDiagnosis} :
               Begin(h, op, o, d)
        \/ UNCHANGED vars
    BY <1>3, HandlerCalls
  <2> QED
    BY <1>1, <2>1, <2>2, <2>3, OthersCalls, ShownKept DEF ShownInv
<1>4. ASSUME NEW c \in Clients, Request(c)
      PROVE  ShownInv'
  <2>1. \/ \E out \in Outcomes : Step(c, out)
        \/ \E op \in UseCases, o \in Orders, d \in Diagnoses \cup {NoDiagnosis} :
               Begin(c, op, o, d)
        \/ UNCHANGED vars
    BY <1>4, RequestCalls
  <2>2. ASSUME NEW b \in Clients \ {c}
        PROVE  Shown(b)'
    BY <1>1, <1>4, <2>1, RequestAlone, OthersCalls, ShownKept
  <2> QED
    BY <1>4, <2>2, RequestShows DEF ShownInv
<1>5. ASSUME NEW r \in Replicas, Restarts(r), NEW c \in Clients
      PROVE  Shown(c)'
  <2>1. CASE requests'[c] = requests[c]
    BY <1>1, <1>5, <2>1, RestartsResets, ResetsCalls, ShownKept
  <2>2. CASE requests'[c] = NoRequest
    BY <2>2 DEF NoRequest, Shown, Awaiting
  <2> QED
    BY <1>5, <2>1, <2>2 DEF Restarts
<1> QED
  BY <1>2, <1>3, <1>4, <1>5
     DEF ConsumerNext, Publish, Delivered, Deliver, Advance, MarkProcessed, StatementFails,
         Tell, Subscribe, Crash, UnhandledRejection, ChannelCloses, allVars, ShownInv

(* When a route reads back, an order that calls in flight never shared is  *)
(* in the stage the request led to or a later one: the answer 200 never    *)
(* shows it behind the request.                                            *)
THEOREM AnswersShowTheChange == ConsumerSpec => []SoloAnswersShowTheChange
<1>1. ConsumerInit => ShownInv
  BY DEF ConsumerInit, HttpInit, NoRequest, ShownInv, Shown, Awaiting
<1>2. ShownInv => SoloAnswersShowTheChange
  BY DEF ShownInv, Shown, SoloAnswersShowTheChange
<1> QED
  BY <1>1, <1>2, ShownNext, AlwaysSolo, PTL DEF ConsumerSpec
=============================================================================
