------------------------ MODULE EventConsumer_proofs ------------------------
(***************************************************************************)
(* Proofs about the consumers and the HTTP API running beside each other,  *)
(* for any sets of orders, calls, replicas and messages and any number of  *)
(* faults.                                                                 *)
(***************************************************************************)
EXTENDS EventConsumer, ExecutionUseCases_proofs

-----------------------------------------------------------------------------
(***************************************************************************)
(* Types.                                                                  *)
(***************************************************************************)
Places == {"unpublished", "ready", "acked", "dropped"} \cup Replicas

Handler == [await : {"wasProcessed", "handle", "markProcessed", "rejected"},
            replica : Replicas, message : Messages]

(* A handler that awaits something has a message, in a replica. *)
LEMMA HandlerType ==
    ASSUME ConsumerTypeOK, NEW c \in Handlers, ~Awaits(c, "nothing")
    PROVE  /\ handlers[c] \in Handler
           /\ handlers[c].message \in Messages
           /\ handlers[c].replica \in Replicas
BY DEF ConsumerTypeOK, Awaits, NoHandler, Handler

LEMMA SettlesType ==
    ASSUME ConsumerTypeOK, NEW c \in Handlers, ~Awaits(c, "nothing"),
           NEW where \in Places, Settles(c, where)
    PROVE  /\ place' \in [Messages -> Places]
           /\ handlers' \in [Handlers -> {NoHandler} \cup Handler]
<1>1. /\ place \in [Messages -> Places]
      /\ handlers \in [Handlers -> {NoHandler} \cup Handler]
  BY DEF ConsumerTypeOK, Places, Handler
<1>2. [handlers[c] EXCEPT !.await = "rejected"] \in Handler
  BY HandlerType DEF Handler
<1>3. CASE handlers' = [handlers EXCEPT ![c].await = "rejected"] /\ UNCHANGED place
  BY <1>1, <1>2, <1>3
<1>4. CASE /\ place' = [place EXCEPT ![handlers[c].message] = where]
           /\ handlers' = [handlers EXCEPT ![c] = NoHandler]
  BY <1>1, <1>4
<1> QED
  BY <1>3, <1>4 DEF Settles

LEMMA HandlesType ==
    ASSUME ConsumerTypeOK, NEW c \in Handlers, ~Awaits(c, "nothing"), NEW m,
           Handles(c, m)
    PROVE  /\ place' \in [Messages -> Places]
           /\ handlers' \in [Handlers -> {NoHandler} \cup Handler]
<1>1. CASE Settles(c, "dropped") \/ Settles(c, "ready")
  BY <1>1, SettlesType DEF Places
<1>2. CASE handlers' = [handlers EXCEPT ![c].await = "handle"] /\ UNCHANGED place
  <2>1. [handlers[c] EXCEPT !.await = "handle"] \in Handler
    BY HandlerType DEF Handler
  <2> QED
    BY <1>2, <2>1 DEF ConsumerTypeOK, Places, Handler
<1> QED
  BY <1>1, <1>2 DEF Handles

LEMMA CodesType ==
    ASSUME NEW outcome, NEW took \in BOOLEAN
    PROVE  Answered(outcome, took) \in RequestTypes
BY DEF Answered, CodeOf, RequestTypes

(* What a request that is being served is about. *)
Served == [await : {"useCase", "readBack"}, replica : Replicas, order : Orders,
           op : RequestOps \cup {"GetExecutionOrder"}, took : BOOLEAN]

LEMMA ServedType ==
    ASSUME ConsumerTypeOK, NEW c \in Clients, ~Asks(c)
    PROVE  requests[c] \in Served
BY DEF ConsumerTypeOK, RequestTypes, Served, Asks, Awaiting, NoRequest

LEMMA FrameType ==
    ASSUME NEW r \in Replicas, NEW await \in {"useCase", "readBack"},
           NEW op \in RequestOps \cup {"GetExecutionOrder"}, NEW o \in Orders
    PROVE  Frame(r, await, op, o) \in RequestTypes
BY DEF Frame, RequestTypes

LEMMA RequestType ==
    ASSUME ConsumerTypeOK, NEW c \in Clients, Request(c)
    PROVE  requests' \in [Clients -> RequestTypes]
<1>1. requests \in [Clients -> RequestTypes]
  BY DEF ConsumerTypeOK
<1>2. CASE \E out \in Outcomes : Serve(c, out)
  <2>1. PICK out \in Outcomes : Serve(c, out)
    BY <1>2
  <2>2. requests[c] \in Served
    BY <2>1, ServedType DEF Serve, Asks, Awaiting
  <2>3. PICK took \in BOOLEAN :
            \/ requests' = [requests EXCEPT ![c].took = took]
            \/ requests' = [requests EXCEPT ![c].took = took, ![c].await = "readBack"]
            \/ requests' = [requests EXCEPT ![c] = Answered(out, took)]
    <3> DEFINE took == requests[c].took \/ rows' # rows \/ outbox' # outbox
    <3>1. took \in BOOLEAN
      OBVIOUS
    <3>2. \/ requests' = [requests EXCEPT ![c].took = took]
          \/ requests' = [requests EXCEPT ![c].took = took, ![c].await = "readBack"]
          \/ requests' = [requests EXCEPT ![c] = Answered(out, took)]
      BY <2>1 DEF Serve
    <3> HIDE DEF took
    <3> QED
      BY <3>1, <3>2
  <2>4. /\ [requests[c] EXCEPT !.took = took] \in RequestTypes
        /\ [requests[c] EXCEPT !.took = took, !.await = "readBack"] \in RequestTypes
        /\ Answered(out, took) \in RequestTypes
    <3>1. [requests[c] EXCEPT !.took = took] \in Served
      BY <2>2 DEF Served
    <3>2. [requests[c] EXCEPT !.took = took, !.await = "readBack"] \in Served
      BY <2>2 DEF Served
    <3> QED
      BY <3>1, <3>2, CodesType DEF Served, RequestTypes
  <2>5. CASE requests' = [requests EXCEPT ![c].took = took]
    BY <1>1, <2>4, <2>5
  <2>6. CASE requests' = [requests EXCEPT ![c].took = took, ![c].await = "readBack"]
    <3>1. requests' = [requests EXCEPT ![c] =
                          [requests[c] EXCEPT !.took = took, !.await = "readBack"]]
      BY <1>1, <2>2, <2>6 DEF Served
    <3> QED
      BY <1>1, <2>4, <3>1
  <2> QED
    BY <1>1, <2>3, <2>4, <2>5, <2>6
<1>3. ASSUME NEW out, Answers(c, out), requests[c] \in Served
      PROVE  requests' \in [Clients -> RequestTypes]
  <2>1. Answered(out, requests[c].took) \in RequestTypes
    BY <1>3, CodesType DEF Served
  <2> QED
    BY <1>1, <1>3, <2>1 DEF Answers
<1>4. CASE ReadFails(c) \/ \E out \in Outcomes : ReadBack(c, out)
  <2>1. requests[c] \in Served
    BY <1>4, ServedType DEF ReadFails, ReadBack, Asks, Awaiting
  <2> QED
    BY <1>3, <1>4, <2>1 DEF ReadFails, ReadBack
<1>5. CASE BadRequest(c)
  BY <1>1, <1>5, CodesType DEF BadRequest
<1>6. CASE \E r \in Replicas, o \in Orders : Get(r, c, o)
  BY <1>1, <1>6, FrameType DEF Get
<1>7. CASE \E r \in Replicas, o \in Orders, op \in RequestOps,
              d \in Diagnoses \cup {NoDiagnosis} : Patch(r, c, op, o, d)
  BY <1>1, <1>7, FrameType DEF Patch
<1> QED
  BY <1>2, <1>4, <1>5, <1>6, <1>7 DEF Request

LEMMA ConsumerTypeInit == ConsumerInit => ConsumerTypeOK
BY FaultsAssumption
   DEF ConsumerInit, HttpInit, ConsumerTypeOK, RequestTypes

LEMMA FaultType ==
    ASSUME ConsumerTypeOK, Fault \/ UNCHANGED faults
    PROVE  faults' \in 0..MaxFaults
BY FaultsAssumption DEF ConsumerTypeOK, Fault

(* A record never bears the id that a message without one lacks. *)
LEMMA RecordType ==
    ASSUME ConsumerTypeOK, NEW c \in Handlers
    PROVE  RecordOf(c) \subseteq {m.id : m \in Messages} \ {NoId}
<1>1. CASE Awaits(c, "markProcessed")
  <2>1. handlers[c].message \in Messages
    BY <1>1, HandlerType DEF Awaits
  <2> QED
    BY <2>1 DEF RecordOf
<1> QED
  BY <1>1 DEF RecordOf

LEMMA ConsumerTypeNext ==
    ASSUME ConsumerTypeOK, [ConsumerNext]_allVars
    PROVE  ConsumerTypeOK'
<1> DEFINE Rest == /\ requests' \in [Clients -> RequestTypes]
                   /\ told' \subseteq Orders
                   /\ consumer' \in [Replicas -> {"booting", "consuming", "deaf"}]
                   /\ processed' \subseteq {m.id : m \in Messages} \ {NoId}
                   /\ handled' \subseteq Messages
                   /\ faults' \in 0..MaxFaults
           Moved == /\ place' \in [Messages -> Places]
                    /\ handlers' \in [Handlers -> {NoHandler} \cup Handler]
<1>0. ConsumerTypeOK' <=> Rest /\ Moved
  BY DEF ConsumerTypeOK, Places, Handler
<1>1. /\ UNCHANGED requests => requests' \in [Clients -> RequestTypes]
      /\ UNCHANGED told => told' \subseteq Orders
      /\ UNCHANGED consumer =>
             consumer' \in [Replicas -> {"booting", "consuming", "deaf"}]
      /\ UNCHANGED processed => processed' \subseteq {m.id : m \in Messages} \ {NoId}
      /\ UNCHANGED handled => handled' \subseteq Messages
      /\ UNCHANGED place => place' \in [Messages -> Places]
      /\ UNCHANGED handlers => handlers' \in [Handlers -> {NoHandler} \cup Handler]
  BY DEF ConsumerTypeOK, Places, Handler
<1>2. Fault \/ UNCHANGED faults => faults' \in 0..MaxFaults
  BY FaultType
<1> HIDE DEF Rest, Moved
<1>3. CASE UNCHANGED allVars
  BY <1>0, <1>1, <1>2, <1>3 DEF allVars, consumerVars, Rest, Moved
<1>4. ASSUME NEW m \in Messages, Publish(m)
      PROVE  ConsumerTypeOK'
  <2>1. Moved
    BY <1>1, <1>4 DEF Publish, Moved, ConsumerTypeOK, Places
  <2> QED
    BY <1>0, <1>1, <1>2, <1>4, <2>1 DEF Publish, Rest
<1>5. ASSUME NEW m \in Messages, NEW r \in Replicas, NEW c \in Handlers, Deliver(r, c, m)
      PROVE  ConsumerTypeOK'
  <2>1. [await |-> "wasProcessed", replica |-> r, message |-> m] \in Handler
    BY DEF Handler
  <2>2. Moved
    BY <1>5, <2>1 DEF Deliver, Moved, ConsumerTypeOK, Places, Handler
  <2> QED
    BY <1>0, <1>1, <1>2, <1>5, <2>2 DEF Deliver, Rest
<1>6. ASSUME NEW c \in Handlers, Recall(c)
      PROVE  ConsumerTypeOK'
  <2>1. Moved
    <3>1. ~Awaits(c, "nothing")
      BY <1>6 DEF Recall, Awaits
    <3> QED
      BY <1>6, <3>1, SettlesType, HandlesType DEF Recall, Moved, Places
  <2> QED
    BY <1>0, <1>1, <1>2, <1>6, <2>1 DEF Recall, Rest
<1>7. ASSUME NEW c \in Handlers, Handle(c)
      PROVE  ConsumerTypeOK'
  <2>1. ~Awaits(c, "nothing")
    BY <1>7 DEF Handle, Awaits
  <2>2. PICK out \in Outcomes :
            /\ Step(c, out)
            /\ Counted(c, out)
            /\ \/ /\ out = "pending"
                  /\ UNCHANGED <<place, handlers, handled>>
               \/ /\ out = "ok"
                  /\ handlers' = [handlers EXCEPT ![c].await = "markProcessed"]
                  /\ handled' = handled \cup {handlers[c].message}
                  /\ UNCHANGED place
               \/ /\ out \in Failures
                  /\ Settles(c, IF out \in Permanent THEN "dropped" ELSE "ready")
                  /\ UNCHANGED handled
    BY <1>7 DEF Handle
  <2>3. Moved
    <3>1. [handlers[c] EXCEPT !.await = "markProcessed"] \in Handler
      BY <2>1, HandlerType DEF Handler
    <3>2. CASE handlers' = [handlers EXCEPT ![c].await = "markProcessed"] /\ UNCHANGED place
      BY <3>1, <3>2 DEF Moved, ConsumerTypeOK, Places, Handler
    <3>3. CASE UNCHANGED <<place, handlers>>
      BY <1>1, <3>3 DEF Moved
    <3>4. ASSUME NEW where \in {"dropped", "ready"}, Settles(c, where)
          PROVE  Moved
      BY <2>1, <3>4, SettlesType DEF Moved, Places
    <3> QED
      BY <2>2, <3>2, <3>3, <3>4
  <2>4. handled' \subseteq Messages
    BY <1>1, <2>1, <2>2, HandlerType DEF ConsumerTypeOK
  <2>5. Fault \/ UNCHANGED faults
    BY <2>2 DEF Counted
  <2> QED
    BY <1>0, <1>1, <1>2, <1>7, <2>3, <2>4, <2>5 DEF Handle, Rest
<1>8. ASSUME NEW c \in Handlers, MarkProcessed(c)
      PROVE  ConsumerTypeOK'
  <2>1. ~Awaits(c, "nothing")
    BY <1>8 DEF MarkProcessed, Awaits
  <2>2. Moved
    BY <1>8, <2>1, SettlesType DEF MarkProcessed, Moved, Places
  <2>3. processed' \subseteq {m.id : m \in Messages} \ {NoId}
    BY <1>1, <1>8, <2>1, HandlerType DEF MarkProcessed, ConsumerTypeOK
  <2> QED
    BY <1>0, <1>1, <1>2, <1>8, <2>2, <2>3 DEF MarkProcessed, Rest
<1>9. ASSUME NEW c \in Handlers, StatementFails(c)
      PROVE  ConsumerTypeOK'
  <2>1. ~Awaits(c, "nothing")
    BY <1>9 DEF StatementFails, Awaits
  <2>2. Moved
    BY <1>9, <2>1, SettlesType DEF StatementFails, Moved, Places
  <2>3. processed' \subseteq {m.id : m \in Messages} \ {NoId}
    BY <1>9, RecordType DEF StatementFails, ConsumerTypeOK
  <2> QED
    BY <1>0, <1>1, <1>2, <1>9, <2>2, <2>3 DEF StatementFails, Rest
<1>10. ASSUME NEW c \in Clients, Request(c)
       PROVE  ConsumerTypeOK'
  <2>1. Fault \/ UNCHANGED faults
    BY <1>10 DEF Request, Counted
  <2>2. requests' \in [Clients -> RequestTypes]
    BY <1>10, RequestType
  <2> QED
    BY <1>0, <1>1, <1>2, <1>10, <2>1, <2>2 DEF Request, Rest, Moved
<1>11. ASSUME NEW o \in Orders, Tell(o)
       PROVE  ConsumerTypeOK'
  <2>1. told' \subseteq Orders
    BY <1>11 DEF Tell, ConsumerTypeOK
  <2> QED
    BY <1>0, <1>1, <1>2, <1>11, <2>1 DEF Tell, Rest, Moved
<1>12. ASSUME NEW r \in Replicas, Subscribe(r)
       PROVE  ConsumerTypeOK'
  <2>1. consumer' \in [Replicas -> {"booting", "consuming", "deaf"}]
    BY <1>12 DEF Subscribe, ConsumerTypeOK
  <2> QED
    BY <1>0, <1>1, <1>2, <1>12, <2>1 DEF Subscribe, Rest, Moved
<1>13. ASSUME NEW r \in Replicas, ChannelCloses(r)
       PROVE  ConsumerTypeOK'
  <2>1. consumer' \in [Replicas -> {"booting", "consuming", "deaf"}]
    BY <1>13 DEF ChannelCloses, ConsumerTypeOK
  <2>2. place' \in [Messages -> Places]
    BY <1>13 DEF ChannelCloses, ConsumerTypeOK, Places
  <2> QED
    BY <1>0, <1>1, <1>2, <1>13, <2>1, <2>2 DEF ChannelCloses, Rest, Moved
<1>14. ASSUME NEW r \in Replicas, Restarts(r), Fault \/ UNCHANGED faults
       PROVE  ConsumerTypeOK'
  <2>1. consumer' \in [Replicas -> {"booting", "consuming", "deaf"}]
    BY <1>14 DEF Restarts, ConsumerTypeOK
  <2>2. Moved
    BY <1>14 DEF Restarts, ConsumerTypeOK, Places, Handler, Moved
  <2>3. requests' \in [Clients -> RequestTypes]
    BY <1>14 DEF Restarts, ConsumerTypeOK, RequestTypes
  <2>4. processed' \subseteq {m.id : m \in Messages} \ {NoId}
    BY <1>14, RecordType DEF Restarts, ConsumerTypeOK
  <2> QED
    BY <1>0, <1>1, <1>2, <1>14, <2>1, <2>2, <2>3, <2>4 DEF Restarts, Rest
<1>15. ASSUME NEW r \in Replicas, Crash(r) \/ UnhandledRejection(r)
       PROVE  Restarts(r) /\ (Fault \/ UNCHANGED faults)
  BY <1>15 DEF Crash, UnhandledRejection
<1> QED
  BY <1>3, <1>4, <1>5, <1>6, <1>7, <1>8, <1>9, <1>10, <1>11, <1>12, <1>13, <1>14, <1>15
     DEF ConsumerNext, Delivered, Advance

(* Every variable keeps its type, the records of events included: no event *)
(* without an id is ever remembered under one.                             *)
THEOREM ConsumerTypeCorrect == ConsumerSpec => []ConsumerTypeOK
BY ConsumerTypeInit, ConsumerTypeNext, PTL DEF ConsumerSpec

-----------------------------------------------------------------------------
(***************************************************************************)
(* Acknowledgements.  An event may be acknowledged once its use case has   *)
(* ended well; a handler that is about to record it knows that it has.     *)
(***************************************************************************)
HandledInv ==
    /\ AckedEventsWereHandled
    /\ \A c \in Handlers : Awaits(c, "markProcessed") => handlers[c].message \in handled

(* What a handler records is the id of the event whose use case ended well. *)
LEMMA RecordsAreHandled ==
    ASSUME ConsumerTypeOK, HandledInv, NEW c \in Handlers,
           NEW m \in Messages, m.id \in RecordOf(c)
    PROVE  m \in handled
<1>1. Awaits(c, "markProcessed") /\ m.id = handlers[c].message.id /\ m.id # NoId
  BY DEF RecordOf
<1>2. handlers[c].message \in Messages
  BY <1>1, HandlerType DEF Awaits
<1> QED
  BY <1>1, <1>2, IdsAssumption DEF HandledInv

LEMMA HandledKept ==
    ASSUME HandledInv, handled \subseteq handled',
           \A m \in Messages : place'[m] = "acked" => place[m] = "acked" \/ m \in handled',
           \A m \in Messages : m.id \in processed' => m.id \in processed \/ m \in handled',
           \A b \in Handlers : handlers'[b].await = "markProcessed" =>
               \/ Awaits(b, "markProcessed") /\ handlers'[b].message = handlers[b].message
               \/ handlers'[b].message \in handled'
    PROVE  HandledInv'
BY DEF HandledInv, AckedEventsWereHandled, Awaits

(* Settling an event acknowledges no other, and starts no recording. *)
LEMMA SettlesHandled ==
    ASSUME ConsumerTypeOK, NEW c \in Handlers, ~Awaits(c, "nothing"),
           NEW where \in Places, Settles(c, where)
    PROVE  /\ \A m \in Messages : place'[m] = "acked" =>
                  \/ place[m] = "acked"
                  \/ m = handlers[c].message /\ where = "acked"
           /\ \A b \in Handlers : handlers'[b].await = "markProcessed" =>
                  Awaits(b, "markProcessed") /\ handlers'[b].message = handlers[b].message
<1>1. /\ place \in [Messages -> Places]
      /\ handlers \in [Handlers -> {NoHandler} \cup Handler]
  BY DEF ConsumerTypeOK, Places, Handler
<1>2. handlers[c] \in Handler /\ handlers[c].message \in Messages
  BY HandlerType
<1>3. CASE handlers' = [handlers EXCEPT ![c].await = "rejected"] /\ UNCHANGED place
  <2>1. ASSUME NEW b \in Handlers, handlers'[b].await = "markProcessed"
        PROVE  Awaits(b, "markProcessed") /\ handlers'[b].message = handlers[b].message
    <3>1. b # c
      BY <1>1, <1>2, <1>3, <2>1 DEF Handler
    <3> QED
      BY <1>1, <1>3, <2>1, <3>1 DEF Awaits
  <2> QED
    BY <1>3, <2>1
<1>4. CASE /\ place' = [place EXCEPT ![handlers[c].message] = where]
           /\ handlers' = [handlers EXCEPT ![c] = NoHandler]
  BY <1>1, <1>2, <1>4 DEF Awaits, NoHandler
<1> QED
  BY <1>3, <1>4 DEF Settles

LEMMA HandlesHandled ==
    ASSUME ConsumerTypeOK, HandledInv, NEW c \in Handlers, ~Awaits(c, "nothing"),
           NEW m, Handles(c, m), UNCHANGED <<processed, handled>>
    PROVE  HandledInv'
<1>1. CASE Settles(c, "dropped") \/ Settles(c, "ready")
  BY <1>1, SettlesHandled, HandledKept DEF Places
<1>2. CASE handlers' = [handlers EXCEPT ![c].await = "handle"] /\ UNCHANGED place
  <2>1. handlers[c] \in Handler /\ handlers \in [Handlers -> {NoHandler} \cup Handler]
    BY HandlerType DEF ConsumerTypeOK, Handler
  <2>2. ASSUME NEW b \in Handlers, handlers'[b].await = "markProcessed"
        PROVE  Awaits(b, "markProcessed") /\ handlers'[b].message = handlers[b].message
    <3>1. b # c
      BY <1>2, <2>1, <2>2 DEF Handler
    <3> QED
      BY <1>2, <2>1, <2>2, <3>1 DEF Awaits
  <2> QED
    BY <1>2, <2>2, HandledKept
<1> QED
  BY <1>1, <1>2 DEF Handles

LEMMA HandledNext ==
    ASSUME ConsumerTypeOK, HandledInv, [ConsumerNext]_allVars
    PROVE  HandledInv'
<1> USE DEF Places
<1>0. /\ place \in [Messages -> Places]
      /\ handlers \in [Handlers -> {NoHandler} \cup Handler]
  BY DEF ConsumerTypeOK, Handler
<1>1. CASE UNCHANGED <<place, handlers, processed, handled>>
  BY <1>1, HandledKept DEF Awaits
<1>2. ASSUME NEW m \in Messages, Publish(m)
      PROVE  HandledInv'
  BY <1>0, <1>2, HandledKept DEF Publish, Awaits
<1>3. ASSUME NEW m \in Messages, NEW r \in Replicas, NEW c \in Handlers, Deliver(r, c, m)
      PROVE  HandledInv'
  <2>1. \A n \in Messages : place'[n] = "acked" => place[n] = "acked"
    BY <1>0, <1>3, ReplicasAssumption DEF Deliver
  <2>2. ASSUME NEW b \in Handlers, handlers'[b].await = "markProcessed"
        PROVE  Awaits(b, "markProcessed") /\ handlers'[b].message = handlers[b].message
    BY <1>0, <1>3, <2>2 DEF Deliver, Awaits
  <2> QED
    BY <1>3, <2>1, <2>2, HandledKept DEF Deliver
<1>4. ASSUME NEW c \in Handlers, Recall(c)
      PROVE  HandledInv'
  <2>1. ~Awaits(c, "nothing") /\ UNCHANGED <<processed, handled>>
    BY <1>4 DEF Recall, Awaits
  <2>2. CASE handlers[c].message.id \in processed /\ Settles(c, "acked")
    <3>1. handlers[c].message \in handled
      BY <2>1, <2>2, HandlerType DEF HandledInv, AckedEventsWereHandled
    <3> QED
      BY <2>1, <2>2, <3>1, SettlesHandled, HandledKept
  <2>3. CASE Handles(c, handlers[c].message)
    BY <2>1, <2>3, HandlesHandled
  <2> QED
    BY <1>4, <2>2, <2>3 DEF Recall
<1>5. ASSUME NEW c \in Handlers, Handle(c)
      PROVE  HandledInv'
  <2>1. ~Awaits(c, "nothing") /\ UNCHANGED processed
    BY <1>5 DEF Handle, Awaits
  <2>2. CASE UNCHANGED <<place, handlers, handled>>
    BY <1>1, <2>1, <2>2
  <2>3. CASE /\ handlers' = [handlers EXCEPT ![c].await = "markProcessed"]
             /\ handled' = handled \cup {handlers[c].message}
             /\ UNCHANGED place
    <3>1. handlers[c] \in Handler
      BY <2>1, HandlerType
    <3>2. ASSUME NEW b \in Handlers, handlers'[b].await = "markProcessed"
          PROVE  \/ /\ Awaits(b, "markProcessed")
                    /\ handlers'[b].message = handlers[b].message
                 \/ handlers'[b].message \in handled'
      <4>1. CASE b = c
        BY <1>0, <2>3, <3>1, <4>1 DEF Handler
      <4>2. CASE b # c
        BY <1>0, <2>3, <3>2, <4>2 DEF Awaits
      <4> QED
        BY <4>1, <4>2
    <3> QED
      BY <2>1, <2>3, <3>2, HandledKept
  <2>4. ASSUME NEW where \in {"dropped", "ready"}, Settles(c, where), UNCHANGED handled
        PROVE  HandledInv'
    BY <2>1, <2>4, SettlesHandled, HandledKept
  <2> QED
    BY <1>5, <2>2, <2>3, <2>4 DEF Handle
<1>6. ASSUME NEW c \in Handlers, MarkProcessed(c)
      PROVE  HandledInv'
  <2>1. ~Awaits(c, "nothing") /\ UNCHANGED handled
    BY <1>6 DEF MarkProcessed, Awaits
  <2>2. handlers[c].message \in handled /\ handlers[c].message \in Messages
    BY <1>6, <2>1, HandlerType DEF MarkProcessed, HandledInv
  <2>3. CASE /\ processed' = processed \cup ({handlers[c].message.id} \ {NoId})
             /\ Settles(c, "acked")
    <3>1. \A m \in Messages : m.id \in processed' => m.id \in processed \/ m \in handled'
      BY <2>1, <2>2, <2>3, IdsAssumption
    <3> QED
      BY <2>1, <2>2, <2>3, <3>1, SettlesHandled, HandledKept
  <2>4. CASE Settles(c, "ready") /\ UNCHANGED processed
    BY <2>1, <2>4, SettlesHandled, HandledKept
  <2> QED
    BY <1>6, <2>3, <2>4 DEF MarkProcessed
<1>7. ASSUME NEW c \in Handlers, StatementFails(c)
      PROVE  HandledInv'
  <2>1. ~Awaits(c, "nothing")
    BY <1>7 DEF StatementFails, Awaits
  <2>2. \A m \in Messages : m.id \in processed' => m.id \in processed \/ m \in handled
    BY <1>7, RecordsAreHandled DEF StatementFails
  <2> QED
    BY <1>7, <2>1, <2>2, SettlesHandled, HandledKept DEF StatementFails
<1>8. ASSUME NEW r \in Replicas, ChannelCloses(r)
      PROVE  HandledInv'
  BY <1>0, <1>8, HandledKept DEF ChannelCloses, Awaits
<1>9. ASSUME NEW r \in Replicas, Restarts(r)
      PROVE  HandledInv'
  <2>1. processed' \subseteq processed \cup UNION {RecordOf(c) : c \in Handlers}
    BY <1>9 DEF Restarts
  <2>2. \A m \in Messages : m.id \in processed' => m.id \in processed \/ m \in handled
    BY <2>1, RecordsAreHandled
  <2> QED
    BY <1>0, <1>9, <2>2, HandledKept DEF Restarts, Awaits, NoHandler
<1> QED
  BY <1>1, <1>2, <1>3, <1>4, <1>5, <1>6, <1>7, <1>8, <1>9
     DEF ConsumerNext, Delivered, Advance, Request, Tell, Subscribe, Crash,
         UnhandledRejection, allVars, consumerVars

(* No event is acknowledged, nor remembered so that its next delivery      *)
(* would be, before its use case has ended well, for any number of         *)
(* replicas, closed channels, crashes and deliveries of it.                *)
THEOREM AckedAreHandled == ConsumerSpec => []AckedEventsWereHandled
<1>1. ConsumerInit => HandledInv
  BY DEF ConsumerInit, HandledInv, AckedEventsWereHandled, Awaits, NoHandler
<1>2. HandledInv => AckedEventsWereHandled
  BY DEF HandledInv
<1> QED
  BY <1>1, <1>2, ConsumerTypeInit, ConsumerTypeNext, HandledNext, PTL DEF ConsumerSpec

-----------------------------------------------------------------------------
(***************************************************************************)
(* The use cases below the consumers.  A step of the composition is one of *)
(* theirs, or ends a replica and with it some of its calls at once; so all *)
(* that is proved of the use cases stays true under their callers.         *)
(***************************************************************************)
Resets ==
    /\ \E gone \in SUBSET Calls :
          calls' = [c \in Calls |-> IF c \in gone THEN Idle ELSE calls[c]]
    /\ UNCHANGED database

LEMMA OpOfType ==
    ASSUME NEW m \in Messages
    PROVE  /\ m.order \in Orders /\ OpOf(m.key) \in UseCases
           /\ OpOf(m.key) = "EnqueueForExecution" => m.key # "order.received"
<1>1. m \in Message
  BY MessagesAssumption
<1>2. m.key \in RoutingKeys /\ m.order \in Orders
  BY <1>1 DEF Message
<1>3. CASE m.key = "order.received"
  <2>1. OpOf(m.key) = "EnqueueForDiagnosis"
    BY <1>3 DEF OpOf
  <2> QED
    BY <1>2, <2>1, UseCasesList
<1>4. CASE m.key = "payment.approved"
  <2>1. OpOf(m.key) = "EnqueueForExecution"
    BY <1>4 DEF OpOf
  <2> QED
    BY <1>2, <1>4, <2>1, UseCasesList DEF Changes
<1>5. CASE m.key \in {"payment.failed", "quotation.rejected"}
  <2>1. OpOf(m.key) = "CancelExecution"
    BY <1>5 DEF OpOf
  <2> QED
    BY <1>2, <2>1, UseCasesList DEF Changes
<1> QED
  BY <1>2, <1>3, <1>4, <1>5 DEF RoutingKeys

LEMMA BeginNext ==
    ASSUME NEW c \in Calls, NEW op \in UseCases, NEW o \in Orders,
           NEW d \in Diagnoses \cup {NoDiagnosis}, Begin(c, op, o, d)
    PROVE  Next
BY DEF Next

LEMMA HandlesNext ==
    ASSUME ConsumerTypeOK, NEW c \in Handlers, NEW m \in Messages, Handles(c, m)
    PROVE  [Next]_vars
<1>1. CASE Begin(c, OpOf(m.key), m.order, NoDiagnosis)
  BY <1>1, OpOfType, BeginNext, HandlersAssumption
<1> QED
  BY <1>1 DEF Handles

LEMMA RequestNext ==
    ASSUME NEW c \in Clients, Request(c)
    PROVE  [Next]_vars
<1>1. c \in Calls
  BY ClientsAssumption
<1>2. CASE \E out \in Outcomes : Serve(c, out)
  BY <1>1, <1>2 DEF Serve, Next
<1>3. CASE \E r \in Replicas, o \in Orders, op \in RequestOps,
              d \in Diagnoses \cup {NoDiagnosis} : Patch(r, c, op, o, d)
  <2>1. RequestOps \subseteq UseCases
    BY UseCasesList DEF RequestOps, Changes
  <2> QED
    BY <1>1, <1>3, <2>1, BeginNext DEF Patch
<1>4. CASE UNCHANGED vars
  BY <1>4
<1> QED
  BY <1>2, <1>3, <1>4 DEF Request, ReadBack, ReadFails, BadRequest, Get

LEMMA RestartsResets ==
    ASSUME NEW r, Restarts(r)
    PROVE  Resets
<1> DEFINE gone == {c \in Calls :
                       \/ /\ c \in {b \in Handlers : /\ ~Awaits(b, "nothing")
                                                     /\ handlers[b].replica = r}
                       \/ /\ c \in {b \in Clients : /\ ~Asks(b)
                                                    /\ requests[b].replica = r}}
<1>1. calls' = [c \in Calls |-> IF c \in gone THEN Idle ELSE calls[c]]
  BY DEF Restarts
<1>2. gone \in SUBSET Calls
  OBVIOUS
<1> HIDE DEF gone
<1> QED
  BY <1>1, <1>2 DEF Restarts, Resets

LEMMA ConsumerStep ==
    ASSUME ConsumerTypeOK, [ConsumerNext]_allVars
    PROVE  [Next]_vars \/ Resets
<1>1. ASSUME NEW c \in Handlers, Recall(c)
      PROVE  [Next]_vars
  <2>1. handlers[c].message \in Messages
    BY <1>1, HandlerType DEF Recall, Awaits
  <2> QED
    BY <1>1, <2>1, HandlesNext DEF Recall
<1>2. ASSUME NEW c \in Handlers, Handle(c)
      PROVE  [Next]_vars
  BY <1>2, HandlersAssumption DEF Handle, Next
<1>3. CASE UNCHANGED vars
  BY <1>3
<1> QED
  BY <1>1, <1>2, <1>3, RequestNext, RestartsResets
     DEF ConsumerNext, Publish, Delivered, Deliver, Advance, MarkProcessed, StatementFails,
         Tell, Subscribe, Crash, UnhandledRejection, ChannelCloses, allVars

(* The end of some calls disturbs no invariant of the use cases. *)
LEMMA ResetsCalls ==
    ASSUME TypeInv, Resets, NEW c \in Calls
    PROVE  /\ calls'[c] = calls[c] \/ calls'[c] = Idle
           /\ InFlight(c)' => InFlight(c) /\ calls'[c] = calls[c]
BY DEF Resets, InFlight, Idle

LEMMA ResetsKeep ==
    ASSUME TypeInv, Resets
    PROVE  /\ TypeInv'
           /\ PositionsInv => PositionsInv'
           /\ AnnouncedInv => AnnouncedInv'
           /\ PaidInv => PaidInv'
<1>1. UNCHANGED <<rows, queueSeq, outbox, paid, overlapped, ahead>>
  BY DEF Resets, database
<1>2. TypeInv'
  <2>1. calls' \in [Calls -> Call \cup {Idle}]
    BY DEF Resets, TypeInv, TypeOK
  <2>2. AwaitsOK'
    BY ResetsCalls DEF AwaitsOK, TypeInv
  <2> QED
    BY <1>1, <2>1, <2>2 DEF TypeInv, TypeOK
<1>3. ASSUME PositionsInv
      PROVE  PositionsInv'
  <2>1. \A o \in Orders, n \in Nat : Holds(o, n)' => Holds(o, n)
    BY <1>1, ResetsCalls DEF Holds
  <2> QED
    BY <1>1, <1>3, <2>1 DEF PositionsInv
<1>4. ASSUME AnnouncedInv
      PROVE  AnnouncedInv'
  <2>1. \A o \in Orders : Told(o, rows[o])'
    BY <1>1, <1>4 DEF AnnouncedInv, Told, ToldDiagnosis, Announced
  <2>2. ASSUME NEW c \in Calls, InFlight(c)'
        PROVE  CallTold(calls[c])'
    <3>1. CallTold(calls[c]) /\ calls'[c] = calls[c]
      BY <1>4, <2>2, ResetsCalls DEF AnnouncedInv
    <3> QED
      BY <1>1, <3>1, CallToldStays DEF OutboxGrows
  <2>3. OutcomeFollowsDiagnosis'
    BY <1>1, <1>4 DEF AnnouncedInv, OutcomeFollowsDiagnosis
  <2> QED
    BY <2>1, <2>2, <2>3 DEF AnnouncedInv
<1>5. ASSUME PaidInv
      PROVE  PaidInv'
  BY <1>1, <1>5, ResetsCalls DEF PaidInv
<1> QED
  BY <1>2, <1>3, <1>4, <1>5

UseCasesInv == TypeInv /\ PositionsInv /\ AnnouncedInv /\ PaidInv

LEMMA UseCasesInvInit == Init => UseCasesInv
<1>1. Init => PaidInv
  BY DEF Init, PaidInv, InFlight, Idle, NoOrder, Absent, PaidStages
<1> QED
  BY <1>1, TypeInvInit, PositionsInit, AnnouncedInit DEF UseCasesInv

LEMMA UseCasesInvNext ==
    ASSUME ConsumerTypeOK, UseCasesInv, [ConsumerNext]_allVars
    PROVE  UseCasesInv'
BY ConsumerStep, ResetsKeep, TypeInvNext, PositionsNext, AnnouncedNext, PaidNext
   DEF UseCasesInv

(* Under consumers and requests that crash, retry and deliver twice, the   *)
(* positions stay unique, every stage is announced, no outcome precedes    *)
(* its diagnosis in the outbox and no repair runs unpaid.                  *)
THEOREM UseCasesComposed ==
    ConsumerSpec => [](/\ TypeOK /\ UniquePositions /\ EveryStageIsAnnounced
                       /\ OutcomeFollowsDiagnosis /\ RepairOnlyAfterPayment)
<1>1. UseCasesInv => /\ TypeOK /\ UniquePositions /\ EveryStageIsAnnounced
                     /\ OutcomeFollowsDiagnosis /\ RepairOnlyAfterPayment
  <2>1. TypeInv /\ PositionsInv => UniquePositions
    BY DEF PositionsInv, Holds, UniquePositions, TypeInv, TypeOK, Order
  <2>2. AnnouncedInv => EveryStageIsAnnounced /\ OutcomeFollowsDiagnosis
    BY DEF AnnouncedInv, Told, ToldDiagnosis, EveryStageIsAnnounced
  <2>3. PaidInv => RepairOnlyAfterPayment
    BY DEF PaidInv, PaidStages, RepairOnlyAfterPayment
  <2> QED
    BY <2>1, <2>2, <2>3 DEF UseCasesInv, TypeInv
<1>2. ConsumerSpec => [](ConsumerTypeOK /\ UseCasesInv)
  BY ConsumerTypeInit, ConsumerTypeNext, UseCasesInvInit, UseCasesInvNext, PTL
     DEF ConsumerSpec
<1> QED
  BY <1>1, <1>2, PTL

(* Whatever is delivered twice, at once or after a crash, an order that    *)
(* has a row is not received again.                                        *)
THEOREM ReceivedComposed == ConsumerSpec => OrdersAreReceivedOnce
<1> DEFINE Once == \A o \in Orders : /\ rows[o].status # Absent
                                     /\ rows'[o].status = "IN_DIAGNOSIS_QUEUE"
                                     => rows'[o] = rows[o]
<1>1. Init => TypeInv /\ ReceivedInv
  BY TypeInvInit DEF Init, ReceivedInv, CallReceived, Idle
<1>2. ASSUME ConsumerTypeOK, TypeInv, ReceivedInv, [ConsumerNext]_allVars
      PROVE  TypeInv' /\ ReceivedInv' /\ [Once]_vars
  <2>1. CASE [Next]_vars
    BY <1>2, <2>1, TypeInvNext, ReceivedNext DEF RowGoesOn
  <2>2. CASE Resets
    <3>1. UNCHANGED rows
      BY <2>2 DEF Resets, database
    <3>2. ASSUME NEW c \in Calls  PROVE CallReceived(calls[c])'
      <4>1. CASE calls'[c] = calls[c]
        BY <1>2, <3>1, <4>1 DEF ReceivedInv, CallReceived
      <4>2. CASE calls'[c] = Idle
        BY <4>2 DEF CallReceived, Idle
      <4> QED
        BY <1>2, <2>2, <4>1, <4>2, ResetsCalls
    <3> QED
      BY <1>2, <2>2, <3>1, <3>2, ResetsKeep DEF ReceivedInv
  <2> QED
    BY <1>2, <2>1, <2>2, ConsumerStep
<1>3. Init /\ ConsumerInit /\ [][ConsumerNext]_allVars => [][Once]_vars
  BY <1>1, <1>2, ConsumerTypeInit, ConsumerTypeNext, PTL
<1> QED
  BY <1>3 DEF ConsumerSpec, OrdersAreReceivedOnce

-----------------------------------------------------------------------------
(***************************************************************************)
(* Told diagnoses.  Billing approves what it was told of; an approval on   *)
(* its way, the call that serves it and the payment it commits are of an   *)
(* order told, and an outcome is only written for an order paid.           *)
(***************************************************************************)
PublishedInv ==
    /\ \A m \in Messages :
          place[m] # "unpublished" /\ m.key # "order.received" => m.order \in told
    /\ \A c \in Handlers : ~Awaits(c, "nothing") => place[handlers[c].message] # "unpublished"

ServedInv ==
    /\ \A c \in Calls :
          InFlight(c) /\ calls[c].op = "EnqueueForExecution" => calls[c].order \in told
    /\ paid \subseteq told
    /\ \A i \in 1..Len(outbox) :
          outbox[i].type # "diagnostic.finished" => outbox[i].order \in paid

LEMMA SettlesPublished ==
    ASSUME ConsumerTypeOK, PublishedInv, NEW c \in Handlers, ~Awaits(c, "nothing"),
           NEW where \in Places \ {"unpublished"}, Settles(c, where), told' = told
    PROVE  PublishedInv'
<1>1. /\ place \in [Messages -> Places]
      /\ handlers \in [Handlers -> {NoHandler} \cup Handler]
      /\ handlers[c] \in Handler /\ handlers[c].message \in Messages
  BY HandlerType DEF ConsumerTypeOK, Places, Handler
<1>2. place[handlers[c].message] # "unpublished"
  BY DEF PublishedInv
<1>3. \A m \in Messages : place'[m] # "unpublished" <=> place[m] # "unpublished"
  BY <1>1, <1>2 DEF Settles
<1>4. \A b \in Handlers : handlers'[b].await # "nothing" =>
          ~Awaits(b, "nothing") /\ handlers'[b].message = handlers[b].message
  <2>1. CASE handlers' = [handlers EXCEPT ![c].await = "rejected"]
    BY <1>1, <2>1 DEF Awaits, Handler
  <2>2. CASE handlers' = [handlers EXCEPT ![c] = NoHandler]
    BY <1>1, <2>2 DEF Awaits, NoHandler
  <2> QED
    BY <2>1, <2>2 DEF Settles
<1>5. \A b \in Handlers : ~Awaits(b, "nothing") => handlers[b].message \in Messages
  BY HandlerType
<1> QED
  BY <1>3, <1>4, <1>5 DEF PublishedInv, Awaits

(* A handler that goes on with its message. *)
LEMMA GoesOnPublished ==
    ASSUME ConsumerTypeOK, PublishedInv, NEW c \in Handlers, ~Awaits(c, "nothing"),
           NEW await, handlers' = [handlers EXCEPT ![c].await = await],
           place' = place, told' = told
    PROVE  PublishedInv'
<1>1. /\ handlers \in [Handlers -> {NoHandler} \cup Handler]
      /\ handlers[c] \in Handler
  BY HandlerType DEF ConsumerTypeOK, Handler
<1>2. \A b \in Handlers : handlers'[b].await # "nothing" =>
          ~Awaits(b, "nothing") /\ handlers'[b].message = handlers[b].message
  BY <1>1 DEF Awaits, Handler
<1> QED
  BY <1>2 DEF PublishedInv, Awaits

LEMMA PublishedNext ==
    ASSUME ConsumerTypeOK, PublishedInv, [ConsumerNext]_allVars
    PROVE  PublishedInv'
<1>0. /\ place \in [Messages -> Places]
      /\ handlers \in [Handlers -> {NoHandler} \cup Handler]
  BY DEF ConsumerTypeOK, Places, Handler
<1>1. CASE UNCHANGED <<place, handlers>> /\ told \subseteq told'
  BY <1>1 DEF PublishedInv, Awaits
<1>2. ASSUME NEW m \in Messages, Publish(m)
      PROVE  PublishedInv'
  BY <1>0, <1>2 DEF Publish, PublishedInv, Awaits
<1>3. ASSUME NEW m \in Messages, NEW r \in Replicas, NEW c \in Handlers, Deliver(r, c, m)
      PROVE  PublishedInv'
  <2>1. \A n \in Messages : place'[n] # "unpublished" <=> place[n] # "unpublished"
    BY <1>0, <1>3, ReplicasAssumption DEF Deliver
  <2>2. ASSUME NEW b \in Handlers, handlers'[b].await # "nothing"
        PROVE  place'[handlers'[b].message] # "unpublished"
    <3>1. CASE b = c
      <4>1. handlers'[b].message = m
        BY <1>0, <1>3, <3>1 DEF Deliver
      <4> QED
        BY <1>3, <2>1, <4>1 DEF Deliver
    <3>2. CASE b # c
      <4>1. handlers'[b] = handlers[b] /\ ~Awaits(b, "nothing")
        BY <1>0, <1>3, <2>2, <3>2 DEF Deliver, Awaits
      <4> QED
        BY <2>1, <4>1, HandlerType DEF PublishedInv
    <3> QED
      BY <3>1, <3>2
  <2> QED
    BY <1>3, <2>1, <2>2 DEF PublishedInv, Deliver, Awaits
<1>4. ASSUME NEW c \in Handlers, Recall(c)
      PROVE  PublishedInv'
  <2>1. ~Awaits(c, "nothing") /\ told' = told
    BY <1>4 DEF Recall, Awaits
  <2> QED
    BY <1>4, <2>1, SettlesPublished, GoesOnPublished DEF Recall, Handles, Places
<1>5. ASSUME NEW c \in Handlers, Handle(c)
      PROVE  PublishedInv'
  <2>1. ~Awaits(c, "nothing") /\ told' = told
    BY <1>5 DEF Handle, Awaits
  <2>2. ASSUME NEW where \in {"dropped", "ready"}, Settles(c, where)
        PROVE  PublishedInv'
    BY <2>1, <2>2, SettlesPublished DEF Places
  <2> QED
    BY <1>1, <1>5, <2>1, <2>2, GoesOnPublished DEF Handle
<1>6. ASSUME NEW c \in Handlers, MarkProcessed(c) \/ StatementFails(c)
      PROVE  PublishedInv'
  <2>1. ~Awaits(c, "nothing") /\ told' = told
    BY <1>6 DEF MarkProcessed, StatementFails, Awaits
  <2> QED
    BY <1>6, <2>1, SettlesPublished DEF MarkProcessed, StatementFails, Places
<1>7. ASSUME NEW r \in Replicas, ChannelCloses(r)
      PROVE  PublishedInv'
  <2>1. \A m \in Messages : place'[m] # "unpublished" <=> place[m] # "unpublished"
    BY <1>0, <1>7, ReplicasAssumption DEF ChannelCloses
  <2> QED
    BY <1>7, <2>1, HandlerType DEF ChannelCloses, PublishedInv, Awaits
<1>8. ASSUME NEW r \in Replicas, Restarts(r)
      PROVE  PublishedInv'
  <2>1. \A m \in Messages : place'[m] # "unpublished" <=> place[m] # "unpublished"
    BY <1>0, <1>8, ReplicasAssumption DEF Restarts
  <2>2. \A b \in Handlers : handlers'[b].await # "nothing" =>
            ~Awaits(b, "nothing") /\ handlers'[b] = handlers[b]
    BY <1>0, <1>8 DEF Restarts, Awaits, NoHandler
  <2> QED
    BY <1>8, <2>1, <2>2, HandlerType DEF Restarts, PublishedInv, Awaits
<1> QED
  BY <1>1, <1>2, <1>3, <1>4, <1>5, <1>6, <1>7, <1>8
     DEF ConsumerNext, Delivered, Advance, Request, Tell, Subscribe, Crash,
         UnhandledRejection, allVars, consumerVars

(* A call in flight keeps its use case and its order. *)
SameCalls ==
    \A b \in Calls : InFlight(b)' =>
        InFlight(b) /\ calls'[b].op = calls[b].op /\ calls'[b].order = calls[b].order

LEMMA SetSame ==
    ASSUME TypeInv, NEW c \in Calls, NEW call, Set(c, call), InFlight(c),
           call.await # "idle" => call.op = calls[c].op /\ call.order = calls[c].order
    PROVE  SameCalls
BY SetOne DEF InFlight, SameCalls

LEMMA StepSame ==
    ASSUME TypeInv, NEW c \in Calls, NEW out, Step(c, out)
    PROVE  SameCalls
<1>1. InFlight(c) /\ CallOK(calls[c])
  BY StepShape
<1>2. CASE Quits(c) \/ InsertOrder(c, out) \/ WriteRow(c, out)
  <2>1. Set(c, Idle)
    BY <1>2 DEF Quits, InsertOrder, WriteRow, Commits, Ends, Set
  <2> QED
    BY <1>1, <2>1, SetSame DEF Idle
<1>3. CASE Keeps(c)
  <2>1. PICK await \in {"nextSeq", "findQueue"} :
            Set(c, [calls[c] EXCEPT !.await = await, !.entity = rows[calls[c].order]])
    BY <1>3 DEF Keeps
  <2> DEFINE call == [calls[c] EXCEPT !.await = await, !.entity = rows[calls[c].order]]
  <2>2. call.op = calls[c].op /\ call.order = calls[c].order
    BY <1>1 DEF CallOK, Call
  <2> HIDE DEF call
  <2> QED
    BY <1>1, <2>1, <2>2, SetSame DEF call
<1>4. ASSUME NEW seq, Decides(c, seq)
      PROVE  SameCalls
  <2> DEFINE call == [calls[c] EXCEPT !.await = "load",
                                      !.entity = Applied(calls[c], Found(c), seq)]
  <2>1. Set(c, call)
    BY <1>4 DEF Decides
  <2>2. call.op = calls[c].op /\ call.order = calls[c].order
    BY <1>1 DEF CallOK, Call
  <2> HIDE DEF call
  <2> QED
    BY <1>1, <2>1, <2>2, SetSame
<1>5. ASSUME NEW seq, Creates(c, seq)
      PROVE  SameCalls
  <2> DEFINE call == [calls[c] EXCEPT !.await = "insert", !.entity = receive(seq)]
  <2>1. Set(c, call)
    BY <1>5 DEF Creates
  <2>2. call.op = calls[c].op /\ call.order = calls[c].order
    BY <1>1 DEF CallOK, Call
  <2> HIDE DEF call
  <2> QED
    BY <1>1, <2>1, <2>2, SetSame
<1>6. CASE Loads(c)
  <2> DEFINE call == [calls[c] EXCEPT !.await = "write", !.loaded = rows[calls[c].order]]
  <2>1. Set(c, call)
    BY <1>6 DEF Loads
  <2>2. call.op = calls[c].op /\ call.order = calls[c].order
    BY <1>1 DEF CallOK, Call
  <2> HIDE DEF call
  <2> QED
    BY <1>1, <2>1, <2>2, SetSame
<1> QED
  BY <1>2, <1>3, <1>4, <1>5, <1>6, StepShape

(* A step of a use case pays and writes outcomes only for orders told. *)
LEMMA StepServed ==
    ASSUME UseCasesInv, ServedInv, NEW c \in Calls, NEW out \in Outcomes, Step(c, out),
           told \subseteq told'
    PROVE  ServedInv'
<1>1. /\ TypeInv /\ AnnouncedInv /\ PaidInv
      /\ InFlight(c) /\ CallOK(calls[c])
  BY StepShape DEF UseCasesInv
<1>2. SameCalls
  BY <1>1, StepSame
<1> USE DEF SameCalls
<1>3. CASE UNCHANGED <<outbox, paid>>
  BY <1>2, <1>3 DEF ServedInv
<1>4. CASE InsertOrder(c, out) \/ WriteRow(c, out)
  <2> DEFINE o == calls[c].order
  <2>1. paid \subseteq paid' /\ paid' \subseteq told'
    BY <1>1, <1>4 DEF InsertOrder, WriteRow, Commits, ServedInv
  <2>2. CASE outbox' = outbox
    BY <1>2, <2>1, <2>2 DEF ServedInv
  <2>3. CASE /\ WriteRow(c, out) /\ calls[c].op \in DOMAIN EventOf
             /\ outbox' = Append(outbox, [type |-> EventOf[calls[c].op], order |-> o,
                                          diagnosis |-> calls[c].diagnosis])
    <3>1. EventOf[calls[c].op] # "diagnostic.finished" => o \in paid
      <4>1. calls[c].await = "write" /\ CallTold(calls[c])
        BY <1>1, <2>3 DEF WriteRow, AnnouncedInv
      <4>2. CASE calls[c].op \in {"FinishExecution", "FailExecution"}
        <5>1. calls[c].entity.status \in PaidStages
          BY <4>1, <4>2 DEF CallTold, Writes, PaidStages
        <5> QED
          BY <1>1, <4>2, <5>1 DEF PaidInv
      <4>3. CASE calls[c].op = "RegisterDiagnosis"
        BY <4>3 DEF EventOf
      <4> QED
        BY <2>3, <4>2, <4>3, UseCasesList
    <3>2. outbox \in Seq(Events)
      BY <1>1 DEF TypeInv, TypeOK
    <3>3. ASSUME NEW i \in 1..Len(outbox'), outbox'[i].type # "diagnostic.finished"
          PROVE  outbox'[i].order \in paid
      <4>1. CASE i \in 1..Len(outbox)
        BY <2>3, <3>2, <3>3, <4>1 DEF ServedInv
      <4>2. CASE i = Len(outbox) + 1
        BY <2>3, <3>1, <3>2, <3>3, <4>2
      <4> QED
        BY <2>3, <3>2, <4>1, <4>2
    <3> QED
      BY <1>2, <2>1, <3>3 DEF ServedInv
  <2> QED
    BY <1>4, <2>2, <2>3 DEF InsertOrder, WriteRow
<1> QED
  BY <1>3, <1>4, StepShape, <1>1

LEMMA BeginServed ==
    ASSUME UseCasesInv, ServedInv, NEW c \in Calls, NEW op, NEW o, NEW d, Begin(c, op, o, d),
           op = "EnqueueForExecution" => o \in told, told' = told
    PROVE  ServedInv'
<1> DEFINE call == [await |-> "findOrder", op |-> op, order |-> o, diagnosis |-> d,
                    entity |-> NoOrder, loaded |-> NoOrder]
<1>1. Set(c, call) /\ UNCHANGED <<outbox, paid>>
  BY DEF Begin, Set
<1>2. call.op = op /\ call.order = o
  OBVIOUS
<1> HIDE DEF call
<1> QED
  BY <1>1, <1>2, SetOne DEF UseCasesInv, ServedInv, InFlight

LEMMA ServedNext ==
    ASSUME ConsumerTypeOK, UseCasesInv, PublishedInv, ServedInv, [ConsumerNext]_allVars
    PROVE  ServedInv'
<1>1. CASE UNCHANGED vars /\ told \subseteq told'
  BY <1>1 DEF vars, ServedInv, InFlight
<1>2. ASSUME NEW c \in Handlers, Recall(c)
      PROVE  ServedInv'
  <2> DEFINE m == handlers[c].message
  <2>1. ~Awaits(c, "nothing") /\ told' = told /\ c \in Calls
    BY <1>2, HandlersAssumption DEF Recall, Awaits
  <2>2. m \in Messages /\ place[m] # "unpublished"
    BY <2>1, HandlerType DEF PublishedInv
  <2>3. OpOf(m.key) = "EnqueueForExecution" => m.order \in told
    BY <2>2, OpOfType DEF PublishedInv
  <2>4. CASE Begin(c, OpOf(m.key), m.order, NoDiagnosis)
    BY <2>1, <2>3, <2>4, BeginServed
  <2> QED
    BY <1>1, <1>2, <2>1, <2>4 DEF Recall, Handles
<1>3. ASSUME NEW c \in Handlers, Handle(c)
      PROVE  ServedInv'
  BY <1>3, StepServed, HandlersAssumption DEF Handle
<1>4. ASSUME NEW c \in Clients, Request(c)
      PROVE  ServedInv'
  <2>1. c \in Calls /\ told' = told
    BY <1>4, ClientsAssumption DEF Request
  <2>2. CASE \E out \in Outcomes : Serve(c, out)
    BY <2>1, <2>2, StepServed DEF Serve
  <2>3. CASE \E r \in Replicas, o \in Orders, op \in RequestOps,
                d \in Diagnoses \cup {NoDiagnosis} : Patch(r, c, op, o, d)
    BY <2>1, <2>3, BeginServed DEF Patch, RequestOps
  <2>4. CASE UNCHANGED vars
    BY <1>1, <2>1, <2>4
  <2> QED
    BY <1>4, <2>2, <2>3, <2>4 DEF Request, ReadBack, ReadFails, BadRequest, Get
<1>5. ASSUME NEW r \in Replicas, Restarts(r)
      PROVE  ServedInv'
  <2>1. Resets /\ told' = told
    BY <1>5, RestartsResets DEF Restarts
  <2> QED
    BY <2>1, ResetsCalls DEF Resets, database, UseCasesInv, ServedInv
<1> QED
  BY <1>1, <1>2, <1>3, <1>4, <1>5
     DEF ConsumerNext, Publish, Delivered, Deliver, Advance, MarkProcessed, StatementFails,
         Tell, Subscribe, Crash, UnhandledRejection, ChannelCloses, allVars, consumerVars

(* The outcome of a repair is only written once billing has been told of   *)
(* the diagnosis, though the relay tells events in any order: it was paid  *)
(* for, and the approval answered what was told.                           *)
THEOREM OutcomesFollowTold == ConsumerSpec => []OutcomesFollowToldDiagnoses
<1>1. Init /\ ConsumerInit => PublishedInv /\ ServedInv
  BY DEF Init, ConsumerInit, PublishedInv, ServedInv, Awaits, NoHandler, InFlight, Idle
<1>2. ServedInv => OutcomesFollowToldDiagnoses
  BY DEF ServedInv, OutcomesFollowToldDiagnoses
<1>3. ConsumerSpec => [](ConsumerTypeOK /\ UseCasesInv /\ PublishedInv /\ ServedInv)
  BY <1>1, ConsumerTypeInit, ConsumerTypeNext, UseCasesInvInit, UseCasesInvNext,
     PublishedNext, ServedNext, PTL DEF ConsumerSpec
<1> QED
  BY <1>2, <1>3, PTL

-----------------------------------------------------------------------------
(***************************************************************************)
(* Answers.  Rows are never deleted, so the read that follows a change     *)
(* finds its order; and a call that has not ended has changed nothing.     *)
(***************************************************************************)
PresentInv ==
    \A c \in Calls : InFlight(c) /\ calls[c].await # "findOrder" =>
        /\ calls[c].op # "EnqueueForDiagnosis" => rows[calls[c].order].status # Absent
        /\ calls[c].await \in {"insert", "load", "write"} => calls[c].entity.status # Absent

RowsStay == \A o \in Orders : rows[o].status # Absent => rows'[o].status # Absent

LEMMA AppliedPresent ==
    ASSUME NEW call, call.op \in Changes, NEW order \in Order, NEW seq
    PROVE  Applied(call, order, seq).status # Absent
<1>1. registerDiagnosis(order, call.diagnosis).status # Absent
  BY DEF registerDiagnosis, Absent
<1>2. enqueueForExecution(order, seq).status # Absent
  BY DEF enqueueForExecution, Order, Absent
<1>3. cancel(order).status # Absent /\ start(order).status # Absent
  BY DEF cancel, start, Order, Absent
<1>4. finish(order).status # Absent /\ fail(order).status # Absent
  BY DEF finish, fail, Order, Absent
<1> QED
  BY <1>1, <1>2, <1>3, <1>4, AppliedCases DEF Changes

LEMMA PresentSet ==
    ASSUME TypeInv, PresentInv, RowsStay, NEW c \in Calls, NEW call, Set(c, call),
           call.await \notin {"idle", "findOrder"} =>
               /\ call.op # "EnqueueForDiagnosis" => rows'[call.order].status # Absent
               /\ call.await \in {"insert", "load", "write"} => call.entity.status # Absent
    PROVE  PresentInv'
<1>1. ASSUME NEW b \in Calls, b # c, InFlight(b)', calls'[b].await # "findOrder"
      PROVE  /\ calls'[b].op # "EnqueueForDiagnosis" =>
                    rows'[calls'[b].order].status # Absent
             /\ calls'[b].await \in {"insert", "load", "write"} =>
                    calls'[b].entity.status # Absent
  <2>1. calls'[b] = calls[b] /\ InFlight(b)
    BY <1>1, SetOne DEF InFlight
  <2>2. calls[b].order \in Orders
    BY <2>1, TypeInvCalls DEF CallOK, Call, InFlight, Idle
  <2> QED
    BY <1>1, <2>1, <2>2 DEF PresentInv, RowsStay
<1> QED
  BY <1>1, SetOne DEF PresentInv, InFlight

LEMMA PresentStep ==
    ASSUME TypeInv, PresentInv, NEW c \in Calls, NEW out, Step(c, out)
    PROVE  /\ PresentInv' /\ RowsStay
           /\ rows' # rows \/ outbox' # outbox =>
                  /\ out \in {"ok", "QueryFailedError"}
                  /\ rows'[calls[c].order].status # Absent
<1> SUFFICES ASSUME NEW o, o = calls[c].order
             PROVE  /\ PresentInv' /\ RowsStay
                    /\ rows' # rows \/ outbox' # outbox =>
                           /\ out \in {"ok", "QueryFailedError"}
                           /\ rows'[o].status # Absent
  OBVIOUS
<1>1. InFlight(c) /\ CallOK(calls[c])
  BY StepShape
<1>2. o \in Orders /\ rows[o] \in Order /\ calls[c].entity \in Order
  BY <1>1 DEF CallOK, Call, TypeInv, TypeOK
<1>3. rows' = rows => RowsStay
  BY DEF RowsStay
<1>4. CASE Quits(c) /\ UNCHANGED <<rows, outbox>>
  BY <1>3, <1>4, PresentSet DEF Quits, Idle
<1>5. CASE Keeps(c) /\ UNCHANGED <<rows, outbox>>
  <2>1. PICK await \in {"nextSeq", "findQueue"} :
            Set(c, [calls[c] EXCEPT !.await = await, !.entity = rows[o]])
    BY <1>5 DEF Keeps
  <2> DEFINE call == [calls[c] EXCEPT !.await = await, !.entity = rows[o]]
  <2>2. call.op = calls[c].op /\ call.order = o /\ call.await = await
    BY <1>1 DEF CallOK, Call
  <2>3. call.op # "EnqueueForDiagnosis" => rows[o].status # Absent
    BY <1>5, <2>2 DEF Keeps
  <2> HIDE DEF call
  <2> QED
    BY <1>3, <1>5, <2>1, <2>2, <2>3, PresentSet DEF call
<1>6. CASE Loads(c) /\ UNCHANGED <<rows, outbox>>
  <2> DEFINE call == [calls[c] EXCEPT !.await = "write", !.loaded = rows[o]]
  <2>1. /\ call.op = calls[c].op /\ call.order = o /\ call.await = "write"
        /\ call.entity = calls[c].entity
    BY <1>1 DEF CallOK, Call
  <2>2. Set(c, call) /\ calls[c].await = "load"
    BY <1>6 DEF Loads
  <2> HIDE DEF call
  <2> QED
    BY <1>1, <1>3, <1>6, <2>1, <2>2, PresentSet DEF PresentInv
<1>7. ASSUME NEW seq, Decides(c, seq), UNCHANGED <<rows, outbox>>
      PROVE  PresentInv' /\ RowsStay
  <2> DEFINE call == [calls[c] EXCEPT !.await = "load",
                                      !.entity = Applied(calls[c], Found(c), seq)]
  <2>1. /\ call.op = calls[c].op /\ call.order = o /\ call.await = "load"
        /\ call.entity = Applied(calls[c], Found(c), seq)
    BY <1>1 DEF CallOK, Call
  <2>2. Set(c, call) /\ calls[c].op \in Changes /\ Found(c).status \in AllowedFrom[calls[c].op]
    BY <1>7 DEF Decides, Accepts
  <2>3. Found(c) \in Order /\ call.entity.status # Absent
    BY <1>2, <2>1, <2>2, AppliedPresent DEF Found
  <2>4. Found(c).status # Absent
    BY <2>2 DEF AllowedFrom, Absent, Changes
  <2>5. rows[o].status # Absent
    BY <1>1, <2>2, <2>4 DEF Found, PresentInv, Changes
  <2> HIDE DEF call
  <2> QED
    BY <1>3, <1>7, <2>1, <2>2, <2>3, <2>5, PresentSet
<1>8. ASSUME NEW seq, Creates(c, seq), UNCHANGED <<rows, outbox>>
      PROVE  PresentInv' /\ RowsStay
  <2> DEFINE call == [calls[c] EXCEPT !.await = "insert", !.entity = receive(seq)]
  <2>1. call.op = "EnqueueForDiagnosis" /\ call.entity.status # Absent
    BY <1>1, <1>8 DEF CallOK, Call, Creates, receive, Absent
  <2>2. Set(c, call)
    BY <1>8 DEF Creates
  <2> HIDE DEF call
  <2> QED
    BY <1>3, <1>8, <2>1, <2>2, PresentSet
<1>9. CASE InsertOrder(c, out)
  <2>1. /\ Set(c, Idle) /\ out \in {"ok", "QueryFailedError"}
        /\ rows' = [rows EXCEPT ![o] = calls[c].entity]
    BY <1>9 DEF InsertOrder, Commits, Ends, Set
  <2>2. calls[c].entity.status # Absent
    BY <1>1, <1>9 DEF InsertOrder, PresentInv
  <2>3. RowsStay /\ rows'[o].status # Absent
    BY <1>2, <2>1, <2>2 DEF RowsStay, TypeInv, TypeOK
  <2> QED
    BY <2>1, <2>3, PresentSet DEF Idle
<1>10. CASE WriteRow(c, out)
  <2> DEFINE row == Updated(rows[o], calls[c].entity, calls[c].loaded)
  <2>1. /\ Set(c, Idle) /\ out \in {"ok", "QueryFailedError"}
        /\ rows' = [rows EXCEPT ![o] = row]
    BY <1>10 DEF WriteRow, Commits, Ends, Set
  <2>2. calls[c].entity.status # Absent /\ rows[o].status # Absent
    BY <1>1, <1>10 DEF WriteRow, PresentInv, CallOK, Changes
  <2>3. row.status # Absent
    BY <2>2 DEF Updated, Differing
  <2> HIDE DEF row
  <2>4. RowsStay /\ rows'[o].status # Absent
    BY <1>2, <2>1, <2>3 DEF RowsStay, TypeInv, TypeOK
  <2> QED
    BY <2>1, <2>4, PresentSet DEF Idle
<1> QED
  BY <1>1, <1>4, <1>5, <1>6, <1>7, <1>8, <1>9, <1>10, StepShape

LEMMA PresentNext ==
    ASSUME ConsumerTypeOK, UseCasesInv, PresentInv, [ConsumerNext]_allVars
    PROVE  PresentInv' /\ RowsStay
<1>1. TypeInv
  BY DEF UseCasesInv
<1>2. ASSUME NEW c \in Calls, NEW op, NEW o, NEW d, Begin(c, op, o, d)
      PROVE  PresentInv' /\ RowsStay
  <2> DEFINE call == [await |-> "findOrder", op |-> op, order |-> o, diagnosis |-> d,
                      entity |-> NoOrder, loaded |-> NoOrder]
  <2>1. Set(c, call) /\ rows' = rows /\ call.await = "findOrder"
    BY <1>2 DEF Begin, Set
  <2>2. RowsStay
    BY <2>1 DEF RowsStay
  <2> HIDE DEF call
  <2> QED
    BY <1>1, <2>1, <2>2, PresentSet
<1>3. CASE Resets
  BY <1>1, <1>3, ResetsCalls DEF Resets, database, PresentInv, RowsStay
<1>4. CASE UNCHANGED vars
  BY <1>4 DEF vars, PresentInv, RowsStay, InFlight
<1> QED
  BY <1>1, <1>2, <1>3, <1>4, ConsumerStep, PresentStep DEF Next

AnswerOK(c) ==
    /\ Awaiting(c, "useCase") =>
           /\ ~requests[c].took
           /\ InFlight(c) => calls[c].order = requests[c].order
    /\ Awaiting(c, "readBack") /\ requests[c].took =>
           rows[requests[c].order].status # Absent
    /\ Awaiting(c, "answered") /\ requests[c].took =>
           requests[c].code \notin {404, 409, 422}

AnswersInv == \A c \in Clients : AnswerOK(c)

LEMMA Refusals ==
    /\ CodeOf("ok") \notin {404, 409, 422}
    /\ CodeOf("QueryFailedError") \notin {404, 409, 422}
<1>1. CodeOf("ok") = 200
  BY DEF CodeOf, Conflicts
<1>2. CodeOf("QueryFailedError") = 500
  BY DEF CodeOf, Conflicts
<1> QED
  BY <1>1, <1>2

LEMMA AnswerKept ==
    ASSUME ConsumerTypeOK, AnswersInv, RowsStay, NEW c \in Clients,
           requests'[c] = requests[c],
           InFlight(c)' => InFlight(c) /\ calls'[c].order = calls[c].order
    PROVE  AnswerOK(c)'
<1>1. requests[c].await = "readBack" => requests[c].order \in Orders
  BY ServedType DEF Served, Asks, Awaiting
<1> QED
  BY <1>1 DEF AnswersInv, AnswerOK, RowsStay, Awaiting

(* A request answered with an outcome, or asked anew, is in order. *)
LEMMA AnsweredOK ==
    ASSUME NEW c \in Clients, NEW out, NEW took,
           took => CodeOf(out) \notin {404, 409, 422}, requests'[c] = Answered(out, took)
    PROVE  AnswerOK(c)'
BY DEF Answered, AnswerOK, Awaiting

(* The steps of a request. *)
LEMMA ServeAnswers ==
    ASSUME ConsumerTypeOK, UseCasesInv, PresentInv, AnswersInv, NEW c \in Clients,
           NEW out \in Outcomes, Serve(c, out)
    PROVE  AnswerOK(c)'
<1>1. c \in Calls /\ TypeInv /\ Step(c, out) /\ Awaiting(c, "useCase")
  BY ClientsAssumption DEF Serve, UseCasesInv
<1>2. requests[c] \in Served /\ ~requests[c].took
  BY <1>1, ServedType DEF Asks, Awaiting, AnswersInv, AnswerOK
<1>3. calls[c].order = requests[c].order
  BY <1>1, StepShape DEF AnswersInv, AnswerOK
<1>4. requests \in [Clients -> RequestTypes]
  BY DEF ConsumerTypeOK
<1> DEFINE took == requests[c].took \/ rows' # rows \/ outbox' # outbox
<1>5. took => out \in {"ok", "QueryFailedError"} /\ rows'[requests[c].order].status # Absent
  BY <1>1, <1>2, <1>3, PresentStep
<1>6. \/ out = "pending" /\ requests' = [requests EXCEPT ![c].took = took]
      \/ /\ out = "ok"
         /\ requests' = [requests EXCEPT ![c].took = took, ![c].await = "readBack"]
      \/ out \in Failures /\ requests' = [requests EXCEPT ![c] = Answered(out, took)]
  BY DEF Serve
<1> HIDE DEF took
<1>7. CASE out = "pending" /\ requests' = [requests EXCEPT ![c].took = took]
  <2>1. /\ requests'[c].await = "useCase" /\ requests'[c].took = took
        /\ requests'[c].order = requests[c].order
    BY <1>1, <1>2, <1>4, <1>7 DEF Served, Awaiting
  <2>2. InFlight(c)' => calls'[c].order = calls[c].order
    BY <1>1, StepSame DEF SameCalls
  <2> QED
    BY <1>3, <1>5, <1>7, <2>1, <2>2 DEF AnswerOK, Awaiting
<1>8. CASE requests' = [requests EXCEPT ![c].took = took, ![c].await = "readBack"]
  <2>1. /\ requests'[c].await = "readBack" /\ requests'[c].took = took
        /\ requests'[c].order = requests[c].order
    BY <1>2, <1>4, <1>8 DEF Served
  <2> QED
    BY <1>5, <2>1 DEF AnswerOK, Awaiting
<1>9. CASE out \in Failures /\ requests' = [requests EXCEPT ![c] = Answered(out, took)]
  <2>1. requests'[c] = Answered(out, took)
    BY <1>4, <1>9
  <2>2. took => CodeOf(out) \notin {404, 409, 422}
    BY <1>5, Refusals
  <2> QED
    BY <2>1, <2>2, AnsweredOK
<1> QED
  BY <1>6, <1>7, <1>8, <1>9

LEMMA RequestAnswers ==
    ASSUME ConsumerTypeOK, UseCasesInv, PresentInv, AnswersInv, NEW c \in Clients, Request(c)
    PROVE  AnswerOK(c)'
<1>0. requests \in [Clients -> RequestTypes] /\ c \in Calls /\ TypeInv
  BY ClientsAssumption DEF ConsumerTypeOK, UseCasesInv
<1>1. CASE \E out \in Outcomes : Serve(c, out)
  BY <1>1, ServeAnswers
<1>2. ASSUME NEW out, ReadBack(c, out)
      PROVE  AnswerOK(c)'
  <2>1. requests'[c] = Answered(out, requests[c].took)
    BY <1>0, <1>2 DEF ReadBack, Answers
  <2>2. requests[c].took => CodeOf(out) \notin {404, 409, 422}
    <3>1. requests[c].took => out = "ok"
      BY <1>2 DEF ReadBack, AnswersInv, AnswerOK
    <3> QED
      BY <3>1, Refusals
  <2> QED
    BY <2>1, <2>2, AnsweredOK
<1>3. CASE ReadFails(c)
  <2>1. requests'[c] = Answered("QueryFailedError", requests[c].took)
    BY <1>0, <1>3 DEF ReadFails, Answers
  <2> QED
    BY <2>1, Refusals, AnsweredOK
<1>4. CASE BadRequest(c)
  <2>1. PICK error \in {"ValidationError", "SyntaxError"} :
            requests' = [requests EXCEPT ![c] = Answered(error, FALSE)]
    BY <1>4 DEF BadRequest
  <2> QED
    BY <1>0, <2>1, AnsweredOK
<1>5. ASSUME NEW r \in Replicas, NEW o \in Orders, Get(r, c, o)
      PROVE  AnswerOK(c)'
  BY <1>0, <1>5 DEF Get, Frame, AnswerOK, Awaiting
<1>6. ASSUME NEW r \in Replicas, NEW o \in Orders, NEW op \in RequestOps, NEW d,
             Patch(r, c, op, o, d)
      PROVE  AnswerOK(c)'
  <2>1. calls'[c].order = o
    BY <1>0, <1>6 DEF Patch, Begin, TypeInv, TypeOK
  <2> QED
    BY <1>0, <1>6, <2>1 DEF Patch, Frame, AnswerOK, Awaiting
<1> QED
  BY <1>1, <1>2, <1>3, <1>4, <1>5, <1>6 DEF Request

(* Who serves a request is alone with its answer. *)
LEMMA RequestAlone ==
    ASSUME NEW c \in Clients, Request(c), NEW b \in Clients \ {c}, ConsumerTypeOK
    PROVE  requests'[b] = requests[b]
BY DEF Request, Serve, ReadBack, ReadFails, BadRequest, Get, Patch, Answers, ConsumerTypeOK

LEMMA OthersCalls ==
    ASSUME TypeInv, NEW c \in Calls, NEW b \in Calls \ {c},
           \/ \E out \in Outcomes : Step(c, out)
           \/ \E op \in UseCases, o \in Orders, d \in Diagnoses \cup {NoDiagnosis} :
                  Begin(c, op, o, d)
           \/ UNCHANGED vars
    PROVE  InFlight(b)' =>
               InFlight(b) /\ calls'[b].op = calls[b].op /\ calls'[b].order = calls[b].order
<1>1. CASE \E out \in Outcomes : Step(c, out)
  BY <1>1, StepSame DEF SameCalls
<1>2. CASE \E op \in UseCases, o \in Orders, d \in Diagnoses \cup {NoDiagnosis} :
               Begin(c, op, o, d)
  BY <1>2 DEF Begin, InFlight, TypeInv, TypeOK
<1>3. CASE UNCHANGED vars
  BY <1>3 DEF vars, InFlight
<1> QED
  BY <1>1, <1>2, <1>3

(* What a handler or a request does to its call of a use case. *)
LEMMA HandlerCalls ==
    ASSUME ConsumerTypeOK, NEW h \in Handlers, Recall(h) \/ Handle(h)
    PROVE  \/ \E out \in Outcomes : Step(h, out)
           \/ \E op \in UseCases, o \in Orders, d \in Diagnoses \cup {NoDiagnosis} :
                  Begin(h, op, o, d)
           \/ UNCHANGED vars
<1>1. CASE Handle(h)
  BY <1>1 DEF Handle
<1>2. CASE Recall(h)
  <2>1. handlers[h].message \in Messages
    BY <1>2, HandlerType DEF Recall, Awaits
  <2> QED
    BY <1>2, <2>1, OpOfType DEF Recall, Handles
<1> QED
  BY <1>1, <1>2

LEMMA RequestCalls ==
    ASSUME NEW c \in Clients, Request(c)
    PROVE  \/ \E out \in Outcomes : Step(c, out)
           \/ \E op \in UseCases, o \in Orders, d \in Diagnoses \cup {NoDiagnosis} :
                  Begin(c, op, o, d)
           \/ UNCHANGED vars
<1>1. RequestOps \subseteq UseCases
  BY UseCasesList DEF RequestOps, Changes
<1> QED
  BY <1>1 DEF Request, Serve, ReadBack, ReadFails, BadRequest, Get, Patch

LEMMA AnswersNext ==
    ASSUME ConsumerTypeOK, UseCasesInv, PresentInv, AnswersInv, [ConsumerNext]_allVars
    PROVE  AnswersInv'
<1>1. RowsStay /\ TypeInv
  BY PresentNext DEF UseCasesInv
<1>2. CASE UNCHANGED <<vars, requests>>
  BY <1>1, <1>2, AnswerKept DEF vars, AnswersInv, InFlight
<1>3. ASSUME NEW h \in Handlers, Recall(h) \/ Handle(h)
      PROVE  AnswersInv'
  <2>1. h \in Calls /\ h \notin Clients /\ Clients \subseteq Calls
    BY HandlersAssumption, ClientsAssumption
  <2>2. requests' = requests
    BY <1>3 DEF Recall, Handle
  <2>3. \/ \E out \in Outcomes : Step(h, out)
        \/ \E op \in UseCases, o \in Orders, d \in Diagnoses \cup {NoDiagnosis} :
               Begin(h, op, o, d)
        \/ UNCHANGED vars
    BY <1>3, HandlerCalls
  <2> QED
    BY <1>1, <2>1, <2>2, <2>3, OthersCalls, AnswerKept DEF AnswersInv
<1>4. ASSUME NEW c \in Clients, Request(c)
      PROVE  AnswersInv'
  <2>1. Clients \subseteq Calls
    BY ClientsAssumption
  <2>2. \/ \E out \in Outcomes : Step(c, out)
        \/ \E op \in UseCases, o \in Orders, d \in Diagnoses \cup {NoDiagnosis} :
               Begin(c, op, o, d)
        \/ UNCHANGED vars
    BY <1>4, RequestCalls
  <2>3. ASSUME NEW b \in Clients \ {c}
        PROVE  AnswerOK(b)'
    BY <1>1, <1>4, <2>1, <2>2, RequestAlone, OthersCalls, AnswerKept
  <2> QED
    BY <1>4, <2>3, RequestAnswers DEF AnswersInv
<1>5. ASSUME NEW r \in Replicas, Restarts(r)
      PROVE  AnswersInv'
  <2>1. ASSUME NEW c \in Clients
        PROVE  AnswerOK(c)'
    <3>1. CASE requests'[c] = requests[c]
      BY <1>1, <1>5, <3>1, RestartsResets, ResetsCalls, ClientsAssumption, AnswerKept
    <3>2. CASE requests'[c] = NoRequest
      BY <3>2 DEF NoRequest, AnswerOK, Awaiting
    <3> QED
      BY <1>5, <3>1, <3>2 DEF Restarts
  <2> QED
    BY <2>1 DEF AnswersInv
<1> QED
  BY <1>2, <1>3, <1>4, <1>5
     DEF ConsumerNext, Publish, Delivered, Deliver, Advance, MarkProcessed, StatementFails,
         Tell, Subscribe, Crash, UnhandledRejection, ChannelCloses, allVars

(* A request answered 404, 409 or 422 has changed nothing, whatever other  *)
(* requests, deliveries, failures and restarts came between its statements. *)
THEOREM RefusalsAreHonest == ConsumerSpec => []RefusalsChangeNothing
<1>1. Init /\ ConsumerInit => PresentInv /\ AnswersInv
  BY DEF Init, ConsumerInit, HttpInit, PresentInv, AnswersInv, AnswerOK, Awaiting,
     NoRequest, InFlight, Idle
<1>2. ConsumerTypeOK /\ AnswersInv => RefusalsChangeNothing
  BY DEF AnswersInv, AnswerOK, RefusalsChangeNothing
<1>3. ConsumerSpec => [](ConsumerTypeOK /\ UseCasesInv /\ PresentInv /\ AnswersInv)
  BY <1>1, ConsumerTypeInit, ConsumerTypeNext, UseCasesInvInit, UseCasesInvNext,
     PresentNext, AnswersNext, PTL DEF ConsumerSpec
<1> QED
  BY <1>2, <1>3, PTL

-----------------------------------------------------------------------------
(***************************************************************************)
(* Drops.  An approval is dropped when the order it finds is not awaiting  *)
(* its payment.  The order is there and past its diagnosis, since billing  *)
(* was told of it; so it is paid already, or was cancelled.                *)
(***************************************************************************)
Past(status) == status \notin {Absent, "IN_DIAGNOSIS_QUEUE"}

CancelSent(o) ==
    \E n \in Messages : Cancels(n) /\ n.order = o /\ place[n] # "unpublished"

CallPast(call) ==
    /\ call.await \in {"load", "write"} => Past(call.entity.status)
    /\ call.await = "write" /\ Past(call.loaded.status) => Past(rows[call.order].status)
    /\ call.entity.status = "CANCELLED" \/ call.op = "CancelExecution" =>
           CancelSent(call.order)
    /\ call.await = "nextSeq" /\ call.op = "EnqueueForExecution" =>
           /\ Past(call.entity.status)
           /\ call.entity.status \in PaidStages => call.order \in paid

PastInv ==
    /\ \A i \in 1..Len(outbox) : Past(rows[outbox[i].order].status)
    /\ \A o \in told : \E i \in 1..Len(outbox) : outbox[i].order = o
    /\ \A o \in Orders : rows[o].status = "CANCELLED" => CancelSent(o)
    /\ \A c \in Calls : InFlight(c) => CallPast(calls[c])

PlacesStay ==
    \A m \in Messages : place[m] # "unpublished" => place'[m] # "unpublished"

(* What the steps below never undo. *)
Onwards ==
    /\ \A o \in Orders : Past(rows[o].status) => Past(rows'[o].status)
    /\ \A o \in Orders : CancelSent(o) => CancelSent(o)'
    /\ paid \subseteq paid'

LEMMA CallPastStays ==
    ASSUME Onwards, NEW c \in Calls, calls[c].order \in Orders, CallPast(calls[c]),
           calls'[c] = calls[c]
    PROVE  CallPast(calls[c])'
BY DEF CallPast, Onwards

LEMMA AppliedPast ==
    ASSUME NEW call, call.op \in Changes, NEW order \in Order, NEW seq
    PROVE  /\ Past(Applied(call, order, seq).status)
           /\ call.op # "CancelExecution" => Applied(call, order, seq).status # "CANCELLED"
<1>1. CASE call.op = "RegisterDiagnosis"
  BY <1>1, AppliedCases DEF registerDiagnosis, Past, Absent
<1>2. CASE call.op = "EnqueueForExecution"
  <2>1. enqueueForExecution(order, seq).status = "IN_EXECUTION_QUEUE"
    BY DEF enqueueForExecution, Order
  <2> QED
    BY <1>2, <2>1, AppliedCases DEF Past, Absent
<1>3. CASE call.op = "CancelExecution"
  <2>1. cancel(order).status = "CANCELLED"
    BY DEF cancel, Order
  <2> QED
    BY <1>3, <2>1, AppliedCases DEF Past, Absent
<1>4. CASE call.op \in {"StartExecution", "FinishExecution", "FailExecution"}
  <2>1. /\ start(order).status = "IN_EXECUTION"
        /\ finish(order).status = "FINISHED"
        /\ fail(order).status = "FAILED"
    BY DEF start, finish, fail, Order
  <2> QED
    BY <1>4, <2>1, AppliedCases DEF Past, Absent
<1> QED
  BY <1>1, <1>2, <1>3, <1>4 DEF Changes

(* A step that leaves the tables alone and sets one call. *)
LEMMA PastSet ==
    ASSUME TypeInv, PastInv, NEW c \in Calls, NEW call, Set(c, call),
           rows' = rows, outbox' = outbox, paid' = paid, told' = told, PlacesStay,
           call.await # "idle" => CallPast(call)
    PROVE  PastInv'
<1>1. ASSUME NEW o, CancelSent(o)
      PROVE  CancelSent(o)'
  BY <1>1 DEF PlacesStay, CancelSent
<1>2. ASSUME NEW b \in Calls, InFlight(b)'
      PROVE  CallPast(calls[b])'
  <2>1. CASE b = c
    BY <1>1, <1>2, <2>1, SetOne DEF InFlight, CallPast
  <2>2. CASE b # c
    BY <1>1, <1>2, <2>2, SetOne DEF InFlight, PastInv, CallPast
  <2> QED
    BY <2>1, <2>2
<1> QED
  BY <1>1, <1>2 DEF PastInv

OutboxTakes(o) ==
    outbox' = outbox \/ \E e \in Events : e.order = o /\ outbox' = Append(outbox, e)

(* A commit: the row it leaves is past the diagnosis or was not there. *)
LEMMA PastCommit ==
    ASSUME TypeInv, PastInv, NEW c \in Calls, NEW o \in Orders, NEW row, Set(c, Idle),
           rows' = [rows EXCEPT ![o] = row], paid \subseteq paid', told' = told, PlacesStay,
           Past(row.status) \/ (rows[o].status = Absent /\ outbox' = outbox),
           row.status = "CANCELLED" => CancelSent(o),
           OutboxTakes(o)
    PROVE  PastInv'
<1>1. /\ rows'[o] = row /\ \A p \in Orders \ {o} : rows'[p] = rows[p]
      /\ outbox \in Seq(Events) /\ outbox' \in Seq(Events)
  BY DEF OutboxTakes, TypeInv, TypeOK
<1>2. Onwards
  BY <1>1 DEF Onwards, Past, PlacesStay, CancelSent
<1>3. ASSUME NEW i \in 1..Len(outbox')
      PROVE  Past(rows'[outbox'[i].order].status)
  <2>1. CASE i \in 1..Len(outbox)
    <3>1. outbox'[i] = outbox[i] /\ outbox[i] \in Events
      BY <1>1, <2>1 DEF OutboxTakes
    <3>2. outbox[i].order \in Orders
      BY <3>1 DEF Events
    <3> QED
      BY <1>2, <2>1, <3>1, <3>2 DEF PastInv, Onwards
  <2>2. CASE i \notin 1..Len(outbox)
    BY <1>1, <1>3, <2>2 DEF OutboxTakes
  <2> QED
    BY <2>1, <2>2
<1>4. ASSUME NEW p \in told'
      PROVE  \E i \in 1..Len(outbox') : outbox'[i].order = p
  <2>1. PICK i \in 1..Len(outbox) : outbox[i].order = p
    BY <1>4 DEF PastInv
  <2>2. i \in 1..Len(outbox') /\ outbox'[i] = outbox[i]
    BY <1>1, <2>1 DEF OutboxTakes
  <2> QED
    BY <2>1, <2>2
<1>5. ASSUME NEW b \in Calls, InFlight(b)'
      PROVE  CallPast(calls[b])'
  <2>1. b # c
    BY <1>5, SetOne DEF InFlight, Idle
  <2>2. calls'[b] = calls[b] /\ InFlight(b)
    BY <1>5, <2>1, SetOne DEF InFlight
  <2>3. calls[b].order \in Orders /\ CallPast(calls[b])
    BY <2>2, TypeInvCalls DEF CallOK, Call, PastInv, InFlight, Idle
  <2> QED
    BY <1>2, <2>2, <2>3, CallPastStays
<1>6. \A p \in Orders : rows'[p].status = "CANCELLED" => CancelSent(p)'
  BY <1>1, <1>2 DEF PastInv, Onwards
<1> QED
  BY <1>3, <1>4, <1>5, <1>6 DEF PastInv

LEMMA PastStep ==
    ASSUME UseCasesInv, ServedInv, PastInv, NEW c \in Calls, NEW out, Step(c, out),
           told' = told, PlacesStay
    PROVE  PastInv'
<1> SUFFICES ASSUME NEW o, o = calls[c].order
             PROVE  PastInv'
  OBVIOUS
<1>1. TypeInv /\ InFlight(c) /\ CallOK(calls[c]) /\ CallPast(calls[c])
  BY StepShape DEF UseCasesInv, PastInv
<1>2. /\ o \in Orders /\ rows[o] \in Order /\ calls[c].entity \in Order
      /\ rows[o].status = "CANCELLED" => CancelSent(o)
  BY <1>1 DEF CallOK, Call, TypeInv, TypeOK, PastInv
<1>3. CASE Quits(c) /\ UNCHANGED <<rows, outbox, paid>>
  BY <1>1, <1>3, PastSet DEF Quits, Idle
<1>4. CASE Keeps(c) /\ UNCHANGED <<rows, outbox, paid>>
  <2>1. PICK await \in {"nextSeq", "findQueue"} :
            Set(c, [calls[c] EXCEPT !.await = await, !.entity = rows[o]])
    BY <1>4 DEF Keeps
  <2> DEFINE call == [calls[c] EXCEPT !.await = await, !.entity = rows[o]]
  <2>2. call.op = calls[c].op /\ call.order = o /\ call.await = await /\ call.entity = rows[o]
    BY <1>1 DEF CallOK, Call
  <2>3. call.op = "EnqueueForExecution" => Past(rows[o].status)
    BY <1>1, <2>2 DEF ServedInv, PastInv
  <2>4. rows[o].status \in PaidStages => o \in paid
    BY <1>2 DEF UseCasesInv, PaidInv
  <2>5. call.op = "CancelExecution" => CancelSent(o)
    BY <1>1, <2>2 DEF CallPast
  <2> HIDE DEF call
  <2>6. CallPast(call)
    BY <1>2, <2>1, <2>2, <2>3, <2>4, <2>5 DEF CallPast
  <2> QED
    BY <1>1, <1>4, <2>1, <2>6, PastSet DEF call
<1>5. CASE Loads(c) /\ UNCHANGED <<rows, outbox, paid>>
  <2> DEFINE call == [calls[c] EXCEPT !.await = "write", !.loaded = rows[o]]
  <2>1. /\ call.op = calls[c].op /\ call.order = o /\ call.await = "write"
        /\ call.entity = calls[c].entity /\ call.loaded = rows[o]
    BY <1>1 DEF CallOK, Call
  <2>2. Set(c, call) /\ calls[c].await = "load"
    BY <1>5 DEF Loads
  <2> HIDE DEF call
  <2>3. CallPast(call)
    BY <1>1, <2>1, <2>2 DEF CallPast
  <2> QED
    BY <1>1, <1>5, <2>2, <2>3, PastSet
<1>6. ASSUME NEW seq, Decides(c, seq), UNCHANGED <<rows, outbox, paid>>
      PROVE  PastInv'
  <2> DEFINE call == [calls[c] EXCEPT !.await = "load",
                                      !.entity = Applied(calls[c], Found(c), seq)]
  <2>1. /\ call.op = calls[c].op /\ call.order = o /\ call.await = "load"
        /\ call.entity = Applied(calls[c], Found(c), seq)
    BY <1>1 DEF CallOK, Call
  <2>2. Set(c, call) /\ calls[c].op \in Changes /\ Found(c) \in Order
    BY <1>2, <1>6 DEF Decides, Found
  <2>3. /\ Past(call.entity.status)
        /\ call.entity.status = "CANCELLED" => call.op = "CancelExecution"
    BY <2>1, <2>2, AppliedPast
  <2>4. call.op = "CancelExecution" => CancelSent(o)
    BY <1>1, <2>1 DEF CallPast
  <2> HIDE DEF call
  <2>5. CallPast(call)
    BY <2>1, <2>3, <2>4 DEF CallPast
  <2> QED
    BY <1>1, <1>6, <2>2, <2>5, PastSet
<1>7. ASSUME NEW seq, Creates(c, seq), UNCHANGED <<rows, outbox, paid>>
      PROVE  PastInv'
  <2> DEFINE call == [calls[c] EXCEPT !.await = "insert", !.entity = receive(seq)]
  <2>1. /\ call.op = "EnqueueForDiagnosis" /\ call.await = "insert"
        /\ call.entity.status = "IN_DIAGNOSIS_QUEUE"
    BY <1>1, <1>7 DEF CallOK, Call, Creates, receive
  <2>2. Set(c, call)
    BY <1>7 DEF Creates
  <2> HIDE DEF call
  <2>3. CallPast(call)
    BY <2>1 DEF CallPast
  <2> QED
    BY <1>1, <1>7, <2>2, <2>3, PastSet
<1>8. CASE InsertOrder(c, out)
  <2> SUFFICES ASSUME NEW row, row = calls[c].entity
               PROVE  PastInv'
    OBVIOUS
  <2>1. /\ Set(c, Idle) /\ paid \subseteq paid' /\ rows' = [rows EXCEPT ![o] = row]
        /\ rows[o].status = Absent /\ outbox' = outbox
    BY <1>8 DEF InsertOrder, Commits, Ends, Set
  <2>2. row.status = "CANCELLED" => CancelSent(o)
    BY <1>1 DEF CallPast
  <2>3. OutboxTakes(o)
    BY <2>1 DEF OutboxTakes
  <2> QED
    BY <1>1, <1>2, <2>1, <2>2, <2>3, PastCommit
<1>9. CASE WriteRow(c, out)
  <2> SUFFICES ASSUME NEW row, row = Updated(rows[o], calls[c].entity, calls[c].loaded)
               PROVE  PastInv'
    OBVIOUS
  <2>1. /\ Set(c, Idle) /\ paid \subseteq paid' /\ rows' = [rows EXCEPT ![o] = row]
        /\ calls[c].await = "write"
    BY <1>9 DEF WriteRow, Commits, Ends, Set
  <2>2. row.status = IF calls[c].entity.status # calls[c].loaded.status
                     THEN calls[c].entity.status ELSE rows[o].status
    BY DEF Updated, Differing
  <2>3. Past(row.status)
    BY <1>1, <2>1, <2>2 DEF CallPast
  <2>4. row.status = "CANCELLED" => CancelSent(o)
    BY <1>1, <1>2, <2>2 DEF CallPast
  <2>5. OutboxTakes(o)
    <3> DEFINE event == [type |-> EventOf[calls[c].op], order |-> o,
                         diagnosis |-> calls[c].diagnosis]
    <3>1. CASE outbox' = outbox
      BY <3>1 DEF OutboxTakes
    <3>2. CASE calls[c].op \in DOMAIN EventOf /\ outbox' = Append(outbox, event)
      <4>1. event \in Events /\ event.order = o
        BY <1>1, <1>2, <3>2 DEF Events, CallOK, Call
      <4> HIDE DEF event
      <4> QED
        BY <3>2, <4>1 DEF OutboxTakes
    <3> QED
      BY <1>9, <3>1, <3>2 DEF WriteRow
  <2> QED
    BY <1>1, <1>2, <2>1, <2>3, <2>4, <2>5, PastCommit
<1> QED
  BY <1>1, <1>3, <1>4, <1>5, <1>6, <1>7, <1>8, <1>9, StepShape

(* A step that leaves the tables alone, ends some calls and tells of what  *)
(* has been announced.                                                     *)
LEMMA PastRest ==
    ASSUME TypeInv, PastInv, UNCHANGED <<rows, outbox, paid>>, PlacesStay,
           \A c \in Calls : InFlight(c)' => InFlight(c) /\ calls'[c] = calls[c],
           \A o \in told' : o \in told \/ Announced(o, "diagnostic.finished")
    PROVE  PastInv'
<1>1. ASSUME NEW o, CancelSent(o)
      PROVE  CancelSent(o)'
  BY <1>1 DEF PlacesStay, CancelSent
<1>2. ASSUME NEW c \in Calls, InFlight(c)'
      PROVE  CallPast(calls[c])'
  BY <1>1, <1>2 DEF PastInv, CallPast
<1>3. \A o \in told' : \E i \in 1..Len(outbox) : outbox[i].order = o
  BY DEF PastInv, Announced
<1> QED
  BY <1>1, <1>2, <1>3 DEF PastInv

LEMMA PastBegin ==
    ASSUME TypeInv, PastInv, NEW c \in Calls, NEW op, NEW o, NEW d, Begin(c, op, o, d),
           op = "CancelExecution" => CancelSent(o), told' = told, PlacesStay
    PROVE  PastInv'
<1> DEFINE call == [await |-> "findOrder", op |-> op, order |-> o, diagnosis |-> d,
                    entity |-> NoOrder, loaded |-> NoOrder]
<1>1. Set(c, call) /\ UNCHANGED <<rows, outbox, paid>>
  BY DEF Begin, Set
<1>2. /\ call.await = "findOrder" /\ call.op = op /\ call.order = o
      /\ call.entity.status = Absent
  BY DEF NoOrder
<1> HIDE DEF call
<1>3. CallPast(call)
  BY <1>2 DEF CallPast, Absent
<1> QED
  BY <1>1, <1>3, PastSet

(* A message that was published is never unpublished again. *)
LEMMA PlacesStayNext ==
    ASSUME ConsumerTypeOK, [ConsumerNext]_allVars
    PROVE  PlacesStay
<1>0. place \in [Messages -> Places]
  BY DEF ConsumerTypeOK, Places
<1>1. CASE UNCHANGED place
  BY <1>1 DEF PlacesStay
<1>2. ASSUME NEW c \in Handlers, NEW where \in Places \ {"unpublished"}, Settles(c, where)
      PROVE  PlacesStay
  BY <1>0, <1>2 DEF Settles, PlacesStay
<1>3. ASSUME NEW m \in Messages, Publish(m) \/ Delivered(m)
      PROVE  PlacesStay
  BY <1>0, <1>3, ReplicasAssumption DEF Publish, Delivered, Deliver, PlacesStay
<1>4. ASSUME NEW c \in Handlers, Advance(c) \/ StatementFails(c)
      PROVE  PlacesStay
  BY <1>1, <1>2, <1>4
     DEF Advance, Recall, Handles, Handle, MarkProcessed, StatementFails, Places
<1>5. ASSUME NEW r \in Replicas, Restarts(r) \/ ChannelCloses(r)
      PROVE  PlacesStay
  BY <1>0, <1>5, ReplicasAssumption DEF Restarts, ChannelCloses, PlacesStay
<1> QED
  BY <1>1, <1>3, <1>4, <1>5
     DEF ConsumerNext, Request, Tell, Subscribe, Crash, UnhandledRejection, allVars,
         consumerVars

LEMMA PastNext ==
    ASSUME ConsumerTypeOK, UseCasesInv, PublishedInv, ServedInv, PastInv,
           [ConsumerNext]_allVars
    PROVE  PastInv'
<1>1. TypeInv /\ PlacesStay
  BY PlacesStayNext DEF UseCasesInv
<1>2. CASE UNCHANGED vars /\ told' = told
  BY <1>1, <1>2, PastRest DEF vars, InFlight
<1>3. ASSUME NEW c \in Handlers, Recall(c)
      PROVE  PastInv'
  <2> DEFINE m == handlers[c].message
  <2>1. ~Awaits(c, "nothing") /\ told' = told /\ c \in Calls
    BY <1>3, HandlersAssumption DEF Recall, Awaits
  <2>2. m \in Messages /\ place[m] # "unpublished"
    BY <2>1, HandlerType DEF PublishedInv
  <2>3. OpOf(m.key) = "CancelExecution" => CancelSent(m.order)
    BY <2>2 DEF CancelSent, Cancels
  <2>4. CASE Begin(c, OpOf(m.key), m.order, NoDiagnosis)
    BY <1>1, <2>1, <2>3, <2>4, PastBegin
  <2> QED
    BY <1>2, <1>3, <2>1, <2>4 DEF Recall, Handles
<1>4. ASSUME NEW c \in Handlers, Handle(c)
      PROVE  PastInv'
  BY <1>1, <1>4, PastStep, HandlersAssumption DEF Handle
<1>5. ASSUME NEW c \in Clients, Request(c)
      PROVE  PastInv'
  <2>1. c \in Calls /\ told' = told
    BY <1>5, ClientsAssumption DEF Request
  <2>2. CASE \E out \in Outcomes : Serve(c, out)
    BY <1>1, <2>1, <2>2, PastStep DEF Serve
  <2>3. CASE \E r \in Replicas, o \in Orders, op \in RequestOps,
                d \in Diagnoses \cup {NoDiagnosis} : Patch(r, c, op, o, d)
    BY <1>1, <2>1, <2>3, PastBegin DEF Patch, RequestOps
  <2>4. CASE UNCHANGED vars
    BY <1>2, <2>1, <2>4
  <2> QED
    BY <1>5, <2>2, <2>3, <2>4 DEF Request, ReadBack, ReadFails, BadRequest, Get
<1>6. ASSUME NEW o \in Orders, Tell(o)
      PROVE  PastInv'
  BY <1>1, <1>6, PastRest DEF Tell, vars, InFlight
<1>7. ASSUME NEW r \in Replicas, Restarts(r)
      PROVE  PastInv'
  <2>1. Resets /\ told' = told
    BY <1>7, RestartsResets DEF Restarts
  <2>2. UNCHANGED <<rows, outbox, paid>>
    BY <2>1 DEF Resets, database
  <2> QED
    BY <1>1, <2>1, <2>2, ResetsCalls, PastRest
<1> QED
  BY <1>2, <1>3, <1>4, <1>5, <1>6, <1>7
     DEF ConsumerNext, Publish, Delivered, Deliver, Advance, MarkProcessed, StatementFails,
         Subscribe, Crash, UnhandledRejection, ChannelCloses, allVars, consumerVars

(* A handler in its use case has a call about its own message. *)
ServingInv ==
    \A c \in Handlers : Awaits(c, "handle") /\ InFlight(c) =>
        /\ calls[c].op = OpOf(handlers[c].message.key)
        /\ calls[c].order = handlers[c].message.order

LEMMA ServingKept ==
    ASSUME ServingInv, NEW b \in Handlers,
           InFlight(b)' =>
               InFlight(b) /\ calls'[b].op = calls[b].op /\ calls'[b].order = calls[b].order,
           handlers'[b].await = "handle" =>
               Awaits(b, "handle") /\ handlers'[b].message = handlers[b].message,
           handlers'[b].await = "handle", InFlight(b)'
    PROVE  /\ calls'[b].op = OpOf(handlers'[b].message.key)
           /\ calls'[b].order = handlers'[b].message.order
BY DEF ServingInv

(* What a step makes of the handlers it does not start. *)
LEMMA SettlesServing ==
    ASSUME ConsumerTypeOK, NEW c \in Handlers, ~Awaits(c, "nothing"),
           \/ \E where \in Places : Settles(c, where)
           \/ handlers' = [handlers EXCEPT ![c].await = "markProcessed"],
           NEW b \in Handlers, handlers'[b].await = "handle"
    PROVE  Awaits(b, "handle") /\ handlers'[b].message = handlers[b].message
<1>1. /\ handlers \in [Handlers -> {NoHandler} \cup Handler]
      /\ handlers[c] \in Handler
  BY HandlerType DEF ConsumerTypeOK, Handler
<1>2. CASE handlers' = [handlers EXCEPT ![c] = NoHandler]
  BY <1>1, <1>2 DEF Awaits, NoHandler
<1>3. CASE handlers' = [handlers EXCEPT ![c].await = "rejected"]
  BY <1>1, <1>3 DEF Awaits, Handler
<1>4. CASE handlers' = [handlers EXCEPT ![c].await = "markProcessed"]
  BY <1>1, <1>4 DEF Awaits, Handler
<1> QED
  BY <1>2, <1>3, <1>4 DEF Settles

LEMMA ServingNext ==
    ASSUME ConsumerTypeOK, UseCasesInv, ServingInv, [ConsumerNext]_allVars
    PROVE  ServingInv'
<1>0. /\ handlers \in [Handlers -> {NoHandler} \cup Handler]
      /\ Handlers \subseteq Calls /\ Clients \subseteq Calls
      /\ Handlers \cap Clients = {} /\ TypeInv
  BY HandlersAssumption, ClientsAssumption DEF ConsumerTypeOK, Handler, UseCasesInv
<1>1. CASE UNCHANGED <<vars, handlers>>
  BY <1>1 DEF vars, ServingInv, Awaits, InFlight
<1>2. ASSUME NEW m \in Messages, NEW r \in Replicas, NEW c \in Handlers, Deliver(r, c, m)
      PROVE  ServingInv'
  <2>1. UNCHANGED vars
    BY <1>2 DEF Deliver
  <2>2. \A b \in Handlers : handlers'[b].await = "handle" => handlers'[b] = handlers[b]
    BY <1>0, <1>2 DEF Deliver
  <2> QED
    BY <2>1, <2>2 DEF vars, ServingInv, Awaits, InFlight
<1>3. ASSUME NEW c \in Handlers, ~Awaits(c, "nothing"), UNCHANGED vars,
             \E where \in Places : Settles(c, where)
      PROVE  ServingInv'
  BY <1>3, SettlesServing DEF vars, ServingInv, Awaits, InFlight
<1>4. ASSUME NEW c \in Handlers, Recall(c)
      PROVE  ServingInv'
  <2> DEFINE m == handlers[c].message
  <2>1. ~Awaits(c, "nothing") /\ handlers[c] \in Handler /\ m \in Messages
    BY <1>4, HandlerType DEF Recall, Awaits
  <2>2. CASE /\ Begin(c, OpOf(m.key), m.order, NoDiagnosis)
             /\ handlers' = [handlers EXCEPT ![c].await = "handle"]
    <3>1. /\ calls'[c].op = OpOf(m.key) /\ calls'[c].order = m.order
          /\ handlers'[c].message = m
      BY <1>0, <2>1, <2>2 DEF Begin, TypeInv, TypeOK, Handler
    <3>2. \A b \in Handlers \ {c} : calls'[b] = calls[b] /\ handlers'[b] = handlers[b]
      BY <1>0, <2>2 DEF Begin, TypeInv, TypeOK
    <3> QED
      BY <3>1, <3>2 DEF ServingInv, Awaits, InFlight
  <2> QED
    BY <1>3, <1>4, <2>1, <2>2 DEF Recall, Handles, Places
<1>5. ASSUME NEW c \in Handlers, Handle(c)
      PROVE  ServingInv'
  <2>1. ~Awaits(c, "nothing")
    BY <1>5 DEF Handle, Awaits
  <2>2. SameCalls
    BY <1>0, <1>5, StepSame DEF Handle
  <2>3. \/ \E where \in Places : Settles(c, where)
        \/ handlers' = [handlers EXCEPT ![c].await = "markProcessed"]
        \/ UNCHANGED handlers
    BY <1>5 DEF Handle, Places
  <2>4. \A b \in Handlers : handlers'[b].await = "handle" =>
            Awaits(b, "handle") /\ handlers'[b].message = handlers[b].message
    BY <2>1, <2>3, SettlesServing DEF Awaits
  <2> QED
    BY <1>0, <2>2, <2>4, ServingKept DEF SameCalls, ServingInv, Awaits
<1>6. ASSUME NEW c \in Handlers, MarkProcessed(c) \/ StatementFails(c)
      PROVE  ServingInv'
  <2>1. ~Awaits(c, "nothing") /\ UNCHANGED vars
    BY <1>6 DEF MarkProcessed, StatementFails, Awaits
  <2> QED
    BY <1>3, <1>6, <2>1 DEF MarkProcessed, StatementFails, Places
<1>7. ASSUME NEW c \in Clients, Request(c)
      PROVE  ServingInv'
  <2>1. \/ \E out \in Outcomes : Step(c, out)
        \/ \E op \in UseCases, o \in Orders, d \in Diagnoses \cup {NoDiagnosis} :
               Begin(c, op, o, d)
        \/ UNCHANGED vars
    <3>1. RequestOps \subseteq UseCases
      BY UseCasesList DEF RequestOps, Changes
    <3> QED
      BY <1>7, <3>1 DEF Request, Serve, ReadBack, ReadFails, BadRequest, Get, Patch
  <2>2. UNCHANGED handlers
    BY <1>7 DEF Request
  <2> QED
    BY <1>0, <2>1, <2>2, OthersCalls, ServingKept DEF ServingInv, Awaits
<1>8. ASSUME NEW r \in Replicas, Restarts(r)
      PROVE  ServingInv'
  <2>1. \A b \in Handlers : handlers'[b] = handlers[b] \/ handlers'[b] = NoHandler
    BY <1>0, <1>8 DEF Restarts
  <2>2. \A b \in Handlers : InFlight(b)' => InFlight(b) /\ calls'[b] = calls[b]
    BY <1>0, <1>8, RestartsResets, ResetsCalls
  <2> QED
    BY <2>1, <2>2 DEF ServingInv, Awaits, NoHandler
<1> QED
  BY <1>1, <1>2, <1>4, <1>5, <1>6, <1>7, <1>8
     DEF ConsumerNext, Publish, Delivered, Advance, Tell, Subscribe, Crash,
         UnhandledRejection, ChannelCloses, allVars, consumerVars

(* The permanent failures of an approval: no row, or another stage. *)
LEMMA StepFails ==
    ASSUME TypeInv, NEW c \in Calls, NEW out \in Permanent, Step(c, out)
    PROVE  /\ calls[c].op # "EnqueueForDiagnosis"
           /\ calls[c].op = "EnqueueForExecution" =>
                 \/ rows[calls[c].order].status = Absent
                 \/ /\ calls[c].await = "nextSeq"
                    /\ calls[c].entity.status # "AWAITING_PAYMENT"
<1>1. /\ InFlight(c) /\ CallOK(calls[c])
      /\ out \in {"NotFoundError", "InvalidTransitionError"}
  BY StepShape DEF Permanent
<1>2. CASE FindOrder(c, out)
  BY <1>1, <1>2 DEF FindOrder, Ends, Moves, Transitions
<1>3. CASE NextQueueSeq(c, out)
  <2>1. /\ calls[c].op = "EnqueueForExecution" /\ calls[c].await = "nextSeq"
        /\ ~Accepts(calls[c].entity, "EnqueueForExecution")
    BY <1>1, <1>3 DEF NextQueueSeq, Moves, Transitions
  <2> QED
    BY <2>1 DEF Accepts, AllowedFrom
<1>4. CASE FindQueue(c, out)
  BY <1>1, <1>4 DEF FindQueue, CallOK
<1>5. ~InsertOrder(c, out) /\ ~RejectInsert(c, out) /\ ~LoadRow(c, out)
      /\ ~WriteRow(c, out) /\ ~Abort(c, out)
  BY <1>1 DEF InsertOrder, RejectInsert, LoadRow, WriteRow, Abort, Commits, Ends
<1> QED
  BY <1>2, <1>3, <1>4, <1>5 DEF Step

LEMMA PaidGrows ==
    ASSUME ConsumerTypeOK, UseCasesInv, [ConsumerNext]_allVars
    PROVE  paid \subseteq paid'
<1>1. TypeInv
  BY DEF UseCasesInv
<1>2. ASSUME NEW c \in Calls, NEW out, Step(c, out)
      PROVE  paid \subseteq paid'
  BY <1>1, <1>2, StepShape DEF InsertOrder, WriteRow, Commits
<1> QED
  BY <1>2, ConsumerStep DEF Next, Begin, Resets, database, vars

Explained(m) ==
    /\ m.key # "order.received"
    /\ m.key = "payment.approved" => m.order \in paid \/ CancelSent(m.order)

LEMMA ExplainedDrops ==
    NoPaymentIsDropped <=>
        \A m \in Messages : place[m] = "dropped" /\ m.body = "valid" => Explained(m)
BY DEF NoPaymentIsDropped, Explained, CancelSent

(* A use case that fails for good explains the drop of its message. *)
LEMMA HandleExplains ==
    ASSUME ConsumerTypeOK, UseCasesInv, PublishedInv, ServedInv, PastInv, ServingInv,
           NEW c \in Handlers, Awaits(c, "handle"), NEW out \in Permanent, Step(c, out)
    PROVE  Explained(handlers[c].message)
<1> SUFFICES ASSUME NEW m, m = handlers[c].message, NEW o, o = calls[c].order
             PROVE  Explained(m)
  OBVIOUS
<1>1. /\ TypeInv /\ c \in Calls /\ InFlight(c) /\ CallOK(calls[c])
      /\ CallPast(calls[c]) /\ o \in Orders
  BY StepShape, HandlersAssumption DEF UseCasesInv, PastInv, CallOK, Call
<1>2. calls[c].op = OpOf(m.key) /\ o = m.order
  BY <1>1 DEF ServingInv
<1>3. m.key # "order.received"
  BY <1>1, <1>2, StepFails DEF OpOf
<1>4. ASSUME m.key = "payment.approved"
      PROVE  o \in paid \/ CancelSent(o)
  <2>1. calls[c].op = "EnqueueForExecution"
    BY <1>2, <1>4 DEF OpOf
  <2>2. Past(rows[o].status)
    BY <1>1, <2>1 DEF ServedInv, PastInv
  <2>3. calls[c].await = "nextSeq" /\ calls[c].entity.status # "AWAITING_PAYMENT"
    BY <1>1, <2>1, <2>2, StepFails DEF Past
  <2>4. calls[c].entity.status \in Status \cup {Absent}
    BY <1>1 DEF CallOK, Call, Order
  <2>5. calls[c].entity.status \in PaidStages \cup {"CANCELLED"}
    BY <1>1, <2>1, <2>3, <2>4 DEF CallPast, Past, Status, PaidStages
  <2> QED
    BY <1>1, <2>1, <2>3, <2>5 DEF CallPast
<1> QED
  BY <1>2, <1>3, <1>4 DEF Explained

LEMMA DropsNext ==
    ASSUME ConsumerTypeOK, UseCasesInv, PublishedInv, ServedInv, PastInv, ServingInv,
           NoPaymentIsDropped, [ConsumerNext]_allVars
    PROVE  NoPaymentIsDropped'
<1>0. place \in [Messages -> Places]
  BY DEF ConsumerTypeOK, Places
<1>1. ASSUME NEW m, Explained(m)
      PROVE  Explained(m)'
  BY <1>1, PaidGrows, PlacesStayNext DEF Explained, CancelSent, PlacesStay
<1>2. ASSUME \A m \in Messages : place'[m] = "dropped" /\ m.body = "valid" =>
                 place[m] = "dropped" \/ Explained(m)
      PROVE  NoPaymentIsDropped'
  <2>1. \A m \in Messages : place[m] = "dropped" /\ m.body = "valid" => Explained(m)
    BY ExplainedDrops
  <2>2. \A m \in Messages : place'[m] = "dropped" /\ m.body = "valid" => Explained(m)'
    BY <1>1, <1>2, <2>1
  <2> QED
    BY <2>2 DEF NoPaymentIsDropped, Explained, CancelSent
<1>3. CASE UNCHANGED place
  BY <1>2, <1>3
<1>4. ASSUME NEW m \in Messages, Publish(m) \/ Delivered(m)
      PROVE  NoPaymentIsDropped'
  BY <1>0, <1>2, <1>4, ReplicasAssumption DEF Publish, Delivered, Deliver
<1>5. ASSUME NEW c \in Handlers, ~Awaits(c, "nothing"), NEW where \in Places,
             Settles(c, where),
             where = "dropped" =>
                 handlers[c].message.body # "valid" \/ Explained(handlers[c].message)
      PROVE  NoPaymentIsDropped'
  BY <1>0, <1>2, <1>5, HandlerType DEF Settles
<1>6. ASSUME NEW c \in Handlers, Recall(c)
      PROVE  NoPaymentIsDropped'
  BY <1>3, <1>5, <1>6 DEF Recall, Handles, Awaits, Places
<1>7. ASSUME NEW c \in Handlers, Handle(c)
      PROVE  NoPaymentIsDropped'
  <2>1. Awaits(c, "handle") /\ ~Awaits(c, "nothing")
    BY <1>7 DEF Handle, Awaits
  <2>2. ASSUME NEW out \in Permanent, Step(c, out), Settles(c, "dropped")
        PROVE  NoPaymentIsDropped'
    BY <1>5, <2>1, <2>2, HandleExplains DEF Places
  <2>3. CASE Settles(c, "ready")
    BY <1>5, <2>1, <2>3 DEF Places
  <2> QED
    BY <1>3, <1>7, <2>2, <2>3 DEF Handle
<1>8. ASSUME NEW c \in Handlers, MarkProcessed(c) \/ StatementFails(c)
      PROVE  NoPaymentIsDropped'
  BY <1>5, <1>8 DEF MarkProcessed, StatementFails, Awaits, Places
<1>9. ASSUME NEW r \in Replicas, Restarts(r) \/ ChannelCloses(r)
      PROVE  NoPaymentIsDropped'
  BY <1>0, <1>2, <1>9 DEF Restarts, ChannelCloses
<1> QED
  BY <1>3, <1>4, <1>6, <1>7, <1>8, <1>9
     DEF ConsumerNext, Advance, Request, Tell, Subscribe, Crash, UnhandledRejection,
         allVars, consumerVars

(* No received order is ever dropped, and an approval only once the order  *)
(* is paid or a cancellation of it has been published: when it comes, the  *)
(* order is there and has been diagnosed, in whatever order calls commit.  *)
THEOREM PaymentsAreKept == ConsumerSpec => []NoPaymentIsDropped
<1>1. Init /\ ConsumerInit =>
          /\ PublishedInv /\ ServedInv /\ PastInv /\ ServingInv /\ NoPaymentIsDropped
  BY DEF Init, ConsumerInit, PublishedInv, ServedInv, PastInv, ServingInv,
     NoPaymentIsDropped, Awaits, NoHandler, NoOrder, Absent, InFlight, Idle
<1>2. ConsumerSpec => [](/\ ConsumerTypeOK /\ UseCasesInv /\ PublishedInv /\ ServedInv
                         /\ PastInv /\ ServingInv /\ NoPaymentIsDropped)
  BY <1>1, ConsumerTypeInit, ConsumerTypeNext, UseCasesInvInit, UseCasesInvNext,
     PublishedNext, ServedNext, PastNext, ServingNext, DropsNext, PTL DEF ConsumerSpec
<1> QED
  BY <1>2, PTL
=============================================================================
