----------------------- MODULE OutboxPublisher_proofs -----------------------
(***************************************************************************)
(* Proofs about the outbox relays, for any replicas, events, page size and *)
(* number of faults: their types, that nothing is lost without a fault,    *)
(* and that together they implement OutboxRelay's safety.                  *)
(***************************************************************************)
EXTENDS OutboxPublisher, TLAPS

(* What the head and the tail of a list of events hold. *)
LEMMA TailHolds ==
    ASSUME NEW S, NEW s \in Seq(S), s # <<>>
    PROVE  /\ Tail(s) \in Seq(S)
           /\ Len(Tail(s)) = Len(s) - 1
           /\ Head(s) \in S
           /\ In(Head(s), s)
           /\ \A e : In(e, s) <=> e = Head(s) \/ In(e, Tail(s))
<1>1. Len(s) \in Nat \ {0} /\ Head(s) = s[1] /\ Head(s) \in S
  OBVIOUS
<1>2. Tail(s) \in Seq(S) /\ Len(Tail(s)) = Len(s) - 1
  OBVIOUS
<1>3. \A i \in 1..(Len(s) - 1) : Tail(s)[i] = s[i + 1]
  OBVIOUS
<1>4. In(Head(s), s)
  BY <1>1 DEF In
<1>5. ASSUME NEW e, In(e, s)  PROVE e = Head(s) \/ In(e, Tail(s))
  <2>1. PICK i \in 1..Len(s) : s[i] = e
    BY <1>5 DEF In
  <2>2. CASE i = 1
    BY <1>1, <2>1, <2>2
  <2>3. CASE i # 1
    <3>1. i - 1 \in 1..(Len(s) - 1) /\ Tail(s)[i - 1] = s[(i - 1) + 1]
      BY <1>1, <1>3, <2>3
    <3> QED  BY <1>1, <1>2, <2>1, <3>1 DEF In
  <2> QED  BY <2>2, <2>3
<1>6. ASSUME NEW e, In(e, Tail(s))  PROVE In(e, s)
  <2>1. PICK i \in 1..(Len(s) - 1) : Tail(s)[i] = e
    BY <1>2, <1>6 DEF In
  <2>2. i + 1 \in 1..Len(s) /\ s[i + 1] = e
    BY <1>1, <1>3, <2>1
  <2> QED  BY <2>2 DEF In
<1> QED
  BY <1>1, <1>2, <1>4, <1>5, <1>6

LEMMA AppendHolds ==
    ASSUME NEW S, NEW s \in Seq(S), NEW f \in S
    PROVE  /\ Append(s, f) \in Seq(S)
           /\ \A e : In(e, Append(s, f)) <=> e = f \/ In(e, s)
<1>1. Append(s, f) \in Seq(S) /\ Len(Append(s, f)) = Len(s) + 1 /\ Len(s) \in Nat
  OBVIOUS
<1>2. \A i \in 1..Len(s) : Append(s, f)[i] = s[i]
  OBVIOUS
<1>3. Append(s, f)[Len(s) + 1] = f
  OBVIOUS
<1>4. ASSUME NEW e, In(e, Append(s, f))  PROVE e = f \/ In(e, s)
  BY <1>1, <1>2, <1>3, <1>4 DEF In
<1>5. ASSUME NEW e, In(e, s)  PROVE In(e, Append(s, f))
  BY <1>1, <1>2, <1>5 DEF In
<1>6. In(f, Append(s, f))
  BY <1>1, <1>3 DEF In
<1> QED
  BY <1>1, <1>4, <1>5, <1>6

LEMMA EmptyHolds == /\ \A e : ~In(e, <<>>)
                    /\ \A S : <<>> \in Seq(S)
                    /\ Len(<<>>) = 0
BY DEF In

-----------------------------------------------------------------------------
(* How the loop of a poll goes on with a page or what is left of it. *)
LEMMA ContinuesType ==
    ASSUME TypeOK, NEW r \in Replicas, NEW events \in Seq(Events),
           Len(events) <= PageSize, Continues(r, events)
    PROVE  /\ await' \in [Replicas -> {"timer", "find", "connect", "assertExchange", "mark"}]
           /\ batch' \in [Replicas -> Seq(Events)]
           /\ \A q \in Replicas :
                 /\ Len(batch'[q]) <= PageSize
                 /\ await'[q] \in {"connect", "assertExchange", "mark"} <=> batch'[q] # <<>>
BY DEF TypeOK, Continues

LEMMA TailType ==
    ASSUME TypeOK, NEW r \in Replicas, batch[r] # <<>>
    PROVE  Tail(batch[r]) \in Seq(Events) /\ Len(Tail(batch[r])) <= PageSize
<1>1. batch[r] \in Seq(Events) /\ Len(batch[r]) <= PageSize /\ PageSize \in Nat
  BY PageSizeAssumption DEF TypeOK
<1>2. Len(batch[r]) \in Nat /\ Len(Tail(batch[r])) = Len(batch[r]) - 1
  BY <1>1, TailHolds
<1> QED
  BY <1>1, <1>2, TailHolds

LEMMA TypeInit == Init => TypeOK
BY MaxFaultsAssumption, PageSizeAssumption, EmptyHolds DEF Init, TypeOK

LEMMA TypeStep == TypeOK /\ [Next]_vars => TypeOK'
<1> SUFFICES ASSUME TypeOK, [Next]_vars  PROVE TypeOK'
  OBVIOUS
<1> USE PageSizeAssumption, MaxFaultsAssumption
<1>1. ASSUME NEW e \in Events, Create(e)  PROVE TypeOK'
  <2>1. created' \in Seq(Events)
    BY <1>1, AppendHolds DEF TypeOK, Create
  <2>2. causes' \subseteq Events \X Events
    BY <1>1 DEF TypeOK, Create
  <2> QED
    BY <1>1, <2>1, <2>2 DEF TypeOK, Create, publisher, broker
<1>2. ASSUME NEW e \in Events, Commit(e)  PROVE TypeOK'
  BY <1>2 DEF TypeOK, Commit, publisher, broker
<1>3. ASSUME NEW r \in Replicas, TimerFires(r)  PROVE TypeOK'
  BY <1>3 DEF TypeOK, TimerFires, rows, broker
<1>4. ASSUME NEW r \in Replicas, FindUnpublished(r)  PROVE TypeOK'
  <2>1. PICK n \in 0..PageSize : \E page \in [1..n -> Events] : Continues(r, page)
    BY <1>4 DEF FindUnpublished, Take
  <2>2. PICK page \in [1..n -> Events] : Continues(r, page)
    BY <2>1
  <2>3. page \in Seq(Events) /\ Len(page) <= PageSize
    OBVIOUS
  <2> QED
    BY <1>4, <2>2, <2>3, ContinuesType DEF TypeOK, FindUnpublished, rows, broker
<1>5. ASSUME NEW r \in Replicas, Connect(r)  PROVE TypeOK'
  BY <1>5 DEF TypeOK, Connect, rows
<1>6. ASSUME NEW r \in Replicas, Publish(r)  PROVE TypeOK'
  <2>1. batch[r] # <<>>
    BY <1>6 DEF TypeOK, Publish
  <2>2. Append(wire[r], Head(batch[r])) \in Seq(Events)
    BY <2>1, TailHolds, AppendHolds DEF TypeOK
  <2> QED
    BY <1>6, <2>1, <2>2 DEF TypeOK, Publish, rows
<1>7. ASSUME NEW r \in Replicas, PublishFails(r)  PROVE TypeOK'
  <2>1. batch[r] # <<>>
    BY <1>7 DEF TypeOK, PublishFails
  <2>2. Head(batch[r]) \in Events
    BY <2>1, TailHolds DEF TypeOK
  <2> QED
    BY <1>7, <2>1, <2>2, TailType, ContinuesType DEF TypeOK, PublishFails, rows, broker
<1>8. ASSUME NEW r \in Replicas, MarkPublished(r)  PROVE TypeOK'
  <2>1. batch[r] # <<>>
    BY <1>8 DEF TypeOK, MarkPublished
  <2>2. Head(batch[r]) \in Events
    BY <2>1, TailHolds DEF TypeOK
  <2> QED
    BY <1>8, <2>1, <2>2, TailType, ContinuesType DEF TypeOK, MarkPublished, rows, broker
<1>9. ASSUME NEW r \in Replicas, BrokerAccepts(r)  PROVE TypeOK'
  <2>1. Head(wire[r]) \in Events /\ Tail(wire[r]) \in Seq(Events)
    BY <1>9, TailHolds DEF TypeOK, BrokerAccepts
  <2> QED
    BY <1>9, <2>1 DEF TypeOK, BrokerAccepts, rows, publisher
<1>10. ASSUME NEW r \in Replicas, FindFails(r)  PROVE TypeOK'
  <2>1. /\ Continues(r, <<>>)
        /\ <<>> \in Seq(Events)
        /\ Len(<<>>) <= PageSize
    BY <1>10, EmptyHolds DEF FindFails
  <2>2. faults' \in 0..MaxFaults
    BY <1>10 DEF TypeOK, FindFails, Fault
  <2>3. TypeOK' <=> faults' \in 0..MaxFaults
    BY <1>10, <2>1, ContinuesType DEF TypeOK, FindFails, rows, broker
  <2> QED
    BY <2>2, <2>3
<1>11. ASSUME NEW r \in Replicas, MarkFails(r)  PROVE TypeOK'
  <2>1. batch[r] # <<>>
    BY <1>11 DEF TypeOK, MarkFails
  <2>2. faults' \in 0..MaxFaults
    BY <1>11 DEF TypeOK, MarkFails, Fault
  <2>3. TypeOK' <=> faults' \in 0..MaxFaults
    BY <1>11, <2>1, TailType, ContinuesType DEF TypeOK, MarkFails, rows, broker
  <2> QED
    BY <2>2, <2>3
<1>12. ASSUME NEW r \in Replicas, ConnectionDrops(r)  PROVE TypeOK'
  BY <1>12, EmptyHolds DEF TypeOK, ConnectionDrops, Lost, Fault, rows, publisher
<1>13. ASSUME NEW r \in Replicas, Crash(r)  PROVE TypeOK'
  BY <1>13, EmptyHolds DEF TypeOK, Crash, Lost, Fault, rows
<1>14. ASSUME NEW r \in Replicas, ConnectDead(r)  PROVE TypeOK'
  BY <1>14 DEF TypeOK, ConnectDead, Fault, rows
<1>15. CASE UNCHANGED vars
  BY <1>15 DEF TypeOK, vars, rows, publisher, broker
<1> QED
  BY <1>1, <1>2, <1>3, <1>4, <1>5, <1>6, <1>7, <1>8, <1>9, <1>10, <1>11, <1>12,
     <1>13, <1>14, <1>15 DEF Next, Poll

(* Every variable keeps its type and no poll outgrows its page, for any    *)
(* page size: findUnpublished's take bounds what poll keeps in memory.     *)
THEOREM TypeCorrect == Spec => []TypeOK
BY TypeInit, TypeStep, PTL DEF Spec
-----------------------------------------------------------------------------
(* What polls and wires carry has committed, and what is marked has, too.  *)
CarriedInv ==
    /\ published \subseteq committed
    /\ \A r \in Replicas, e \in Events :
          In(e, batch[r]) \/ In(e, wire[r]) => e \in committed

(* Sent as far as anybody can tell: an event that is about to be marked is *)
(* on a wire or at the broker, or is one of those that were missed.        *)
Sent(e) == accepted[e] > 0 \/ OnAWire(e) \/ e \in missed

SentInv ==
    /\ \A e \in published : Sent(e)
    /\ \A r \in Replicas : await[r] = "mark" => Sent(Head(batch[r]))

(* Only a fault closes the channel under a poll, keeps a dead one or makes *)
(* an event miss.                                                          *)
FaultlessInv ==
    faults = 0 =>
        /\ missed = {}
        /\ \A r \in Replicas : /\ channel[r] # "dead"
                               /\ await[r] = "assertExchange" => channel[r] = "open"

IInv == TypeOK /\ CarriedInv /\ SentInv /\ FaultlessInv

(* What one step may do to polls, wires and marks: a poll gets pending     *)
(* events only, a wire what its poll had, a mark follows the write, and a  *)
(* poll that awaits a mark has written its event.                          *)
Carries ==
    /\ committed \subseteq committed'
    /\ published \subseteq published'
    /\ \A q \in Replicas, e \in Events :
          /\ In(e, batch'[q]) => In(e, batch[q]) \/ e \in committed \ published
          /\ In(e, wire'[q]) => In(e, wire[q]) \/ In(e, batch[q])
    /\ \A e \in published' \ published : \E q \in Replicas :
          /\ await[q] = "mark"
          /\ batch[q] # <<>>
          /\ e = Head(batch[q])
    /\ \A q \in Replicas : await'[q] = "mark" =>
          \/ await[q] = "mark" /\ batch'[q] = batch[q]
          \/ In(Head(batch'[q]), wire'[q])

(* The loop going on with part of the poll, or with a page. *)
LEMMA ContinuesCarries ==
    ASSUME TypeOK, NEW r \in Replicas, NEW events \in Seq(Events), Continues(r, events),
           \A e \in Events : In(e, events) => In(e, batch[r]) \/ e \in committed \ published,
           UNCHANGED <<committed, wire>>,
           published \subseteq published',
           \A e \in published' \ published :
               await[r] = "mark" /\ batch[r] # <<>> /\ e = Head(batch[r])
    PROVE  Carries
<1>1. \A q \in Replicas : batch'[q] = IF q = r THEN events ELSE batch[q]
  BY DEF Continues, TypeOK
<1>2. \A q \in Replicas : await'[q] = "mark" => q # r /\ await[q] = "mark"
  BY DEF Continues, TypeOK
<1> QED
  BY <1>1, <1>2 DEF Carries

LEMMA CarriesStep == TypeOK /\ [Next]_vars => Carries
<1> SUFFICES ASSUME TypeOK, [Next]_vars  PROVE Carries
  OBVIOUS
<1>1. ASSUME NEW e \in Events, Create(e) \/ Commit(e)  PROVE Carries
  BY <1>1 DEF Carries, Create, Commit, publisher, broker
<1>2. ASSUME NEW r \in Replicas, TimerFires(r) \/ Connect(r) \/ ConnectDead(r)
      PROVE  Carries
  BY <1>2 DEF TypeOK, Carries, TimerFires, Connect, ConnectDead, rows, broker
<1>3. ASSUME NEW r \in Replicas, FindUnpublished(r)  PROVE Carries
  <2>1. PICK n \in 0..PageSize : \E page \in [1..n -> Events] :
                                     IsPage(page) /\ Continues(r, page)
    BY <1>3 DEF FindUnpublished, Take
  <2>2. PICK page \in [1..n -> Events] : IsPage(page) /\ Continues(r, page)
    BY <2>1
  <2>3. page \in Seq(Events)
    OBVIOUS
  <2>4. \A e \in Events : In(e, page) => e \in committed \ published
    BY <2>2 DEF IsPage, In, Pending
  <2>5. UNCHANGED <<committed, wire, published>>
    BY <1>3 DEF FindUnpublished, rows, broker
  <2> QED
    BY <2>2, <2>3, <2>4, <2>5, ContinuesCarries
<1>4. ASSUME NEW r \in Replicas, Publish(r)  PROVE Carries
  <2>1. batch[r] # <<>> /\ batch[r] \in Seq(Events) /\ wire[r] \in Seq(Events)
    BY <1>4 DEF TypeOK, Publish
  <2>2. Head(batch[r]) \in Events /\ In(Head(batch[r]), batch[r])
    BY <2>1, TailHolds
  <2>3. \A e : In(e, Append(wire[r], Head(batch[r]))) <=>
                   e = Head(batch[r]) \/ In(e, wire[r])
    BY <2>1, <2>2, AppendHolds
  <2>4. /\ \A q \in Replicas : wire'[q] = IF q = r THEN Append(wire[r], Head(batch[r]))
                                                   ELSE wire[q]
        /\ \A q \in Replicas : await'[q] = IF q = r THEN "mark" ELSE await[q]
        /\ UNCHANGED <<committed, published, batch>>
    BY <1>4 DEF TypeOK, Publish, rows
  <2> QED
    BY <2>2, <2>3, <2>4 DEF Carries
<1>5. ASSUME NEW r \in Replicas, PublishFails(r) \/ MarkPublished(r) \/ MarkFails(r)
      PROVE  Carries
  <2>1. /\ batch[r] # <<>>
        /\ batch[r] \in Seq(Events)
    BY <1>5 DEF TypeOK, PublishFails, MarkPublished, MarkFails
  <2>2. /\ Tail(batch[r]) \in Seq(Events)
        /\ \A e \in Events : In(e, Tail(batch[r])) => In(e, batch[r])
    BY <2>1, TailHolds
  <2>3. /\ Continues(r, Tail(batch[r]))
        /\ UNCHANGED <<committed, wire>>
        /\ published \subseteq published'
        /\ \A e \in published' \ published :
               await[r] = "mark" /\ batch[r] # <<>> /\ e = Head(batch[r])
    BY <1>5, <2>1 DEF PublishFails, MarkPublished, MarkFails, rows, broker
  <2> QED
    BY <2>2, <2>3, ContinuesCarries
<1>6. ASSUME NEW r \in Replicas, BrokerAccepts(r)  PROVE Carries
  <2>1. \A e : In(e, Tail(wire[r])) => In(e, wire[r])
    BY <1>6, TailHolds DEF TypeOK, BrokerAccepts
  <2>2. /\ \A q \in Replicas : wire'[q] = IF q = r THEN Tail(wire[r]) ELSE wire[q]
        /\ UNCHANGED <<committed, published, batch, await>>
    BY <1>6 DEF TypeOK, BrokerAccepts, rows, publisher
  <2> QED
    BY <2>1, <2>2 DEF Carries
<1>7. ASSUME NEW r \in Replicas, FindFails(r)  PROVE Carries
  <2>1. /\ Continues(r, <<>>)
        /\ UNCHANGED <<committed, wire, published>>
    BY <1>7 DEF FindFails, rows, broker
  <2> QED
    BY <2>1, EmptyHolds, ContinuesCarries
<1>8. ASSUME NEW r \in Replicas, ConnectionDrops(r)  PROVE Carries
  <2>1. /\ \A q \in Replicas : wire'[q] = IF q = r THEN <<>> ELSE wire[q]
        /\ UNCHANGED <<committed, published, batch, await>>
    BY <1>8 DEF TypeOK, ConnectionDrops, rows, publisher
  <2> QED
    BY <2>1, EmptyHolds DEF Carries
<1>9. ASSUME NEW r \in Replicas, Crash(r)  PROVE Carries
  <2>1. /\ \A q \in Replicas :
              /\ wire'[q] = IF q = r THEN <<>> ELSE wire[q]
              /\ batch'[q] = IF q = r THEN <<>> ELSE batch[q]
              /\ await'[q] = IF q = r THEN "timer" ELSE await[q]
        /\ UNCHANGED <<committed, published>>
    BY <1>9 DEF TypeOK, Crash, rows
  <2> QED
    BY <2>1, EmptyHolds DEF Carries
<1>10. CASE UNCHANGED vars
  BY <1>10 DEF Carries, vars, rows, publisher, broker
<1> QED
  BY <1>1, <1>2, <1>3, <1>4, <1>5, <1>6, <1>7, <1>8, <1>9, <1>10 DEF Next, Poll

-----------------------------------------------------------------------------
LEMMA CarriedStep == TypeOK /\ CarriedInv /\ [Next]_vars => CarriedInv'
<1> SUFFICES ASSUME TypeOK, CarriedInv, Carries  PROVE CarriedInv'
  BY CarriesStep
<1>1. ASSUME NEW e \in published'  PROVE e \in committed'
  <2>1. CASE e \in published
    BY <2>1 DEF CarriedInv, Carries
  <2>2. CASE e \notin published
    <3>1. PICK q \in Replicas : batch[q] # <<>> /\ e = Head(batch[q])
      BY <1>1, <2>2 DEF Carries
    <3>2. e \in Events /\ In(e, batch[q])
      BY <3>1, TailHolds DEF TypeOK
    <3> QED
      BY <3>2 DEF CarriedInv, Carries
  <2> QED
    BY <2>1, <2>2
<1>2. ASSUME NEW r \in Replicas, NEW e \in Events, In(e, batch'[r]) \/ In(e, wire'[r])
      PROVE  e \in committed'
  BY <1>2 DEF CarriedInv, Carries
<1> QED
  BY <1>1, <1>2 DEF CarriedInv

(* An event that was sent stays sent: it leaves a wire for the broker, or  *)
(* is missed.                                                              *)
LEMMA SentStays ==
    ASSUME TypeOK, [Next]_vars, NEW e \in Events, Sent(e)
    PROVE  Sent(e)'
<1>1. ASSUME NEW r \in Replicas, Publish(r)  PROVE Sent(e)'
  <2>1. \A f \in Events : In(f, wire[r]) => In(f, Append(wire[r], Head(batch[r])))
    BY <1>1, TailHolds, AppendHolds DEF TypeOK, Publish
  <2>2. /\ \A q \in Replicas : wire'[q] = IF q = r THEN Append(wire[r], Head(batch[r]))
                                                   ELSE wire[q]
        /\ UNCHANGED <<accepted, missed>>
    BY <1>1 DEF TypeOK, Publish
  <2> QED
    BY <2>1, <2>2 DEF Sent, OnAWire
<1>2. ASSUME NEW r \in Replicas, BrokerAccepts(r)  PROVE Sent(e)'
  <2>1. \A f : In(f, wire[r]) => f = Head(wire[r]) \/ In(f, Tail(wire[r]))
    BY <1>2, TailHolds DEF TypeOK, BrokerAccepts
  <2>2. /\ \A q \in Replicas : wire'[q] = IF q = r THEN Tail(wire[r]) ELSE wire[q]
        /\ UNCHANGED missed
    BY <1>2 DEF TypeOK, BrokerAccepts
  <2>3. accepted'[e] = IF e = Head(wire[r]) THEN accepted[e] + 1 ELSE accepted[e]
    BY <1>2 DEF TypeOK, BrokerAccepts
  <2>4. accepted[e] \in Nat
    BY DEF TypeOK
  <2>5. CASE e = Head(wire[r])
    BY <2>3, <2>4, <2>5 DEF Sent
  <2>6. CASE e # Head(wire[r])
    BY <2>1, <2>2, <2>3, <2>6 DEF Sent, OnAWire
  <2> QED
    BY <2>5, <2>6
<1>3. ASSUME NEW r \in Replicas, ConnectionDrops(r) \/ Crash(r)  PROVE Sent(e)'
  <2>1. /\ \A q \in Replicas : q # r => wire'[q] = wire[q]
        /\ missed' = missed \cup Lost(r)
        /\ UNCHANGED accepted
    BY <1>3 DEF TypeOK, ConnectionDrops, Crash
  <2>2. In(e, wire[r]) => e \in missed'
    BY <2>1 DEF Lost
  <2> QED
    BY <2>1, <2>2 DEF Sent, OnAWire
<1>4. ASSUME UNCHANGED <<wire, accepted>>, missed \subseteq missed'  PROVE Sent(e)'
  BY <1>4 DEF Sent, OnAWire
<1>5. ASSUME NEW r \in Replicas,
             \/ TimerFires(r) \/ FindUnpublished(r) \/ Connect(r) \/ ConnectDead(r)
             \/ PublishFails(r) \/ MarkPublished(r) \/ FindFails(r) \/ MarkFails(r)
      PROVE  UNCHANGED <<wire, accepted>> /\ missed \subseteq missed'
  BY <1>5 DEF TimerFires, FindUnpublished, Connect, ConnectDead, PublishFails,
              MarkPublished, FindFails, MarkFails, broker
<1>6. ASSUME NEW f \in Events, Create(f) \/ Commit(f)
      PROVE  UNCHANGED <<wire, accepted, missed>>
  BY <1>6 DEF Create, Commit, broker
<1>7. CASE UNCHANGED vars
  BY <1>4, <1>7 DEF vars, broker
<1> QED
  BY <1>1, <1>2, <1>3, <1>4, <1>5, <1>6, <1>7 DEF Next, Poll

LEMMA SentStep == TypeOK /\ SentInv /\ [Next]_vars => SentInv'
<1> SUFFICES ASSUME TypeOK, SentInv, [Next]_vars  PROVE SentInv'
  OBVIOUS
<1>1. TypeOK' /\ Carries
  BY TypeStep, CarriesStep
<1>2. ASSUME NEW q \in Replicas, await[q] = "mark", NEW h, h = Head(batch[q])
      PROVE  h \in Events /\ Sent(h)'
  <2>1. h \in Events
    BY <1>2, TailHolds DEF TypeOK
  <2>2. Sent(h)
    BY <1>2 DEF SentInv
  <2> QED
    BY <2>1, <2>2, SentStays
<1>3. ASSUME NEW e \in published'  PROVE Sent(e)'
  <2>1. CASE e \in published
    BY <2>1, SentStays DEF SentInv, TypeOK
  <2>2. CASE e \notin published
    BY <1>1, <1>2, <1>3, <2>2 DEF Carries
  <2> QED
    BY <2>1, <2>2
<1>4. ASSUME NEW q \in Replicas, await'[q] = "mark", NEW h, h = Head(batch'[q])
      PROVE  Sent(h)'
  <2>1. CASE await[q] = "mark" /\ batch'[q] = batch[q]
    BY <1>2, <1>4, <2>1
  <2>2. CASE In(h, wire'[q])
    BY <1>4, <2>2 DEF Sent, OnAWire
  <2> QED
    BY <1>1, <1>4, <2>1, <2>2 DEF Carries
<1> QED
  BY <1>3, <1>4 DEF SentInv

LEMMA FaultlessStep == TypeOK /\ FaultlessInv /\ [Next]_vars => FaultlessInv'
<1> SUFFICES ASSUME TypeOK, FaultlessInv, [Next]_vars, faults' = 0  PROVE FaultlessInv'
  BY DEF FaultlessInv
<1>1. faults \in Nat
  BY MaxFaultsAssumption DEF TypeOK
<1>2. ASSUME Fault  PROVE FALSE
  BY <1>1, <1>2 DEF Fault
<1>3. ASSUME NEW r \in Replicas, NEW events, Continues(r, events),
             UNCHANGED <<broker, missed, faults>>
      PROVE  FaultlessInv'
  BY <1>3 DEF Continues, TypeOK, FaultlessInv, broker
<1>4. ASSUME NEW r \in Replicas, FindUnpublished(r) \/ MarkPublished(r)
      PROVE  FaultlessInv'
  BY <1>3, <1>4 DEF FindUnpublished, MarkPublished
<1>5. ASSUME NEW r \in Replicas, PublishFails(r)  PROVE FALSE
  BY <1>5 DEF PublishFails, FaultlessInv, broker
<1>6. ASSUME NEW r \in Replicas, TimerFires(r) \/ Connect(r) \/ Publish(r) \/ BrokerAccepts(r)
      PROVE  FaultlessInv'
  BY <1>6 DEF TimerFires, Connect, Publish, BrokerAccepts, TypeOK, FaultlessInv, broker, publisher
<1>7. ASSUME NEW e \in Events, Create(e) \/ Commit(e)  PROVE FaultlessInv'
  BY <1>7 DEF Create, Commit, FaultlessInv, broker, publisher
<1>8. CASE UNCHANGED vars
  BY <1>8 DEF vars, FaultlessInv, broker, publisher
<1> QED
  BY <1>2, <1>4, <1>5, <1>6, <1>7, <1>8
     DEF Next, Poll, FindFails, MarkFails, ConnectDead, ConnectionDrops, Crash

LEMMA InitInv == Init => IInv
<1> SUFFICES ASSUME Init  PROVE CarriedInv /\ SentInv /\ FaultlessInv
  BY TypeInit DEF IInv
<1>1. \A r \in Replicas : /\ batch[r] = <<>> /\ wire[r] = <<>> /\ await[r] = "timer"
                          /\ channel[r] = "closed"
  BY DEF Init
<1> QED
  BY <1>1, EmptyHolds DEF Init, CarriedInv, SentInv, FaultlessInv

LEMMA StepInv == IInv /\ [Next]_vars => IInv'
BY TypeStep, CarriedStep, SentStep, FaultlessStep DEF IInv

THEOREM Invariance == Spec => []IInv
BY InitInv, StepInv, PTL DEF Spec

(* Without a fault no event is marked published and then gone: between the *)
(* write and the mark nothing but a fault can take it off the wire.        *)
THEOREM OnlyFaultsLose == Spec => []OnlyFaultsLoseEvents
<1>1. IInv => OnlyFaultsLoseEvents
  BY MaxFaultsAssumption
     DEF IInv, TypeOK, SentInv, Sent, FaultlessInv, OnlyFaultsLoseEvents
<1> QED
  BY <1>1, Invariance, PTL

-----------------------------------------------------------------------------
(* The settled events, as the refinement has them. *)
Done == {e \in Events : Settled(e)}

(* A settled event stays settled: a poll reads unpublished rows only, and  *)
(* a wire gets nothing that no poll carries.                               *)
LEMMA SettledStays == TypeOK /\ Carries => Done \subseteq Done'
<1> SUFFICES ASSUME Carries, NEW e \in Events, Settled(e)  PROVE Settled(e)'
  BY DEF Done
<1>1. /\ e \in published'
      /\ \A r \in Replicas : ~In(e, wire'[r]) /\ ~In(e, batch'[r])
  BY DEF Carries, Settled, OnAWire
<1> QED
  BY <1>1 DEF Settled, OnAWire

(* A step of the relays that tells nobody settles some events, which were  *)
(* told before unless something has failed.                                *)
LEMMA SettleStep ==
    ASSUME IInv, IInv', Carries, UNCHANGED <<committed, accepted>>, faults' >= faults
    PROVE  \E S \in SUBSET Events : Relay!Settle(S)
<1>1. Done \subseteq Done'
  BY SettledStays DEF IInv
<1>2. Done' \ Done \subseteq committed \ Done
  BY DEF IInv, CarriedInv, Done, Settled
<1>3. \A e \in Done' \ Done : accepted[e] > 0 \/ faults' > 0
  BY MaxFaultsAssumption
     DEF IInv, TypeOK, SentInv, Sent, FaultlessInv, Done, Settled
<1>4. faults > 0 => faults' > 0
  BY DEF IInv, TypeOK
<1>5. Done' \ Done \in SUBSET Events
  BY DEF Done
<1>6. Relay!Settle(Done' \ Done)
  BY <1>1, <1>2, <1>3, <1>4 DEF Relay!Settle, Done
<1> QED
  BY <1>5, <1>6

LEMMA TellStep ==
    ASSUME IInv, NEW r \in Replicas, BrokerAccepts(r)
    PROVE  \E e \in Events : Relay!Tell(e)
<1>1. /\ wire[r] # <<>>
      /\ wire[r] \in Seq(Events)
  BY DEF IInv, TypeOK, BrokerAccepts
<1>2. PICK h \in Events : h = Head(wire[r])
  BY <1>1, TailHolds
<1>3. In(h, wire[r]) /\ \A e : In(e, wire[r]) <=> e = h \/ In(e, Tail(wire[r]))
  BY <1>1, <1>2, TailHolds
<1>4. h \in committed \ Done
  BY <1>3 DEF IInv, CarriedInv, Done, Settled, OnAWire
<1>5. /\ \A q \in Replicas : wire'[q] = IF q = r THEN Tail(wire[r]) ELSE wire[q]
      /\ accepted' = [accepted EXCEPT ![h] = @ + 1]
      /\ UNCHANGED <<committed, published, batch, faults>>
  BY <1>2 DEF IInv, TypeOK, BrokerAccepts, rows, publisher
<1>6. \A e \in Events \ {h} : Settled(e)' <=> Settled(e)
  BY <1>3, <1>5 DEF Settled, OnAWire
<1>7. Done' \in {Done, Done \cup {h}}
  BY <1>4, <1>6 DEF Done
<1>8. Relay!Tell(h)
  BY <1>4, <1>5, <1>7 DEF Relay!Tell, Done
<1> QED
  BY <1>8

LEMMA CommitStep ==
    ASSUME NEW e \in Events, Commit(e)
    PROVE  Relay!Commit(e)
<1>1. UNCHANGED <<published, wire, batch, accepted, faults>>
  BY DEF Commit, publisher, broker
<1>2. Done' = Done
  BY <1>1 DEF Done, Settled, OnAWire
<1> QED
  BY <1>1, <1>2 DEF Commit, Relay!Commit, Done

LEMMA RelayInit == Init => Relay!Init
BY DEF Init, Relay!Init, Settled

LEMMA RelayStep == IInv /\ IInv' /\ [Next]_vars => [Relay!Next]_(Relay!vars)
<1> SUFFICES ASSUME IInv, IInv', [Next]_vars  PROVE [Relay!Next]_(Relay!vars)
  OBVIOUS
<1>1. Carries
  BY CarriesStep DEF IInv
<1>2. ASSUME UNCHANGED <<committed, accepted>>, faults' >= faults
      PROVE  Relay!Next
  BY <1>1, <1>2, SettleStep DEF Relay!Next
<1>3. ASSUME NEW e \in Events, Commit(e)  PROVE Relay!Next
  BY <1>3, CommitStep DEF Relay!Next
<1>4. ASSUME NEW r \in Replicas, BrokerAccepts(r)  PROVE Relay!Next
  BY <1>4, TellStep DEF Relay!Next
<1>5. faults \in Nat
  BY MaxFaultsAssumption DEF IInv, TypeOK
<1>6. ASSUME NEW e \in Events, Create(e)
      PROVE  UNCHANGED <<committed, accepted>> /\ faults' >= faults
  BY <1>5, <1>6 DEF Create, broker
<1>7. ASSUME NEW r \in Replicas,
             \/ TimerFires(r) \/ FindUnpublished(r) \/ Connect(r) \/ Publish(r)
             \/ PublishFails(r) \/ MarkPublished(r)
      PROVE  UNCHANGED <<committed, accepted>> /\ faults' >= faults
  BY <1>5, <1>7 DEF TimerFires, FindUnpublished, Connect, Publish, PublishFails,
                    MarkPublished, rows, broker
<1>8. ASSUME NEW r \in Replicas,
             \/ FindFails(r) \/ MarkFails(r) \/ ConnectDead(r)
             \/ ConnectionDrops(r) \/ Crash(r)
      PROVE  UNCHANGED <<committed, accepted>> /\ faults' >= faults
  BY <1>5, <1>8 DEF FindFails, MarkFails, ConnectDead, ConnectionDrops, Crash, Fault,
                    rows, broker
<1>9. CASE UNCHANGED vars
  BY <1>2, <1>5, <1>9 DEF vars, rows, broker
<1> QED
  BY <1>2, <1>3, <1>4, <1>6, <1>7, <1>8, <1>9 DEF Next, Poll

(* The relays of all replicas, polling the same rows without locks and     *)
(* failing anywhere, are one at-least-once relay: every step of theirs is  *)
(* a step of OutboxRelay or changes nothing there.                         *)
THEOREM Refinement == Spec => ImplementsRelay
<1>1. Spec => Relay!Init /\ [][Relay!Next]_(Relay!vars)
  BY RelayInit, RelayStep, Invariance, PTL DEF Spec
<1> QED
  BY <1>1 DEF ImplementsRelay, Relay!Safety
=============================================================================
