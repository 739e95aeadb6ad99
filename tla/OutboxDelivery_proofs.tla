------------------------ MODULE OutboxDelivery_proofs ------------------------
(***************************************************************************)
(* Proofs about what the broker gets from the relays, for any finite set   *)
(* of replicas and any events, page size and number of faults: causes      *)
(* before effects unless they failed, and a bound on the copies.           *)
(***************************************************************************)
EXTENDS OutboxPublisher_proofs, FiniteSetTheorems

(* The rows: an event is created once, commits after that, reaches the     *)
(* broker after that, and an event that had committed is the older one.    *)
CreatedInv ==
    /\ \A i, j \in 1..Len(created) : created[i] = created[j] => i = j
    /\ \A e \in committed : In(e, created)
    /\ \A e \in Events : accepted[e] > 0 => e \in committed
    /\ \A e, f \in Events : <<e, f>> \in causes => e \in committed /\ Older(e, f)

(* The position in creation order decides who is older. *)
LEMMA OlderIsAnOrder ==
    ASSUME TypeOK, CreatedInv, NEW e, NEW f, Older(e, f)
    PROVE  e # f /\ ~Older(f, e)
<1>1. PICK i, j \in 1..Len(created) : i < j /\ created[i] = e /\ created[j] = f
  BY DEF Older
<1>2. \A k \in 1..Len(created) : /\ created[k] = e => k = i
                                 /\ created[k] = f => k = j
  BY <1>1 DEF CreatedInv
<1>3. Len(created) \in Nat
  BY DEF TypeOK
<1> QED
  BY <1>1, <1>2, <1>3 DEF Older

LEMMA OlderStays ==
    ASSUME NEW S, created \in Seq(S), NEW g \in S, created' = Append(created, g),
           NEW e, NEW f, Older(e, f) \/ (f = g /\ In(e, created))
    PROVE  Older(e, f)'
<1>1. /\ Len(created) \in Nat /\ Len(created') = Len(created) + 1
      /\ \A i \in 1..Len(created) : created'[i] = created[i]
      /\ created'[Len(created) + 1] = g
  OBVIOUS
<1>2. CASE Older(e, f)
  BY <1>1, <1>2 DEF Older
<1>3. CASE f = g /\ In(e, created)
  <2>1. PICK i \in 1..Len(created) : created[i] = e
    BY <1>3 DEF In
  <2>2. /\ i \in 1..Len(created') /\ Len(created) + 1 \in 1..Len(created')
        /\ i < Len(created) + 1
    BY <1>1
  <2> QED
    BY <1>1, <1>3, <2>1, <2>2 DEF Older
<1> QED
  BY <1>2, <1>3

LEMMA CreatedInit == Init => CreatedInv
BY EmptyHolds DEF Init, CreatedInv

LEMMA CreatedStep == TypeOK /\ CarriedInv /\ CreatedInv /\ [Next]_vars => CreatedInv'
<1> SUFFICES ASSUME TypeOK, CarriedInv, CreatedInv, [Next]_vars  PROVE CreatedInv'
  OBVIOUS
<1>1. ASSUME NEW g \in Events, Create(g)  PROVE CreatedInv'
  <2>1. created \in Seq(Events) /\ created' = Append(created, g)
    BY <1>1 DEF Create, TypeOK
  <2>2. /\ Len(created) \in Nat /\ Len(created') = Len(created) + 1
        /\ \A i \in 1..Len(created) : created'[i] = created[i]
        /\ created'[Len(created) + 1] = g
    BY <2>1
  <2>3. \A i, j \in 1..Len(created') : created'[i] = created'[j] => i = j
    BY <1>1, <2>2 DEF CreatedInv, Create
  <2>4. \A e \in committed' : In(e, created')
    BY <1>1, <2>1, AppendHolds DEF CreatedInv, Create
  <2>5. \A e \in Events : accepted'[e] > 0 => e \in committed'
    BY <1>1 DEF CreatedInv, Create, broker
  <2>6. \A e, f \in Events : <<e, f>> \in causes' => e \in committed' /\ Older(e, f)'
    <3> SUFFICES ASSUME NEW e \in Events, NEW f \in Events, <<e, f>> \in causes'
                 PROVE  e \in committed' /\ Older(e, f)'
      OBVIOUS
    <3>1. CASE <<e, f>> \in causes
      BY <1>1, <2>1, <3>1, OlderStays DEF CreatedInv, Create
    <3>2. CASE <<e, f>> \notin causes
      <4>1. e \in committed /\ f = g
        BY <1>1, <3>2 DEF Create
      <4> QED
        BY <1>1, <2>1, <4>1, OlderStays DEF CreatedInv, Create
    <3> QED
      BY <3>1, <3>2
  <2> QED
    BY <2>3, <2>4, <2>5, <2>6 DEF CreatedInv
<1>2. ASSUME NEW g \in Events, Commit(g)  PROVE CreatedInv'
  BY <1>2 DEF Commit, CreatedInv, Older, In, broker
<1>3. ASSUME NEW r \in Replicas, BrokerAccepts(r)  PROVE CreatedInv'
  <2>1. UNCHANGED rows
    BY <1>3 DEF BrokerAccepts
  <2>2. In(Head(wire[r]), wire[r]) /\ Head(wire[r]) \in Events
    BY <1>3, TailHolds DEF TypeOK, BrokerAccepts
  <2>3. \A e \in Events : accepted'[e] > 0 => e \in committed
    BY <1>3, <2>2 DEF BrokerAccepts, TypeOK, CarriedInv, CreatedInv
  <2> QED
    BY <2>1, <2>3 DEF CreatedInv, Older, rows
<1>4. ASSUME UNCHANGED <<rows, accepted>>  PROVE CreatedInv'
  BY <1>4 DEF CreatedInv, Older, rows
<1>5. ASSUME NEW r \in Replicas, \/ Poll(r) \/ FindFails(r) \/ MarkFails(r)
                                 \/ ConnectDead(r) \/ ConnectionDrops(r) \/ Crash(r)
      PROVE  UNCHANGED <<rows, accepted>>
  BY <1>5 DEF Poll, TimerFires, FindUnpublished, Connect, Publish, PublishFails,
              MarkPublished, FindFails, MarkFails, ConnectDead, ConnectionDrops, Crash,
              broker
<1>6. CASE UNCHANGED vars
  BY <1>4, <1>6 DEF vars, broker
<1> QED
  BY <1>1, <1>2, <1>3, <1>4, <1>5, <1>6 DEF Next

-----------------------------------------------------------------------------
(***************************************************************************)
(* CausesComeFirst.  A page lists an event after the pending ones it was   *)
(* caused by, and a poll publishes in that order, so whoever carries the   *)
(* effect has the cause before it, or finds it told or missed.             *)
(***************************************************************************)

(* Every f of a list has an e before it. *)
First(e, f, s) ==
    \A j \in 1..Len(s) : s[j] = f => \E i \in 1..(j - 1) : s[i] = e

(* No message of f has left a replica, and no poll has it without e. *)
Untold(e, f) ==
    /\ accepted[f] = 0 /\ ~OnAWire(f)
    /\ \A r \in Replicas : First(e, f, batch[r])

ToldInv ==
    \A e, f \in Events : <<e, f>> \in causes => Sent(e) \/ Untold(e, f)

(* A page has the pending causes of an event before it. *)
LEMMA PageFirst ==
    ASSUME TypeOK, CreatedInv, NEW n \in Nat, NEW page \in [1..n -> Events], IsPage(page),
           NEW e \in Events, NEW f \in Events, <<e, f>> \in causes, e \notin published
    PROVE  First(e, f, page)
<1> SUFFICES ASSUME NEW j \in 1..n, page[j] = f
             PROVE  \E i \in 1..(j - 1) : page[i] = e
  BY DEF First
<1>1. Len(page) = n
  OBVIOUS
<1>2. Older(e, f) /\ e # f /\ ~Older(f, e) /\ e \in Pending
  BY OlderIsAnOrder DEF CreatedInv, Pending
<1>3. In(e, page)
  BY <1>1, <1>2 DEF IsPage
<1>4. PICK i \in 1..n : page[i] = e
  BY <1>1, <1>3 DEF In
<1>5. ~(j < i) /\ i # j
  BY <1>1, <1>2, <1>4 DEF IsPage
<1> QED
  BY <1>4, <1>5

(* The rest of a list keeps e first once its head is neither. *)
LEMMA TailFirst ==
    ASSUME NEW S, NEW s \in Seq(S), s # <<>>, NEW e, NEW f, First(e, f, s), Head(s) # e
    PROVE  Head(s) # f /\ First(e, f, Tail(s))
<1>1. Len(s) \in Nat \ {0} /\ Head(s) = s[1] /\ Len(Tail(s)) = Len(s) - 1
  OBVIOUS
<1>2. \A i \in 1..(Len(s) - 1) : Tail(s)[i] = s[i + 1]
  OBVIOUS
<1>3. Head(s) # f
  BY <1>1 DEF First
<1>4. ASSUME NEW j \in 1..(Len(s) - 1), Tail(s)[j] = f
      PROVE  \E i \in 1..(j - 1) : Tail(s)[i] = e
  <2>1. j + 1 \in 1..Len(s) /\ s[j + 1] = f
    BY <1>1, <1>2, <1>4
  <2>2. PICK i \in 1..((j + 1) - 1) : s[i] = e
    BY <2>1 DEF First
  <2>3. i # 1 /\ i - 1 \in 1..(j - 1) /\ i - 1 \in 1..(Len(s) - 1)
    BY <1>1, <2>2
  <2>4. Tail(s)[i - 1] = s[(i - 1) + 1] /\ (i - 1) + 1 = i
    BY <1>2, <2>3
  <2> QED
    BY <2>2, <2>3, <2>4
<1> QED
  BY <1>1, <1>3, <1>4 DEF First

(* A poll going on keeps the effect behind the cause. *)
LEMMA UntoldContinues ==
    ASSUME TypeOK, NEW e, NEW f, Untold(e, f), NEW r \in Replicas, NEW events,
           Continues(r, events), First(e, f, events), UNCHANGED <<wire, accepted>>
    PROVE  Untold(e, f)'
<1>1. \A q \in Replicas : batch'[q] = IF q = r THEN events ELSE batch[q]
  BY DEF Continues, TypeOK
<1> QED
  BY <1>1 DEF Untold, OnAWire

LEMMA UntoldStep ==
    ASSUME IInv, CreatedInv, [Next]_vars, NEW e \in Events, NEW f \in Events,
           <<e, f>> \in causes, ~Sent(e), Untold(e, f)
    PROVE  Sent(e)' \/ Untold(e, f)'
<1> USE DEF IInv
<1>1. e \notin published
  BY DEF SentInv
<1>2. ASSUME NEW r \in Replicas, FindFails(r)  PROVE Untold(e, f)'
  <2>1. First(e, f, <<>>)
    BY EmptyHolds DEF First
  <2> QED
    BY <1>2, <2>1, UntoldContinues DEF FindFails, broker
<1>3. ASSUME NEW r \in Replicas, FindUnpublished(r)  PROVE Untold(e, f)'
  <2>1. PICK n \in 0..PageSize : \E page \in [1..n -> Events] :
                                     IsPage(page) /\ Continues(r, page)
    BY <1>3 DEF FindUnpublished, Take
  <2>2. PICK page \in [1..n -> Events] : IsPage(page) /\ Continues(r, page)
    BY <2>1
  <2>3. First(e, f, page)
    BY <1>1, <2>2, PageSizeAssumption, PageFirst
  <2> QED
    BY <1>3, <2>2, <2>3, UntoldContinues DEF FindUnpublished, broker
<1>4. ASSUME NEW r \in Replicas, MarkPublished(r) \/ MarkFails(r)  PROVE Untold(e, f)'
  <2>1. batch[r] # <<>> /\ batch[r] \in Seq(Events)
    BY <1>4 DEF TypeOK, MarkPublished, MarkFails
  <2>2. Head(batch[r]) # e
    BY <1>4 DEF SentInv, MarkPublished, MarkFails
  <2>3. First(e, f, Tail(batch[r]))
    BY <2>1, <2>2, TailFirst DEF Untold
  <2> QED
    BY <1>4, <2>3, UntoldContinues DEF MarkPublished, MarkFails, broker
<1>5. ASSUME NEW r \in Replicas, PublishFails(r)  PROVE Sent(e)' \/ Untold(e, f)'
  <2>1. batch[r] # <<>> /\ batch[r] \in Seq(Events)
    BY <1>5 DEF TypeOK, PublishFails
  <2>2. CASE Head(batch[r]) = e
    BY <1>5, <2>2 DEF PublishFails, Sent
  <2>3. CASE Head(batch[r]) # e
    <3>1. First(e, f, Tail(batch[r]))
      BY <2>1, <2>3, TailFirst DEF Untold
    <3> QED
      BY <1>5, <3>1, UntoldContinues DEF PublishFails, broker
  <2> QED
    BY <2>2, <2>3
<1>6. ASSUME NEW r \in Replicas, Publish(r)  PROVE Untold(e, f)'
  <2>1. batch[r] # <<>> /\ batch[r] \in Seq(Events) /\ wire[r] \in Seq(Events)
    BY <1>6 DEF TypeOK, Publish
  <2>2. Head(batch[r]) # f /\ Head(batch[r]) \in Events
    <3>1. Len(batch[r]) \in Nat \ {0} /\ Head(batch[r]) = batch[r][1]
      BY <2>1
    <3> QED
      BY <2>1, <3>1, TailHolds DEF Untold, First
  <2>3. ~In(f, Append(wire[r], Head(batch[r])))
    BY <2>1, <2>2, AppendHolds DEF Untold, OnAWire
  <2>4. \A q \in Replicas : wire'[q] = IF q = r THEN Append(wire[r], Head(batch[r]))
                                                ELSE wire[q]
    BY <1>6 DEF TypeOK, Publish
  <2> QED
    BY <1>6, <2>3, <2>4 DEF Untold, OnAWire, Publish
<1>7. ASSUME NEW r \in Replicas, BrokerAccepts(r)  PROVE Untold(e, f)'
  <2>1. \A g : In(g, wire[r]) <=> g = Head(wire[r]) \/ In(g, Tail(wire[r]))
    BY <1>7, TailHolds DEF TypeOK, BrokerAccepts
  <2>2. \A q \in Replicas : wire'[q] = IF q = r THEN Tail(wire[r]) ELSE wire[q]
    BY <1>7 DEF TypeOK, BrokerAccepts
  <2>3. accepted'[f] = accepted[f]
    BY <1>7, <2>1 DEF TypeOK, BrokerAccepts, Untold, OnAWire
  <2> QED
    BY <1>7, <2>1, <2>2, <2>3 DEF Untold, OnAWire, BrokerAccepts, publisher
<1>8. ASSUME NEW r \in Replicas, ConnectionDrops(r) \/ Crash(r)  PROVE Untold(e, f)'
  <2>1. /\ \A q \in Replicas : wire'[q] = IF q = r THEN <<>> ELSE wire[q]
        /\ \A q \in Replicas : batch'[q] \in {batch[q], <<>>}
        /\ UNCHANGED accepted
    BY <1>8 DEF TypeOK, ConnectionDrops, Crash, publisher
  <2>2. First(e, f, <<>>)
    BY EmptyHolds DEF First
  <2>3. \A q \in Replicas : First(e, f, batch[q])'
    BY <2>1, <2>2 DEF Untold, First
  <2> QED
    BY <2>1, <2>3, EmptyHolds DEF Untold, OnAWire
<1>9. ASSUME UNCHANGED <<batch, wire, accepted>>  PROVE Untold(e, f)'
  BY <1>9 DEF Untold, OnAWire
<1>10. ASSUME NEW r \in Replicas, TimerFires(r) \/ Connect(r) \/ ConnectDead(r)
       PROVE  UNCHANGED <<batch, wire, accepted>>
  BY <1>10 DEF TimerFires, Connect, ConnectDead, broker
<1>11. ASSUME NEW g \in Events, Create(g) \/ Commit(g)
       PROVE  UNCHANGED <<batch, wire, accepted>>
  BY <1>11 DEF Create, Commit, publisher, broker
<1>12. CASE UNCHANGED vars
  BY <1>9, <1>12 DEF vars, publisher, broker
<1> QED
  BY <1>2, <1>3, <1>4, <1>5, <1>6, <1>7, <1>8, <1>9, <1>10, <1>11, <1>12 DEF Next, Poll

(* An event just created is on no wire and in no poll. *)
LEMMA CreatedUntold ==
    ASSUME IInv, CreatedInv, NEW f \in Events, Create(f), NEW e
    PROVE  Untold(e, f)'
<1>1. ~In(f, created)
  BY DEF Create, In
<1>2. f \notin committed
  BY <1>1 DEF CreatedInv
<1>3. accepted[f] = 0 /\ ~OnAWire(f) /\ \A r \in Replicas : ~In(f, batch[r])
  BY <1>2 DEF IInv, TypeOK, CarriedInv, CreatedInv, OnAWire
<1>4. UNCHANGED <<batch, wire, accepted>>
  BY DEF Create, publisher, broker
<1> QED
  BY <1>3, <1>4 DEF Untold, First, In, OnAWire

LEMMA ToldStep == IInv /\ CreatedInv /\ ToldInv /\ [Next]_vars => ToldInv'
<1> SUFFICES ASSUME IInv, CreatedInv, ToldInv, [Next]_vars,
                    NEW e \in Events, NEW f \in Events, <<e, f>> \in causes'
             PROVE  Sent(e)' \/ Untold(e, f)'
  BY DEF ToldInv
<1>1. CASE <<e, f>> \in causes
  <2>1. CASE Sent(e)
    BY <2>1, SentStays DEF IInv
  <2>2. CASE ~Sent(e)
    BY <1>1, <2>2, UntoldStep DEF ToldInv, Sent
  <2> QED
    BY <2>1, <2>2
<1>2. CASE <<e, f>> \notin causes
  <2>1. Create(f)
    <3>1. ASSUME NEW g \in Events, Create(g)  PROVE f = g
      BY <1>2, <3>1 DEF Create
    <3>2. ASSUME causes' = causes  PROVE FALSE
      BY <1>2, <3>2
    <3>3. \/ causes' = causes
          \/ \E g \in Events : Create(g)
      BY DEF Next, Commit, Poll, TimerFires, FindUnpublished, Connect, Publish,
             PublishFails, MarkPublished, BrokerAccepts, FindFails, MarkFails,
             ConnectDead, ConnectionDrops, Crash, rows, vars
    <3> QED
      BY <3>1, <3>2, <3>3
  <2> QED
    BY <2>1, CreatedUntold
<1> QED
  BY <1>1, <1>2

CausesInv == CreatedInv /\ ToldInv

(* The broker is told of an event only after, or with a copy on the wire   *)
(* of, every event that had committed when it was created, whatever fails: *)
(* the ones missing there failed to be written or were lost themselves.    *)
THEOREM CausesAreToldFirst == Spec => []CausesComeFirst
<1>1. Init => CausesInv
  BY CreatedInit DEF Init, CausesInv, ToldInv
<1>2. IInv /\ CausesInv /\ [Next]_vars => CausesInv'
  BY CreatedStep, ToldStep DEF IInv, CausesInv
<1>3. IInv /\ CausesInv => CausesComeFirst
  BY DEF CausesInv, ToldInv, Sent, Untold, CausesComeFirst, IInv, TypeOK
<1> QED
  BY <1>1, <1>2, <1>3, Invariance, PTL DEF Spec

-----------------------------------------------------------------------------
(***************************************************************************)
(* CopiesAreBounded.  A budget: the copies of an event at the broker, the  *)
(* copies on the wires and the replicas that may still write one more are  *)
(* at most the replicas and the faults together.                           *)
(***************************************************************************)
Distinct(s) == \A i, j \in 1..Len(s) : s[i] = s[j] => i = j

(* The places of the wires that hold e. *)
Wired(e) ==
    {p \in Replicas \X Nat : p[2] \in 1..Len(wire[p[1]]) /\ wire[p[1]][p[2]] = e}

(* A replica may write e once more unless e is marked or has been written  *)
(* by the poll that is going on.                                           *)
MayWrite(r, e) ==
    /\ e \notin published \/ In(e, batch[r])
    /\ ~(await[r] = "mark" /\ Head(batch[r]) = e)

Writers(e) == {r \in Replicas : MayWrite(r, e)}

Budget(e) ==
    /\ IsFiniteSet(Wired(e))
    /\ accepted[e] + Cardinality(Wired(e)) + Cardinality(Writers(e))
          <= Cardinality(Replicas) + faults

CopiesInv ==
    /\ \A r \in Replicas : Distinct(batch[r])
    /\ \A e \in Events : Budget(e)

-----------------------------------------------------------------------------
LEMMA DistinctTail ==
    ASSUME NEW S, NEW s \in Seq(S), s # <<>>, Distinct(s)
    PROVE  Distinct(Tail(s)) /\ ~In(Head(s), Tail(s))
<1>1. Len(s) \in Nat \ {0} /\ Head(s) = s[1] /\ Len(Tail(s)) = Len(s) - 1
  OBVIOUS
<1>2. \A i \in 1..(Len(s) - 1) : Tail(s)[i] = s[i + 1]
  OBVIOUS
<1> QED
  BY <1>1, <1>2 DEF Distinct, In

LEMMA DistinctPage ==
    ASSUME TypeOK, CreatedInv, NEW n \in Nat, NEW page \in [1..n -> Events], IsPage(page)
    PROVE  Distinct(page)
<1>1. Len(page) = n
  OBVIOUS
<1>2. \A i, j \in 1..n : i < j => page[i] # page[j]
  BY <1>1, OlderIsAnOrder DEF IsPage
<1> QED
  BY <1>1, <1>2 DEF Distinct

(* How batches change: not at all, to a page, to a tail or to nothing. *)
LEMMA DistinctStep ==
    ASSUME TypeOK, CreatedInv, [Next]_vars, \A r \in Replicas : Distinct(batch[r])
    PROVE  \A r \in Replicas : Distinct(batch'[r])
<1>1. ASSUME NEW r \in Replicas, NEW events, Continues(r, events), Distinct(events)
      PROVE  \A q \in Replicas : Distinct(batch'[q])
  BY <1>1 DEF Continues, TypeOK
<1>2. Distinct(<<>>)
  BY DEF Distinct
<1>3. ASSUME NEW r \in Replicas, FindUnpublished(r)
      PROVE  \A q \in Replicas : Distinct(batch'[q])
  <2>1. PICK n \in 0..PageSize : \E page \in [1..n -> Events] :
                                     IsPage(page) /\ Continues(r, page)
    BY <1>3 DEF FindUnpublished, Take
  <2>2. PICK page \in [1..n -> Events] : IsPage(page) /\ Continues(r, page)
    BY <2>1
  <2> QED
    BY <1>1, <2>2, PageSizeAssumption, DistinctPage
<1>4. ASSUME NEW r \in Replicas, MarkPublished(r) \/ PublishFails(r) \/ MarkFails(r)
      PROVE  \A q \in Replicas : Distinct(batch'[q])
  <2>1. batch[r] # <<>> /\ batch[r] \in Seq(Events)
    BY <1>4 DEF TypeOK, MarkPublished, PublishFails, MarkFails
  <2> QED
    BY <1>1, <1>4, <2>1, DistinctTail DEF MarkPublished, PublishFails, MarkFails
<1>5. ASSUME NEW r \in Replicas, Crash(r)  PROVE \A q \in Replicas : Distinct(batch'[q])
  BY <1>2, <1>5 DEF Crash, TypeOK
<1>6. ASSUME NEW r \in Replicas, FindFails(r)  PROVE \A q \in Replicas : Distinct(batch'[q])
  BY <1>1, <1>2, <1>6 DEF FindFails
<1>7. ASSUME NEW r \in Replicas,
             \/ TimerFires(r) \/ Connect(r) \/ Publish(r) \/ BrokerAccepts(r)
             \/ ConnectDead(r) \/ ConnectionDrops(r)
      PROVE  batch' = batch
  BY <1>7 DEF TimerFires, Connect, Publish, BrokerAccepts, ConnectDead, ConnectionDrops,
              publisher
<1>8. ASSUME NEW e \in Events, Create(e) \/ Commit(e)  PROVE batch' = batch
  BY <1>8 DEF Create, Commit, publisher
<1>9. CASE UNCHANGED vars
  BY <1>9 DEF vars, publisher
<1> QED
  BY <1>3, <1>4, <1>5, <1>6, <1>7, <1>8, <1>9 DEF Next, Poll

-----------------------------------------------------------------------------
LEMMA ReplicasCounted == Cardinality(Replicas) \in Nat
BY FiniteReplicasAssumption, FS_CardinalityType

LEMMA SomeReplicas ==
    ASSUME NEW S, S \subseteq Replicas
    PROVE  /\ IsFiniteSet(S)
           /\ Cardinality(S) \in Nat
           /\ Cardinality(S) <= Cardinality(Replicas)
<1>1. S \in SUBSET Replicas
  OBVIOUS
<1> QED
  BY <1>1, FiniteReplicasAssumption, FS_Subset, FS_CardinalityType

LEMMA OneMore ==
    ASSUME NEW S, IsFiniteSet(S), NEW x, NEW T, T \subseteq S \cup {x}
    PROVE  /\ IsFiniteSet(T)
           /\ Cardinality(S) \in Nat /\ Cardinality(T) \in Nat
           /\ Cardinality(T) <= Cardinality(S) + 1
<1>1. /\ IsFiniteSet(S \cup {x})
      /\ Cardinality(S \cup {x}) = IF x \in S THEN Cardinality(S) ELSE Cardinality(S) + 1
  BY FS_AddElement
<1>2. Cardinality(S) \in Nat
  BY FS_CardinalityType
<1>3. T \in SUBSET (S \cup {x})
  OBVIOUS
<1>4. IsFiniteSet(T) /\ Cardinality(T) <= Cardinality(S \cup {x})
  BY <1>1, <1>3, FS_Subset
<1>5. Cardinality(T) \in Nat
  BY <1>4, FS_CardinalityType
<1> QED
  BY <1>1, <1>2, <1>4, <1>5

LEMMA NoMore ==
    ASSUME NEW S, IsFiniteSet(S), NEW T, T \subseteq S
    PROVE  /\ IsFiniteSet(T)
           /\ Cardinality(S) \in Nat /\ Cardinality(T) \in Nat
           /\ Cardinality(T) <= Cardinality(S)
<1>1. T \in SUBSET S
  OBVIOUS
<1>2. IsFiniteSet(T) /\ Cardinality(T) <= Cardinality(S)
  BY <1>1, FS_Subset
<1> QED
  BY <1>2, FS_CardinalityType

LEMMA OneLess ==
    ASSUME NEW S, IsFiniteSet(S), NEW x \in S, NEW T, T \subseteq S \ {x}
    PROVE  /\ IsFiniteSet(T)
           /\ Cardinality(S) \in Nat /\ Cardinality(T) \in Nat
           /\ Cardinality(T) <= Cardinality(S) - 1
<1>1. IsFiniteSet(S \ {x}) /\ Cardinality(S \ {x}) = Cardinality(S) - 1
  BY FS_RemoveElement
<1>2. IsFiniteSet(T) /\ Cardinality(T) \in Nat /\ Cardinality(T) <= Cardinality(S \ {x})
  BY <1>1, NoMore
<1> QED
  BY <1>1, <1>2, FS_CardinalityType

LEMMA BudgetTypes ==
    ASSUME TypeOK, NEW e \in Events
    PROVE  /\ accepted[e] \in Nat /\ faults \in Nat /\ Cardinality(Replicas) \in Nat
           /\ IsFiniteSet(Writers(e)) /\ Cardinality(Writers(e)) \in Nat
<1>1. Writers(e) \subseteq Replicas
  BY DEF Writers
<1>2. accepted[e] \in Nat /\ faults \in Nat
  BY MaxFaultsAssumption DEF TypeOK
<1> QED
  BY <1>1, <1>2, SomeReplicas, ReplicasCounted

(* A step that writes nothing of e, and costs at most its own fault. *)
LEMMA BudgetKept ==
    ASSUME TypeOK, NEW e \in Events, Budget(e), NEW r,
           Wired(e)' \subseteq Wired(e), accepted'[e] = accepted[e],
           \/ Writers(e)' \subseteq Writers(e) /\ faults' = faults
           \/ Writers(e)' \subseteq Writers(e) \cup {r} /\ faults' = faults + 1
    PROVE  Budget(e)'
<1>1. /\ IsFiniteSet(Wired(e)') /\ Cardinality(Wired(e)') \in Nat
      /\ Cardinality(Wired(e)) \in Nat
      /\ Cardinality(Wired(e)') <= Cardinality(Wired(e))
  BY NoMore DEF Budget
<1>2. /\ Cardinality(Writers(e)') \in Nat /\ Cardinality(Writers(e)) \in Nat
      /\ \/ /\ Cardinality(Writers(e)') <= Cardinality(Writers(e))
            /\ faults' = faults
         \/ /\ Cardinality(Writers(e)') <= Cardinality(Writers(e)) + 1
            /\ faults' = faults + 1
  BY BudgetTypes, NoMore, OneMore
<1>3. accepted[e] \in Nat /\ faults \in Nat /\ Cardinality(Replicas) \in Nat
  BY BudgetTypes
<1> QED
  BY <1>1, <1>2, <1>3 DEF Budget

LEMMA WiredAt ==
    ASSUME NEW q \in Replicas, NEW i \in Nat, NEW e,
           i \in 1..Len(wire[q]), wire[q][i] = e
    PROVE  <<q, i>> \in Wired(e)
<1>1. <<q, i>> \in Replicas \X Nat /\ <<q, i>>[1] = q /\ <<q, i>>[2] = i
  OBVIOUS
<1> QED
  BY <1>1 DEF Wired

(* Writing e: one writer becomes one copy on a wire. *)
LEMMA BudgetPublish ==
    ASSUME TypeOK, NEW r \in Replicas, Publish(r), NEW e \in Events, Budget(e)
    PROVE  Budget(e)'
<1> DEFINE n == Len(wire[r]) + 1
           h == Head(batch[r])
<1>1. /\ batch[r] # <<>> /\ batch[r] \in Seq(Events) /\ wire[r] \in Seq(Events)
      /\ await[r] = "assertExchange"
  BY DEF TypeOK, Publish
<1>2. h \in Events /\ In(h, batch[r])
  BY <1>1, TailHolds
<1>3. /\ \A q \in Replicas : wire'[q] = IF q = r THEN Append(wire[r], h) ELSE wire[q]
      /\ \A q \in Replicas : await'[q] = IF q = r THEN "mark" ELSE await[q]
      /\ UNCHANGED <<published, batch, accepted, faults>>
  BY DEF TypeOK, Publish
<1>4. /\ Len(Append(wire[r], h)) = n /\ Len(wire[r]) \in Nat
      /\ \A i \in 1..Len(wire[r]) : Append(wire[r], h)[i] = wire[r][i]
      /\ Append(wire[r], h)[n] = h
  BY <1>1, <1>2
<1>5. ASSUME NEW p \in Wired(e)'
      PROVE  p \in Wired(e) \/ (p = <<r, n>> /\ e = h)
  <2>1. PICK q \in Replicas, i \in Nat :
           p = <<q, i>> /\ i \in 1..Len(wire'[q]) /\ wire'[q][i] = e
    BY <1>5 DEF Wired
  <2>2. CASE q # r
    <3>1. i \in 1..Len(wire[q]) /\ wire[q][i] = e
      BY <1>3, <2>1, <2>2
    <3> QED
      <4>1. <<q, i>> \in Wired(e)
        BY <3>1, WiredAt
      <4> QED
        BY <2>1, <4>1
  <2>3. CASE q = r /\ i # n
    <3>1. wire'[r] = Append(wire[r], h)
      BY <1>3
    <3> HIDE DEF h
    <3>2. i \in 1..Len(wire[r])
      BY <1>4, <2>1, <2>3, <3>1
    <3>3. wire[q][i] = e
      BY <1>4, <2>1, <2>3, <3>1, <3>2
    <3> QED
      <4>1. <<q, i>> \in Wired(e)
        BY <2>3, <3>2, <3>3, WiredAt
      <4> QED
        BY <2>1, <4>1
  <2>4. CASE q = r /\ i = n
    BY <1>3, <1>4, <2>1, <2>4
  <2> QED
    BY <2>2, <2>3, <2>4
<1>6. CASE e # h
  <2>1. Wired(e)' \subseteq Wired(e)
    BY <1>5, <1>6
  <2>2. Writers(e)' \subseteq Writers(e)
    BY <1>1, <1>3 DEF Writers, MayWrite
  <2> QED
    BY <1>3, <2>1, <2>2, BudgetKept
<1>7. CASE e = h
  <2>1. Wired(e)' \subseteq Wired(e) \cup {<<r, n>>}
    BY <1>5
  <2>2. r \in Writers(e) /\ Writers(e)' \subseteq Writers(e) \ {r}
    BY <1>1, <1>2, <1>3, <1>7 DEF Writers, MayWrite
  <2>3. /\ IsFiniteSet(Wired(e)') /\ Cardinality(Wired(e)') \in Nat
        /\ Cardinality(Wired(e)) \in Nat
        /\ Cardinality(Wired(e)') <= Cardinality(Wired(e)) + 1
    BY <2>1, OneMore DEF Budget
  <2>4. /\ Cardinality(Writers(e)') \in Nat /\ Cardinality(Writers(e)) \in Nat
        /\ Cardinality(Writers(e)') <= Cardinality(Writers(e)) - 1
    BY <2>2, BudgetTypes, OneLess
  <2>5. accepted[e] \in Nat /\ faults \in Nat /\ Cardinality(Replicas) \in Nat
    BY BudgetTypes
  <2> QED
    BY <1>3, <2>3, <2>4, <2>5 DEF Budget
<1> QED
  BY <1>6, <1>7

(* A place of a wire after its head has gone to the broker was the next    *)
(* place before.                                                           *)
LEMMA WiredShift ==
    ASSUME TypeOK, NEW r \in Replicas, wire[r] # <<>>, NEW e,
           \A q \in Replicas : wire'[q] = IF q = r THEN Tail(wire[r]) ELSE wire[q],
           IsFiniteSet(Wired(e)), NEW T, T \subseteq Wired(e),
           <<r, 1>> \notin T,
           \A q \in Replicas, i \in Nat :
               <<q, i>> \in Wired(e) /\ (q = r => i # 1) => <<q, i>> \in T
    PROVE  /\ IsFiniteSet(Wired(e)') /\ Cardinality(Wired(e)') \in Nat
           /\ Cardinality(Wired(e)') <= Cardinality(T)
<1> DEFINE V == Wired(e)'
           shift == [p \in V |-> IF p[1] = r THEN <<r, p[2] + 1>> ELSE p]
<1>1. /\ Len(wire[r]) \in Nat \ {0} /\ Len(Tail(wire[r])) = Len(wire[r]) - 1
      /\ \A i \in 1..(Len(wire[r]) - 1) : Tail(wire[r])[i] = wire[r][i + 1]
  BY DEF TypeOK
<1>2. \A p \in V : /\ p = <<p[1], p[2]>> /\ p[1] \in Replicas /\ p[2] \in Nat
                   /\ p[2] \in 1..Len(wire'[p[1]]) /\ wire'[p[1]][p[2]] = e
  BY DEF Wired
<1>3. ASSUME NEW p \in V  PROVE shift[p] \in T
  <2>1. PICK q \in Replicas, i \in Nat :
           p = <<q, i>> /\ i \in 1..Len(wire'[q]) /\ wire'[q][i] = e
    BY <1>2
  <2>2. CASE q = r
    <3>1. wire'[r] = Tail(wire[r])
      OBVIOUS
    <3>2. i \in 1..(Len(wire[r]) - 1)
      BY <1>1, <2>1, <2>2, <3>1
    <3>3. i + 1 \in 1..Len(wire[r]) /\ wire[r][i + 1] = e /\ i + 1 # 1 /\ i + 1 \in Nat
      BY <1>1, <2>1, <2>2, <3>1, <3>2
    <3>4. <<r, i + 1>> \in T
      BY <3>3, WiredAt
    <3> QED
      BY <2>1, <2>2, <3>4
  <2>3. CASE q # r
    <3>1. wire'[q] = wire[q]
      BY <2>3
    <3>2. <<q, i>> \in T
      BY <2>1, <2>3, <3>1, WiredAt
    <3> QED
      BY <2>1, <2>3, <3>2
  <2> QED
    BY <2>2, <2>3
<1>4. \A p, s \in V : shift[p] = shift[s] => p = s
  <2> SUFFICES ASSUME NEW p \in V, NEW s \in V, shift[p] = shift[s]
               PROVE  p = s
    OBVIOUS
  <2>1. PICK q \in Replicas, i \in Nat : p = <<q, i>>
    BY <1>2
  <2>2. PICK t \in Replicas, j \in Nat : s = <<t, j>>
    BY <1>2
  <2>3. shift[p] = (IF q = r THEN <<r, i + 1>> ELSE <<q, i>>)
    BY <2>1
  <2>4. shift[s] = (IF t = r THEN <<r, j + 1>> ELSE <<t, j>>)
    BY <2>2
  <2> HIDE DEF shift, V
  <2>5. (IF q = r THEN <<r, i + 1>> ELSE <<q, i>>)
           = (IF t = r THEN <<r, j + 1>> ELSE <<t, j>>)
    BY <2>3, <2>4
  <2>6. q = t /\ i = j
    <3>1. CASE q = r /\ t = r
      <4>1. <<r, i + 1>> = <<r, j + 1>>
        BY <2>5, <3>1
      <4> QED
        BY <3>1, <4>1
    <3>2. CASE q = r /\ t # r
      <4>1. <<r, i + 1>> = <<t, j>>
        BY <2>5, <3>2
      <4> QED
        BY <3>2, <4>1
    <3>3. CASE q # r /\ t = r
      <4>1. <<q, i>> = <<r, j + 1>>
        BY <2>5, <3>3
      <4> QED
        BY <3>3, <4>1
    <3>4. CASE q # r /\ t # r
      <4>1. <<q, i>> = <<t, j>>
        BY <2>5, <3>4
      <4> QED
        BY <4>1
    <3> QED
      BY <3>1, <3>2, <3>3, <3>4
  <2> QED
    BY <2>1, <2>2, <2>6
<1>5. shift \in Injection(V, T)
  BY <1>3, <1>4 DEF Injection, IsInjective
<1> HIDE DEF V, shift
<1>6. IsFiniteSet(T)
  BY NoMore
<1>7. IsFiniteSet(V) /\ Cardinality(V) <= Cardinality(T)
  BY <1>5, <1>6, FS_Injection
<1> QED
  BY <1>7, FS_CardinalityType DEF V

(* The broker taking e: one copy on a wire becomes one at the broker. *)
LEMMA BudgetAccepts ==
    ASSUME TypeOK, NEW r \in Replicas, BrokerAccepts(r), NEW e \in Events, Budget(e)
    PROVE  Budget(e)'
<1> DEFINE h == Head(wire[r])
<1>1. wire[r] # <<>> /\ wire[r] \in Seq(Events)
  BY DEF TypeOK, BrokerAccepts
<1>2. /\ \A q \in Replicas : wire'[q] = IF q = r THEN Tail(wire[r]) ELSE wire[q]
      /\ accepted'[e] = IF e = h THEN accepted[e] + 1 ELSE accepted[e]
      /\ UNCHANGED <<published, await, batch, faults>>
  BY DEF TypeOK, BrokerAccepts, publisher
<1>3. Writers(e)' = Writers(e)
  BY <1>2 DEF Writers, MayWrite
<1>4. <<r, 1>> \in Wired(e) <=> e = h
  <2>1. 1 \in 1..Len(wire[r]) /\ wire[r][1] = h
    BY <1>1
  <2>2. <<r, 1>> \in Wired(e) => wire[r][1] = e
    BY DEF Wired
  <2> QED
    BY <2>1, <2>2, WiredAt
<1>5. IsFiniteSet(Wired(e))
  BY DEF Budget
<1>6. /\ accepted[e] \in Nat /\ faults \in Nat /\ Cardinality(Replicas) \in Nat
      /\ Cardinality(Writers(e)) \in Nat
  BY BudgetTypes
<1>7. CASE e = h
  <2> DEFINE T == Wired(e) \ {<<r, 1>>}
  <2>1. /\ IsFiniteSet(Wired(e)') /\ Cardinality(Wired(e)') \in Nat
        /\ Cardinality(Wired(e)') <= Cardinality(T)
    <3>1. /\ T \subseteq Wired(e) /\ <<r, 1>> \notin T
          /\ \A q \in Replicas, i \in Nat :
               <<q, i>> \in Wired(e) /\ (q = r => i # 1) => <<q, i>> \in T
      OBVIOUS
    <3> HIDE DEF T
    <3> QED
      BY <1>1, <1>2, <1>5, <3>1, WiredShift
  <2>2. /\ Cardinality(T) \in Nat /\ Cardinality(Wired(e)) \in Nat
        /\ Cardinality(T) <= Cardinality(Wired(e)) - 1
    BY <1>4, <1>5, <1>7, OneLess
  <2> HIDE DEF T, h
  <2> QED
    BY <1>2, <1>3, <1>6, <1>7, <2>1, <2>2 DEF Budget
<1>8. CASE e # h
  <2>1. /\ IsFiniteSet(Wired(e)') /\ Cardinality(Wired(e)') \in Nat
        /\ Cardinality(Wired(e)') <= Cardinality(Wired(e))
    BY <1>1, <1>2, <1>4, <1>5, <1>8, WiredShift
  <2>2. Cardinality(Wired(e)) \in Nat
    BY <1>5, FS_CardinalityType
  <2> HIDE DEF h
  <2> QED
    BY <1>2, <1>3, <1>6, <1>8, <2>1, <2>2 DEF Budget
<1> QED
  BY <1>7, <1>8

(* How the loop of a poll changes who may write. *)
LEMMA WritersContinue ==
    ASSUME TypeOK, NEW r \in Replicas, NEW events, Continues(r, events), NEW e,
           published \subseteq published'
    PROVE  /\ Writers(e)' \subseteq Writers(e) \cup {r}
           /\ (MayWrite(r, e)' => MayWrite(r, e)) => Writers(e)' \subseteq Writers(e)
<1>1. \A q \in Replicas : q # r => batch'[q] = batch[q] /\ await'[q] = await[q]
  BY DEF Continues, TypeOK
<1>2. \A q \in Replicas : q # r /\ MayWrite(q, e)' => MayWrite(q, e)
  BY <1>1 DEF MayWrite
<1> QED
  BY <1>2 DEF Writers

LEMMA BudgetStep ==
    ASSUME IInv, CreatedInv, CopiesInv, [Next]_vars, NEW e \in Events
    PROVE  Budget(e)'
<1> USE DEF IInv
<1>1. Budget(e)
  BY DEF CopiesInv
<1>2. ASSUME UNCHANGED <<wire, accepted>>
      PROVE  Wired(e)' \subseteq Wired(e) /\ accepted'[e] = accepted[e]
  BY <1>2 DEF Wired
<1>3. ASSUME NEW r \in Replicas, FindUnpublished(r)  PROVE Budget(e)'
  <2>1. PICK n \in 0..PageSize : \E page \in [1..n -> Events] :
                                     IsPage(page) /\ Continues(r, page)
    BY <1>3 DEF FindUnpublished, Take
  <2>2. PICK page \in [1..n -> Events] : IsPage(page) /\ Continues(r, page)
    BY <2>1
  <2>3. UNCHANGED <<wire, accepted, published, faults>> /\ await[r] = "find"
    BY <1>3 DEF FindUnpublished, broker
  <2>4. MayWrite(r, e)' => MayWrite(r, e)
    <3>1. In(e, page) => e \notin published
      BY <2>2 DEF IsPage, In, Pending
    <3>2. batch'[r] = page
      BY <2>2 DEF Continues, TypeOK
    <3> QED
      BY <2>3, <3>1, <3>2 DEF MayWrite
  <2>5. Writers(e)' \subseteq Writers(e)
    BY <2>2, <2>3, <2>4, WritersContinue
  <2> QED
    BY <1>1, <1>2, <2>3, <2>5, BudgetKept
<1>4. ASSUME NEW r \in Replicas, MarkPublished(r)  PROVE Budget(e)'
  <2>1. /\ batch[r] # <<>> /\ batch[r] \in Seq(Events) /\ await[r] = "mark"
        /\ Continues(r, Tail(batch[r])) /\ published' = published \cup {Head(batch[r])}
        /\ UNCHANGED <<wire, accepted, faults>>
    BY <1>4 DEF TypeOK, MarkPublished, broker
  <2>2. /\ ~In(Head(batch[r]), Tail(batch[r]))
        /\ \A g : In(g, Tail(batch[r])) => In(g, batch[r])
    BY <2>1, DistinctTail, TailHolds DEF CopiesInv
  <2>3. batch'[r] = Tail(batch[r])
    BY <2>1 DEF Continues, TypeOK
  <2>4. MayWrite(r, e)' => MayWrite(r, e)
    BY <2>1, <2>2, <2>3 DEF MayWrite
  <2>5. Writers(e)' \subseteq Writers(e)
    BY <2>1, <2>4, WritersContinue
  <2> QED
    BY <1>1, <1>2, <2>1, <2>5, BudgetKept
<1>5. ASSUME NEW r \in Replicas, PublishFails(r)  PROVE Budget(e)'
  <2>1. /\ batch[r] # <<>> /\ batch[r] \in Seq(Events) /\ await[r] = "assertExchange"
        /\ Continues(r, Tail(batch[r]))
        /\ UNCHANGED <<wire, accepted, faults, published>>
    BY <1>5 DEF TypeOK, PublishFails, broker
  <2>2. \A g : In(g, Tail(batch[r])) => In(g, batch[r])
    BY <2>1, TailHolds
  <2>3. batch'[r] = Tail(batch[r])
    BY <2>1 DEF Continues, TypeOK
  <2>4. MayWrite(r, e)' => MayWrite(r, e)
    BY <2>1, <2>2, <2>3 DEF MayWrite
  <2>5. Writers(e)' \subseteq Writers(e)
    BY <2>1, <2>4, WritersContinue
  <2> QED
    BY <1>1, <1>2, <2>1, <2>5, BudgetKept
<1>6. ASSUME NEW r \in Replicas, MarkFails(r) \/ FindFails(r)  PROVE Budget(e)'
  <2>1. /\ \E events : Continues(r, events)
        /\ UNCHANGED <<wire, accepted, published>> /\ faults' = faults + 1
    BY <1>6 DEF MarkFails, FindFails, Fault, broker
  <2>2. Writers(e)' \subseteq Writers(e) \cup {r}
    BY <2>1, WritersContinue
  <2> QED
    BY <1>1, <1>2, <2>1, <2>2, BudgetKept
<1>7. ASSUME NEW r \in Replicas, Crash(r) \/ ConnectionDrops(r)  PROVE Budget(e)'
  <2>1. /\ \A q \in Replicas : q # r => /\ batch'[q] = batch[q] /\ await'[q] = await[q]
                                        /\ wire'[q] = wire[q]
        /\ wire'[r] = <<>>
        /\ UNCHANGED <<accepted, published>> /\ faults' = faults + 1
    BY <1>7 DEF Crash, ConnectionDrops, Fault, publisher, TypeOK
  <2>2. Wired(e)' \subseteq Wired(e)
    <3> SUFFICES ASSUME NEW p \in Wired(e)'  PROVE p \in Wired(e)
      OBVIOUS
    <3>1. p \in Replicas \X Nat /\ p[2] \in 1..Len(wire'[p[1]]) /\ wire'[p[1]][p[2]] = e
      BY DEF Wired
    <3>2. p[1] # r
      BY <2>1, <3>1, EmptyHolds
    <3>3. wire'[p[1]] = wire[p[1]]
      BY <2>1, <3>1, <3>2
    <3> QED
      BY <3>1, <3>3 DEF Wired
  <2>3. Writers(e)' \subseteq Writers(e) \cup {r}
    BY <2>1 DEF Writers, MayWrite
  <2> QED
    BY <1>1, <2>1, <2>2, <2>3, BudgetKept
<1>8. ASSUME NEW r \in Replicas, TimerFires(r) \/ Connect(r) \/ ConnectDead(r)
      PROVE  Budget(e)'
  <2>1. /\ UNCHANGED <<wire, accepted, published, batch>>
        /\ faults' \in {faults, faults + 1}
        /\ \A q \in Replicas : await[q] = "mark" => await'[q] = "mark"
    BY <1>8 DEF TimerFires, Connect, ConnectDead, Fault, broker, TypeOK
  <2>2. Writers(e)' \subseteq Writers(e)
    BY <2>1 DEF Writers, MayWrite
  <2> QED
    BY <1>1, <1>2, <2>1, <2>2, BudgetKept
<1>9. ASSUME UNCHANGED <<published, publisher, broker, faults>>  PROVE Budget(e)'
  BY <1>1, <1>9 DEF Budget, Wired, Writers, MayWrite, publisher, broker
<1>10. ASSUME NEW g \in Events, Create(g) \/ Commit(g)  PROVE Budget(e)'
  BY <1>9, <1>10 DEF Create, Commit
<1>11. CASE UNCHANGED vars
  BY <1>9, <1>11 DEF vars
<1> QED
  BY <1>1, <1>3, <1>4, <1>5, <1>6, <1>7, <1>8, <1>10, <1>11, BudgetPublish,
     BudgetAccepts DEF Next, Poll

LEMMA CopiesInit == Init => CopiesInv
<1> SUFFICES ASSUME Init  PROVE CopiesInv
  OBVIOUS
<1>1. \A r \in Replicas : Distinct(batch[r])
  BY DEF Init, Distinct
<1>2. ASSUME NEW e \in Events  PROVE Budget(e)
  <2>1. Wired(e) = {}
    BY EmptyHolds DEF Init, Wired
  <2>2. Writers(e) = Replicas
    BY DEF Init, Writers, MayWrite
  <2> QED
    BY <2>1, <2>2, FS_EmptySet, ReplicasCounted DEF Init, Budget
<1> QED
  BY <1>1, <1>2 DEF CopiesInv

LEMMA CopiesStep == IInv /\ CreatedInv /\ CopiesInv /\ [Next]_vars => CopiesInv'
<1> SUFFICES ASSUME IInv, CreatedInv, CopiesInv, [Next]_vars  PROVE CopiesInv'
  OBVIOUS
<1>1. \A r \in Replicas : Distinct(batch'[r])
  BY DistinctStep DEF IInv, CopiesInv
<1>2. ASSUME NEW e \in Events  PROVE Budget(e)'
  BY BudgetStep
<1> QED
  BY <1>1, <1>2 DEF CopiesInv, Distinct

(* However the polls of the replicas interleave over rows nobody locks,    *)
(* the broker gets an event at most once from each, and once more for each *)
(* fault.                                                                  *)
THEOREM CopiesBounded == Spec => []CopiesAreBounded
<1>1. IInv /\ CopiesInv => CopiesAreBounded
  <2> SUFFICES ASSUME IInv, CopiesInv, NEW e \in Events
               PROVE  accepted[e] <= Cardinality(Replicas) + faults
    BY DEF CopiesAreBounded
  <2>1. /\ IsFiniteSet(Wired(e))
        /\ accepted[e] + Cardinality(Wired(e)) + Cardinality(Writers(e))
              <= Cardinality(Replicas) + faults
    BY DEF CopiesInv, Budget
  <2>2. Cardinality(Wired(e)) \in Nat
    BY <2>1, FS_CardinalityType
  <2> QED
    BY <2>1, <2>2, BudgetTypes DEF IInv
<1>2. Spec => [](IInv /\ CreatedInv)
  <2>1. IInv /\ CreatedInv /\ [Next]_vars => CreatedInv'
    BY CreatedStep DEF IInv
  <2> QED
    BY <2>1, CreatedInit, Invariance, PTL DEF Spec
<1>3. IInv /\ CreatedInv /\ [Next]_vars /\ CopiesInv => CopiesInv'
  BY CopiesStep
<1> QED
  BY <1>1, <1>2, <1>3, CopiesInit, PTL DEF Spec
=============================================================================
