--------------------------- MODULE OutboxPublisher ---------------------------
(***************************************************************************)
(* The outbox relay: in each replica a timer polls the outbox table and    *)
(* publishes what it finds on a RabbitMQ channel, event by event, marking  *)
(* each row after the channel took the message.                            *)
(*                                                                         *)
(* Nothing locks the rows a poll has read, so two replicas relay the same  *)
(* events; the channel is not in confirm mode, so what it took is only on  *)
(* the wire until the broker accepts it.                                   *)
(*                                                                         *)
(* A channel whose connection closed in the read that answered its         *)
(* creation is kept although it is dead (RabbitMQConnection has how):      *)
(* nothing can be written on it, and it stays until another connection of  *)
(* the process closes.                                                     *)
(***************************************************************************)
EXTENDS Naturals, Sequences, FiniteSets

CONSTANTS
    Replicas,    \* the pods that run a publisher
    Events,      \* the outbox rows use cases will write
    PageSize,    \* findUnpublished's take: 10 in the code
    MaxFaults    \* bound on failed statements, dropped connections and crashes

ASSUME FiniteReplicasAssumption == IsFiniteSet(Replicas)
ASSUME PageSizeAssumption == PageSize \in Nat \ {0}
ASSUME MaxFaultsAssumption == MaxFaults \in Nat

VARIABLES
    created,     \* the events in the order of their createdAt
    committed,   \* the events whose transaction has committed
    published,   \* the events whose publishedAt is set
    await,       \* what each publisher awaits
    batch,       \* the events of its poll still to relay
    channel,     \* the channel the replica keeps, and whether it is alive
    wire,        \* messages written on the channel, not yet at the broker
    accepted,    \* how many copies of each event the broker accepted
    causes,      \* history: <<e, f>> when e had committed before f was created
    missed,      \* history: the events that failed to be written, or were lost
    faults       \* history: the number of faults so far

rows == <<created, committed, causes>>
publisher == <<await, batch>>
broker == <<channel, wire, accepted>>
vars == <<rows, published, publisher, broker, missed, faults>>

Init ==
    /\ created = <<>>
    /\ committed = {}
    /\ published = {}
    /\ await = [r \in Replicas |-> "timer"]
    /\ batch = [r \in Replicas |-> <<>>]
    /\ channel = [r \in Replicas |-> "closed"]
    /\ wire = [r \in Replicas |-> <<>>]
    /\ accepted = [e \in Events |-> 0]
    /\ causes = {}
    /\ missed = {}
    /\ faults = 0

-----------------------------------------------------------------------------
(* atomicSaveWithEvent stamps createdAt inside its transaction and commits *)
(* later: a transaction that never commits is one that rolled back.        *)
Create(e) ==
    /\ \A i \in 1..Len(created) : created[i] # e
    /\ created' = Append(created, e)
    /\ causes' = causes \cup {<<cause, e>> : cause \in committed}
    /\ UNCHANGED <<committed, published, publisher, broker, missed, faults>>

Commit(e) ==
    /\ \E i \in 1..Len(created) : created[i] = e
    /\ e \notin committed
    /\ committed' = committed \cup {e}
    /\ UNCHANGED <<created, causes, published, publisher, broker, missed, faults>>

-----------------------------------------------------------------------------
(* setTimeout fires and poll runs up to its first await. *)
TimerFires(r) ==
    /\ await[r] = "timer"
    /\ await' = [await EXCEPT ![r] = "find"]
    /\ UNCHANGED <<rows, published, batch, broker, missed, faults>>

(* The loop of poll goes on with the events left; when none is left its    *)
(* finally block schedules the next poll.                                  *)
Continues(r, events) ==
    /\ batch' = [batch EXCEPT ![r] = events]
    /\ await' = [await EXCEPT ![r] = IF events = <<>> THEN "timer" ELSE "connect"]

In(e, events) == \E i \in 1..Len(events) : events[i] = e

(* Mutant: ORDER BY createdAt DESC. *)
OlderReversed(e, f) ==
    \E i, j \in 1..Len(created) : i > j /\ created[i] = e /\ created[j] = f

Older(e, f) ==
    \E i, j \in 1..Len(created) : i < j /\ created[i] = e /\ created[j] = f

(* Mutants: published rows are read again; rows older than one that was    *)
(* published are taken for published.                                      *)
PendingAll == committed

PendingAfterPublished ==
    {e \in committed \ published : \A f \in published : Older(f, e)}

(* The rows whose publishedAt IS NULL. *)
Pending == committed \ published

(* Mutant: the page is one row too long. *)
TakeOneMore == PageSize + 1

Take == PageSize

(* findUnpublished: the oldest pending rows, in order, at most a page. *)
IsPage(page) ==
    /\ \A i \in 1..Len(page) : page[i] \in Pending
    /\ \A i, j \in 1..Len(page) : i < j => Older(page[i], page[j])
    /\ \A e \in Pending :
          \/ In(e, page)
          \/ Len(page) = Take /\ \A i \in 1..Len(page) : Older(page[i], e)

FindUnpublished(r) ==
    /\ await[r] = "find"
    /\ \E n \in 0..Take : \E page \in [1..n -> Events] :
          IsPage(page) /\ Continues(r, page)
    /\ UNCHANGED <<rows, published, broker, missed, faults>>

(* LazyEventPublisher awaits connectWithRetry, which answers the channel   *)
(* that is kept or keeps trying to open one.                               *)
Connect(r) ==
    /\ await[r] = "connect"
    /\ await' = [await EXCEPT ![r] = "assertExchange"]
    /\ channel' = [channel EXCEPT ![r] = IF @ = "closed" THEN "open" ELSE @]
    /\ UNCHANGED <<rows, published, batch, wire, accepted, missed, faults>>

(* Mutant: dispatch does not know the type of the event and skips it. *)
PublishSkips(r) ==
    /\ await[r] = "assertExchange"
    /\ channel[r] = "open"
    /\ await' = [await EXCEPT ![r] = "mark"]
    /\ UNCHANGED <<rows, published, batch, broker, missed, faults>>

(* assertExchange answers; publish then writes the message and returns.    *)
Publish(r) ==
    /\ await[r] = "assertExchange"
    /\ channel[r] = "open"
    /\ wire' = [wire EXCEPT ![r] = Append(@, Head(batch[r]))]
    /\ await' = [await EXCEPT ![r] = "mark"]
    /\ UNCHANGED <<rows, published, batch, channel, accepted, missed, faults>>

(* Mutant: the mark is never written. *)
MarkPublishedNot(r) ==
    /\ await[r] = "mark"
    /\ Continues(r, Tail(batch[r]))
    /\ UNCHANGED <<rows, published, broker, missed, faults>>

MarkPublished(r) ==
    /\ await[r] = "mark"
    /\ published' = published \cup {Head(batch[r])}
    /\ Continues(r, Tail(batch[r]))
    /\ UNCHANGED <<rows, broker, missed, faults>>

(* publishAndMark catches the rejection of assertExchange, logs it and     *)
(* leaves the event to the next poll; this poll goes on with the others.   *)
PublishFails(r) ==
    /\ await[r] = "assertExchange"
    /\ channel[r] # "open"
    /\ Continues(r, Tail(batch[r]))
    /\ missed' = missed \cup {Head(batch[r])}
    /\ UNCHANGED <<rows, published, broker, faults>>

-----------------------------------------------------------------------------
(* RabbitMQ takes the messages of a channel in order. *)
BrokerAccepts(r) ==
    /\ wire[r] # <<>>
    /\ accepted' = [accepted EXCEPT ![Head(wire[r])] = @ + 1]
    /\ wire' = [wire EXCEPT ![r] = Tail(@)]
    /\ UNCHANGED <<rows, published, publisher, channel, missed, faults>>

Fault == faults < MaxFaults /\ faults' = faults + 1

(* The query is rejected: poll logs and schedules the next one. *)
FindFails(r) ==
    /\ Fault
    /\ await[r] = "find"
    /\ Continues(r, <<>>)
    /\ UNCHANGED <<rows, published, broker, missed>>

(* The update is rejected after the message was written. *)
MarkFails(r) ==
    /\ Fault
    /\ await[r] = "mark"
    /\ Continues(r, Tail(batch[r]))
    /\ UNCHANGED <<rows, published, broker, missed>>

(* The connection closes in the read that answers createChannel: the       *)
(* handler runs before the channel is kept.                                *)
ConnectDead(r) ==
    /\ Fault
    /\ await[r] = "connect"
    /\ channel[r] = "closed"
    /\ await' = [await EXCEPT ![r] = "assertExchange"]
    /\ channel' = [channel EXCEPT ![r] = "dead"]
    /\ UNCHANGED <<rows, published, batch, wire, accepted, missed>>

Lost(r) == {e \in Events : In(e, wire[r])}

(* A close handler forgets the channel that is kept, a dead one too; what  *)
(* was on the wire is gone.                                                *)
ConnectionDrops(r) ==
    /\ Fault
    /\ channel[r] # "closed"
    /\ missed' = missed \cup Lost(r)
    /\ channel' = [channel EXCEPT ![r] = "closed"]
    /\ wire' = [wire EXCEPT ![r] = <<>>]
    /\ UNCHANGED <<rows, published, publisher, accepted>>

(* The process dies and Kubernetes starts it again. *)
Crash(r) ==
    /\ Fault
    /\ await' = [await EXCEPT ![r] = "timer"]
    /\ batch' = [batch EXCEPT ![r] = <<>>]
    /\ channel' = [channel EXCEPT ![r] = "closed"]
    /\ wire' = [wire EXCEPT ![r] = <<>>]
    /\ missed' = missed \cup Lost(r)
    /\ UNCHANGED <<rows, published, accepted>>

-----------------------------------------------------------------------------
Poll(r) ==
    \/ TimerFires(r)
    \/ FindUnpublished(r)
    \/ Connect(r)
    \/ Publish(r)
    \/ PublishFails(r)
    \/ MarkPublished(r)

(* server.ts starts the publisher and never stops it. *)
Next ==
    \/ \E e \in Events : Create(e) \/ Commit(e)
    \/ \E r \in Replicas :
          \/ Poll(r)
          \/ BrokerAccepts(r)
          \/ FindFails(r)
          \/ MarkFails(r)
          \/ ConnectDead(r)
          \/ ConnectionDrops(r)
          \/ Crash(r)

(* The event loop runs what is ready, a broker that is up answers, and the *)
(* faults come to an end: connectWithRetry never gives up in between.      *)
Fairness == \A r \in Replicas : WF_vars(Poll(r)) /\ WF_vars(BrokerAccepts(r))

Spec == Init /\ [][Next]_vars /\ Fairness

-----------------------------------------------------------------------------
(* Every variable keeps its type, and a poll never outgrows its page. *)
TypeOK ==
    /\ created \in Seq(Events)
    /\ committed \subseteq Events
    /\ published \subseteq Events
    /\ causes \subseteq Events \X Events
    /\ missed \subseteq Events
    /\ await \in [Replicas -> {"timer", "find", "connect", "assertExchange", "mark"}]
    /\ batch \in [Replicas -> Seq(Events)]
    /\ \A r \in Replicas :
          /\ Len(batch[r]) <= PageSize
          /\ await[r] \in {"connect", "assertExchange", "mark"} <=> batch[r] # <<>>
    /\ channel \in [Replicas -> {"open", "dead", "closed"}]
    /\ wire \in [Replicas -> Seq(Events)]
    /\ accepted \in [Events -> Nat]
    /\ faults \in 0..MaxFaults

OnAWire(e) == \E r \in Replicas : In(e, wire[r])

(* Without a fault no event is marked published and then gone: the mark    *)
(* only follows the write, and the wire ends at the broker.                *)
OnlyFaultsLoseEvents ==
    \A e \in published : accepted[e] = 0 /\ ~OnAWire(e) => faults > 0

(* Two pollers over rows nobody locks copy an event at most once each, and *)
(* each fault (a mark lost, a crash before it) costs one copy more.        *)
CopiesAreBounded ==
    \A e \in Events : accepted[e] <= Cardinality(Replicas) + faults

(* An event that is marked, and that no poll and no wire still carries. *)
Settled(e) ==
    e \in published /\ ~OnAWire(e) /\ \A r \in Replicas : ~In(e, batch[r])

(* Causes are told before their effects: when the broker has an event      *)
(* created after another had committed, it has that one too, or another    *)
(* replica still carries it there.  Only an event that itself failed to be *)
(* written or was lost on its wire is overtaken, by the rest of its poll   *)
(* or by another replica.                                                  *)
CausesComeFirst ==
    \A e, f \in Events :
        <<e, f>> \in causes /\ accepted[f] > 0 =>
            accepted[e] > 0 \/ OnAWire(e) \/ e \in missed

Relay == INSTANCE OutboxRelay WITH
             copies  <- accepted,
             settled <- {e \in Events : Settled(e)},
             faulty  <- faults > 0

(* The relays of all replicas together are one at-least-once relay: nobody *)
(* is told of an event whose transaction may still roll back, an event     *)
(* settled is never told again by a poll or a wire that was slow, and only *)
(* a fault settles an event that was told to nobody.                       *)
ImplementsRelay == Relay!Safety

(* As long as some replica does not keep a dead channel for ever, every    *)
(* committed event is settled in the end, however the polls, failed        *)
(* statements, dropped connections and crashes interleave: a failure never *)
(* ends the polling.                                                       *)
EveryEventIsRelayed ==
    (\E r \in Replicas : <>[](channel[r] # "dead")) => Relay!Delivery

-----------------------------------------------------------------------------
(* OutboxPublisher.spec, "does not mark published when the broker publish  *)
(* fails": a marked event is at the broker or still on its way.            *)
MarkedEventsReachTheBroker ==
    \A e \in published : accepted[e] > 0 \/ OnAWire(e)

=============================================================================
