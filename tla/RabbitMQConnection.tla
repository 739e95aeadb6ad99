-------------------------- MODULE RabbitMQConnection --------------------------
(***************************************************************************)
(* The one RabbitMQConnection object of a process and the callers that     *)
(* share it: the start of the consumers, which asks for a channel once,    *)
(* and the relay, which asks for one before each event.                    *)
(*                                                                         *)
(* connect looks at the channel field and then awaits twice before it sets *)
(* the field, so callers open connections beside each other, and the field *)
(* holds the last one that was made.  The handler of any connection that   *)
(* closes clears the field.  A channel is named by its connection, which   *)
(* has one only, and connections by the order in which they were opened.   *)
(* The field connection is written here and read by close() only, which    *)
(* the program never calls: it is left out.                                *)
(*                                                                         *)
(* amqplib handles all the frames of one read in a row, and only then do   *)
(* the awaits go on that they answered.  A connection that closes in the   *)
(* read of its channel's answer is therefore forgotten before its channel  *)
(* is kept, and that channel stays: it is stillborn.                       *)
(***************************************************************************)
EXTENDS Naturals, FiniteSets

CONSTANTS
    Callers,     \* what calls connectWithRetry in one process
    Relay,       \* the caller that calls again and again
    MaxFaults    \* bound on refused connections and closed ones

ASSUME CallersAssumption == IsFiniteSet(Callers) /\ Relay \in Callers
ASSUME ConnectionFaultsAssumption == MaxFaults \in Nat

VARIABLES
    await,       \* what each caller awaits
    own,         \* the connection on which it is creating a channel
    channel,     \* the field
    opened,      \* how many connections were ever opened
    open,        \* those that are
    stillborn,   \* history: those that closed before their channel was kept
    faults       \* history: the number of faults so far

vars == <<await, own, channel, opened, open, stillborn, faults>>

None == 0

Init ==
    /\ await = [c \in Callers |-> "start"]
    /\ own = [c \in Callers |-> None]
    /\ channel = None
    /\ opened = 0
    /\ open = {}
    /\ stillborn = {}
    /\ faults = 0

-----------------------------------------------------------------------------
(* Where a caller goes with its channel. *)
Served(c) == IF c = Relay THEN "start" ELSE "consuming"

(* start of the consumers throws on a dead channel and nobody catches it:  *)
(* Node ends the process, and Kubernetes starts it again.                  *)
Restarts ==
    /\ await' = [c \in Callers |-> "start"]
    /\ own' = [c \in Callers |-> None]
    /\ channel' = None
    /\ opened' = 0
    /\ open' = {}
    /\ stillborn' = {}

(* connect up to its first await. *)
Connects(c) ==
    /\ \/ /\ channel = None
          /\ await' = [await EXCEPT ![c] = "connect"]
          /\ UNCHANGED <<own, channel, opened, open, stillborn>>
       \/ /\ channel # None
          /\ c = Relay \/ channel \in open
          /\ await' = [await EXCEPT ![c] = Served(c)]
          /\ UNCHANGED <<own, channel, opened, open, stillborn>>
       \/ /\ channel \notin open \cup {None}
          /\ c # Relay
          /\ Restarts
    /\ UNCHANGED faults

Calls(c) == await[c] = "start" /\ Connects(c)

(* Mutant: the timer is set again and nobody connects. *)
RetriesWaiting(c) == await[c] = "delay" /\ UNCHANGED vars

(* RETRY_DELAY_MS is over: the loop of connectWithRetry calls connect. *)
Retries(c) == await[c] = "delay" /\ Connects(c)

(* amqplib.connect answers: the handler is registered, and createChannel   *)
(* is called on the new connection.                                        *)
ConnectionOpens(c) ==
    /\ await[c] = "connect"
    /\ opened' = opened + 1
    /\ open' = open \cup {opened'}
    /\ own' = [own EXCEPT ![c] = opened']
    /\ await' = [await EXCEPT ![c] = "createChannel"]
    /\ UNCHANGED <<channel, stillborn, faults>>

(* Mutant: the channel is returned and not kept. *)
ChannelCreatedNotKept(c) ==
    /\ await[c] = "createChannel"
    /\ own[c] \in open
    /\ own' = [own EXCEPT ![c] = None]
    /\ await' = [await EXCEPT ![c] = Served(c)]
    /\ UNCHANGED <<channel, opened, open, stillborn, faults>>

(* createChannel answers, and the field keeps the channel. *)
ChannelCreated(c) ==
    /\ await[c] = "createChannel"
    /\ own[c] \in open
    /\ channel' = own[c]
    /\ own' = [own EXCEPT ![c] = None]
    /\ await' = [await EXCEPT ![c] = Served(c)]
    /\ UNCHANGED <<opened, open, stillborn, faults>>

(* Mutant: the attempt that failed goes on holding its connection. *)
CreationFailsHolding(c) ==
    /\ await[c] = "createChannel"
    /\ own[c] \notin open
    /\ await' = [await EXCEPT ![c] = "delay"]
    /\ UNCHANGED <<own, channel, opened, open, stillborn, faults>>

(* The connection closed before it had the channel: connectWithRetry logs  *)
(* and waits.                                                              *)
CreationFails(c) ==
    /\ await[c] = "createChannel"
    /\ own[c] \notin open
    /\ own' = [own EXCEPT ![c] = None]
    /\ await' = [await EXCEPT ![c] = "delay"]
    /\ UNCHANGED <<channel, opened, open, stillborn, faults>>

Fault == faults < MaxFaults /\ faults' = faults + 1

(* The connection is refused, or is closed before its handler is there and *)
(* createChannel throws.                                                   *)
ConnectFails(c) ==
    /\ Fault
    /\ await[c] = "connect"
    /\ await' = [await EXCEPT ![c] = "delay"]
    /\ UNCHANGED <<own, channel, opened, open, stillborn>>

(* Mutant: a handler clears the channel for the latest connection only. *)
ClosesLatest(n) ==
    /\ Fault
    /\ n \in open
    /\ open' = open \ {n}
    /\ channel' = IF n = opened THEN None ELSE channel
    /\ UNCHANGED <<await, own, opened, stillborn>>

(* The broker closes a connection: its handler forgets the channel, of     *)
(* whatever connection that one is.                                        *)
Closes(n) ==
    /\ Fault
    /\ n \in open
    /\ open' = open \ {n}
    /\ channel' = None
    /\ UNCHANGED <<await, own, opened, stillborn>>

(* The answer of createChannel and the close of the connection arrive in   *)
(* one read: the handler forgets what is kept, and then the await goes on  *)
(* and keeps a channel that is dead.                                       *)
AnsweredAndClosed(c) ==
    /\ Fault
    /\ await[c] = "createChannel"
    /\ own[c] \in open
    /\ \/ /\ c = Relay
          /\ channel' = own[c]
          /\ open' = open \ {own[c]}
          /\ stillborn' = stillborn \cup {own[c]}
          /\ own' = [own EXCEPT ![c] = None]
          /\ await' = [await EXCEPT ![c] = Served(c)]
          /\ UNCHANGED opened
       \/ /\ c # Relay
          /\ Restarts

-----------------------------------------------------------------------------
Advance(c) ==
    Retries(c) \/ ConnectionOpens(c) \/ ChannelCreated(c) \/ CreationFails(c)

Next ==
    \/ \E c \in Callers : Calls(c) \/ Advance(c) \/ ConnectFails(c) \/ AnsweredAndClosed(c)
    \/ \E n \in open : Closes(n)

(* A broker that is up answers, and timers fire. *)
Fairness == \A c \in Callers : WF_vars(Advance(c))

Spec == Init /\ [][Next]_vars /\ Fairness

-----------------------------------------------------------------------------
(* Every variable keeps its type, and a caller has a connection of its own *)
(* exactly while it creates the channel.                                   *)
TypeOK ==
    /\ await \in [Callers -> {"start", "connect", "createChannel", "delay", "consuming"}]
    /\ opened \in Nat
    /\ open \subseteq 1..opened
    /\ stillborn \subseteq (1..opened) \ open
    /\ own \in [Callers -> 0..opened]
    /\ \A c \in Callers : own[c] # None <=> await[c] = "createChannel"
    /\ channel \in 0..opened
    /\ faults \in 0..MaxFaults

(* The close handler forgets whatever is kept, so however callers connect  *)
(* beside each other and in whatever order their connections close, a dead *)
(* channel stays only when it was dead before it was kept.                 *)
DeadChannelsAreStillborn == channel # None => channel \in open \cup stillborn

Losses == opened - Cardinality(open)

(* Connections nobody uses pile up, but no faster than connections close:  *)
(* each caller opens at most one at first and one after each close.        *)
ConnectionsAreBounded == opened <= Cardinality(Callers) * (Losses + 1)

(* Every call is answered in the end, or its process starts again:         *)
(* connectWithRetry outlasts refused connections and those that close      *)
(* before they have a channel.                                             *)
CallersAreServed ==
    \A c \in Callers : await[c] # "start" ~> await[c] \in {Served(c), "start"}

=============================================================================
