---------------------- MODULE RabbitMQConnection_proofs ----------------------
(***************************************************************************)
(* Proofs about the shared connection of a process, for any finite set of  *)
(* callers and any number of faults.                                       *)
(***************************************************************************)
EXTENDS RabbitMQConnection, FiniteSetTheorems, TLAPS

LEMMA TypeInit == Init => TypeOK
BY ConnectionFaultsAssumption DEF Init, TypeOK, None

LEMMA RestartsType ==
    ASSUME Restarts, faults' \in 0..MaxFaults
    PROVE  TypeOK'
BY DEF Restarts, TypeOK, None

LEMMA TypeStep == TypeOK /\ [Next]_vars => TypeOK'
<1> SUFFICES ASSUME TypeOK, [Next]_vars  PROVE TypeOK'
  OBVIOUS
<1> USE ConnectionFaultsAssumption
<1>1. ASSUME NEW c \in Callers, Calls(c) \/ Retries(c)  PROVE TypeOK'
  <2>1. CASE Restarts
    BY <1>1, <2>1, RestartsType DEF TypeOK, Calls, Retries, Connects
  <2>2. CASE ~Restarts
    BY <1>1, <2>2 DEF TypeOK, Calls, Retries, Connects, Served
  <2> QED
    BY <2>1, <2>2
<1>2. ASSUME NEW c \in Callers, ConnectionOpens(c)  PROVE TypeOK'
  BY <1>2 DEF TypeOK, ConnectionOpens, None
<1>3. ASSUME NEW c \in Callers, ChannelCreated(c)  PROVE TypeOK'
  BY <1>3 DEF TypeOK, ChannelCreated, Served, None
<1>4. ASSUME NEW c \in Callers, CreationFails(c)  PROVE TypeOK'
  BY <1>4 DEF TypeOK, CreationFails, None
<1>5. ASSUME NEW c \in Callers, ConnectFails(c)  PROVE TypeOK'
  BY <1>5 DEF TypeOK, ConnectFails, Fault
<1>6. ASSUME NEW n \in open, Closes(n)  PROVE TypeOK'
  BY <1>6 DEF TypeOK, Closes, Fault, None
<1>7. ASSUME NEW c \in Callers, AnsweredAndClosed(c)  PROVE TypeOK'
  <2>1. faults' \in 0..MaxFaults
    BY <1>7 DEF TypeOK, AnsweredAndClosed, Fault
  <2>2. CASE c # Relay
    BY <1>7, <2>1, <2>2, RestartsType DEF AnsweredAndClosed
  <2>3. CASE c = Relay
    <3>1. /\ own[c] \in open
          /\ open' = open \ {own[c]}
          /\ stillborn' = stillborn \cup {own[c]}
          /\ opened' = opened
          /\ channel' = own[c]
          /\ own' = [own EXCEPT ![c] = None]
          /\ await' = [await EXCEPT ![c] = "start"]
      BY <1>7, <2>3 DEF AnsweredAndClosed, Served
    <3>2. /\ open' \subseteq 1..opened'
          /\ stillborn' \subseteq (1..opened') \ open'
      BY <3>1 DEF TypeOK
    <3>3. own' \in [Callers -> 0..opened'] /\ channel' \in 0..opened'
      BY <3>1 DEF TypeOK, None
    <3>4. \A d \in Callers : own'[d] # None <=> await'[d] = "createChannel"
      BY <3>1 DEF TypeOK
    <3>5. await' \in [Callers -> {"start", "connect", "createChannel", "delay", "consuming"}]
      BY <3>1 DEF TypeOK
    <3> QED
      BY <2>1, <3>1, <3>2, <3>3, <3>4, <3>5 DEF TypeOK
  <2> QED
    BY <2>2, <2>3
<1>8. CASE UNCHANGED vars
  BY <1>8 DEF TypeOK, vars
<1> QED
  BY <1>1, <1>2, <1>3, <1>4, <1>5, <1>6, <1>7, <1>8 DEF Next, Advance

(* Every variable keeps its type; a caller has a connection of its own     *)
(* exactly while it creates a channel on it.                               *)
THEOREM TypeCorrect == Spec => []TypeOK
BY TypeInit, TypeStep, PTL DEF Spec

-----------------------------------------------------------------------------
LEMMA KeptStep ==
    TypeOK /\ DeadChannelsAreStillborn /\ [Next]_vars => DeadChannelsAreStillborn'
<1> SUFFICES ASSUME TypeOK, DeadChannelsAreStillborn, [Next]_vars
             PROVE  DeadChannelsAreStillborn'
  OBVIOUS
<1>1. ASSUME NEW c \in Callers, ChannelCreated(c)  PROVE DeadChannelsAreStillborn'
  BY <1>1 DEF ChannelCreated, DeadChannelsAreStillborn
<1>2. ASSUME NEW n \in open, Closes(n)  PROVE DeadChannelsAreStillborn'
  BY <1>2 DEF Closes, DeadChannelsAreStillborn
<1>3. ASSUME NEW c \in Callers, AnsweredAndClosed(c)  PROVE DeadChannelsAreStillborn'
  BY <1>3 DEF AnsweredAndClosed, Restarts, DeadChannelsAreStillborn
<1>4. CASE Restarts
  BY <1>4 DEF Restarts, DeadChannelsAreStillborn
<1>5. ASSUME UNCHANGED <<channel, stillborn>>, open \subseteq open'
      PROVE  DeadChannelsAreStillborn'
  BY <1>5 DEF DeadChannelsAreStillborn
<1>6. ASSUME NEW c \in Callers,
             \/ Calls(c) \/ Retries(c) \/ ConnectionOpens(c) \/ CreationFails(c)
             \/ ConnectFails(c)
      PROVE  \/ Restarts
             \/ UNCHANGED <<channel, stillborn>> /\ open \subseteq open'
  BY <1>6 DEF Calls, Retries, Connects, ConnectionOpens, CreationFails, ConnectFails
<1>7. CASE UNCHANGED vars
  BY <1>5, <1>7 DEF vars
<1> QED
  BY <1>1, <1>2, <1>3, <1>4, <1>5, <1>6, <1>7 DEF Next, Advance

(* However many callers connect beside each other and in whatever order    *)
(* their connections close, no channel that was open when it was kept      *)
(* outlives its connection in the field.                                   *)
THEOREM KeptIsOpenOrStillborn == Spec => []DeadChannelsAreStillborn
<1>1. Init => DeadChannelsAreStillborn
  BY DEF Init, DeadChannelsAreStillborn
<1> QED
  BY <1>1, KeptStep, TypeCorrect, PTL DEF Spec

-----------------------------------------------------------------------------
(* The callers that may open a connection before another one closes: those *)
(* that are about to, and, while no channel is kept, those that will find  *)
(* none when they look.                                                    *)
Openers ==
    {c \in Callers :
        \/ await[c] = "connect"
        \/ /\ channel = None
           /\ \/ await[c] \in {"start", "delay"}
              \/ await[c] = "createChannel" /\ own[c] \notin open}

(* Each loss lets every caller open one connection more. *)
OpenersInv ==
    /\ IsFiniteSet(open)
    /\ opened + Cardinality(Openers) <= Cardinality(Callers) * (Losses + 1)

LEMMA OpenersAreFinite ==
    /\ IsFiniteSet(Openers)
    /\ Cardinality(Openers) \in Nat
    /\ Cardinality(Openers) <= Cardinality(Callers)
    /\ Cardinality(Callers) \in Nat
BY CallersAssumption, FS_Subset, FS_CardinalityType DEF Openers

(* A step that opens and closes nothing, and adds no opener. *)
LEMMA FewerOpeners ==
    ASSUME TypeOK, OpenersInv, UNCHANGED <<opened, open>>, Openers' \subseteq Openers
    PROVE  OpenersInv'
<1>1. /\ IsFiniteSet(Openers)
      /\ Cardinality(Openers') <= Cardinality(Openers)
      /\ Cardinality(Openers') \in Nat
      /\ Cardinality(Openers) \in Nat
  BY OpenersAreFinite, FS_Subset, FS_CardinalityType
<1>2. Losses' = Losses
  BY DEF Losses
<1>3. IsFiniteSet(open) /\ Cardinality(open) \in Nat
  BY FS_CardinalityType DEF OpenersInv
<1>4. PICK bound : bound = Cardinality(Callers) * (Losses + 1) /\ bound \in Int
  BY <1>3, OpenersAreFinite DEF Losses, TypeOK
<1>5. opened + Cardinality(Openers) <= bound /\ opened \in Nat
  BY <1>4 DEF OpenersInv, TypeOK
<1>6. opened + Cardinality(Openers') <= bound
  BY <1>1, <1>4, <1>5
<1> QED
  BY <1>2, <1>3, <1>4, <1>6 DEF OpenersInv

LEMMA OpensStep ==
    ASSUME TypeOK, OpenersInv, NEW c \in Callers, ConnectionOpens(c)
    PROVE  OpenersInv'
<1>1. opened' \notin open /\ opened' = opened + 1 /\ opened \in Nat
  BY DEF TypeOK, ConnectionOpens
<1>2. IsFiniteSet(open') /\ Cardinality(open') = Cardinality(open) + 1
  BY <1>1, FS_AddElement DEF OpenersInv, ConnectionOpens
<1>3. Cardinality(open) \in Nat
  BY FS_CardinalityType DEF OpenersInv
<1>4. Losses' = Losses
  BY <1>1, <1>2, <1>3 DEF Losses
<1>5. c \in Openers /\ Openers' \subseteq Openers \ {c}
  BY <1>1 DEF Openers, TypeOK, ConnectionOpens
<1>6. /\ Cardinality(Openers \ {c}) = Cardinality(Openers) - 1
      /\ IsFiniteSet(Openers \ {c})
  BY <1>5, OpenersAreFinite, FS_RemoveElement
<1>7. Cardinality(Openers') <= Cardinality(Openers) - 1 /\ Cardinality(Openers') \in Nat
  BY <1>5, <1>6, FS_Subset, FS_CardinalityType
<1>8. PICK bound : bound = Cardinality(Callers) * (Losses + 1) /\ bound \in Int
  BY <1>1, <1>3, OpenersAreFinite DEF Losses
<1>9. opened + Cardinality(Openers) <= bound
  BY <1>8 DEF OpenersInv
<1>10. opened' + Cardinality(Openers') <= bound
  BY <1>1, <1>7, <1>8, <1>9, OpenersAreFinite
<1> QED
  BY <1>2, <1>4, <1>8, <1>10 DEF OpenersInv

(* A close, whatever else its step does. *)
LEMMA ClosesStep ==
    ASSUME TypeOK, OpenersInv, NEW n \in open, open' = open \ {n}, opened' = opened
    PROVE  OpenersInv'
<1>1. IsFiniteSet(open') /\ Cardinality(open') = Cardinality(open) - 1
  BY FS_RemoveElement DEF OpenersInv
<1>2. Cardinality(open) \in Nat /\ opened \in Nat /\ opened' = opened
  BY FS_CardinalityType DEF OpenersInv, TypeOK
<1>3. Losses' = Losses + 1 /\ Losses \in Int
  BY <1>1, <1>2 DEF Losses
<1>4. /\ Cardinality(Openers') <= Cardinality(Callers)
      /\ Cardinality(Openers') \in Nat
      /\ Cardinality(Callers) \in Nat
  BY CallersAssumption, FS_Subset, FS_CardinalityType DEF Openers
<1>5. PICK k : k = Cardinality(Callers)
  OBVIOUS
<1>6. k \in Nat /\ k * (Losses + 1 + 1) = k * (Losses + 1) + k
  BY <1>3, <1>4, <1>5
<1>7. PICK bound : bound = k * (Losses + 1) /\ bound \in Int
  BY <1>3, <1>6
<1>8. opened <= bound
  BY <1>2, <1>5, <1>7, OpenersAreFinite DEF OpenersInv
<1>9. opened' + Cardinality(Openers') <= bound + k
  BY <1>2, <1>4, <1>5, <1>7, <1>8
<1> QED
  BY <1>1, <1>3, <1>5, <1>6, <1>7, <1>9 DEF OpenersInv

(* A process begins with no connection, and with every caller an opener.   *)
Begins == open = {} /\ opened = 0

LEMMA OpenersBegin == Begins => OpenersInv
<1> SUFFICES ASSUME Begins  PROVE OpenersInv
  OBVIOUS
<1>1. IsFiniteSet(open) /\ Cardinality(open) = 0 /\ opened = 0
  BY FS_EmptySet DEF Begins
<1>2. Losses = 0
  BY <1>1 DEF Losses
<1>3. PICK k \in Nat : k = Cardinality(Callers) /\ Cardinality(Openers) <= k
  BY OpenersAreFinite
<1>4. opened + Cardinality(Openers) <= k * (0 + 1)
  BY <1>1, <1>3, OpenersAreFinite
<1> QED
  BY <1>1, <1>2, <1>3, <1>4 DEF OpenersInv

LEMMA RestartsStep == Restarts => OpenersInv'
<1> SUFFICES ASSUME Restarts  PROVE OpenersInv'
  OBVIOUS
<1>1. IsFiniteSet(open') /\ Cardinality(open') = 0 /\ opened' = 0
  BY FS_EmptySet DEF Restarts
<1>2. Losses' = 0
  BY <1>1 DEF Losses
<1>3. /\ Cardinality(Openers') <= Cardinality(Callers)
      /\ Cardinality(Openers') \in Nat
      /\ Cardinality(Callers) \in Nat
  BY CallersAssumption, FS_Subset, FS_CardinalityType DEF Openers
<1>4. Cardinality(Callers) * (0 + 1) = Cardinality(Callers)
  BY <1>3
<1>5. opened' + Cardinality(Openers') <= Cardinality(Callers) * (0 + 1)
  BY <1>1, <1>3, <1>4
<1> QED
  BY <1>1, <1>2, <1>5 DEF OpenersInv

LEMMA OpenersStep == TypeOK /\ OpenersInv /\ [Next]_vars => OpenersInv'
<1> SUFFICES ASSUME TypeOK, OpenersInv, [Next]_vars  PROVE OpenersInv'
  OBVIOUS
<1>1. ASSUME NEW c \in Callers, Calls(c) \/ Retries(c) \/ ConnectFails(c)
      PROVE  OpenersInv'
  <2>1. \/ Restarts
        \/ Openers' \subseteq Openers /\ UNCHANGED <<opened, open>>
    BY <1>1 DEF TypeOK, Openers, Calls, Retries, Connects, ConnectFails, Served
  <2> QED
    BY <2>1, FewerOpeners, RestartsStep
<1>2. ASSUME NEW c \in Callers, ChannelCreated(c)  PROVE OpenersInv'
  <2>1. channel' # None
    BY <1>2 DEF TypeOK, ChannelCreated, None
  <2>2. Openers' \subseteq Openers /\ UNCHANGED <<opened, open>>
    BY <1>2, <2>1 DEF TypeOK, Openers, ChannelCreated, Served
  <2> QED
    BY <2>2, FewerOpeners
<1>3. ASSUME NEW c \in Callers, CreationFails(c)  PROVE OpenersInv'
  <2>1. Openers' \subseteq Openers /\ UNCHANGED <<opened, open>>
    BY <1>3 DEF TypeOK, Openers, CreationFails
  <2> QED
    BY <2>1, FewerOpeners
<1>4. CASE UNCHANGED vars
  <2>1. Openers' \subseteq Openers /\ UNCHANGED <<opened, open>>
    BY <1>4 DEF Openers, vars
  <2> QED
    BY <2>1, FewerOpeners
<1>5. ASSUME NEW c \in Callers, AnsweredAndClosed(c)  PROVE OpenersInv'
  BY <1>5, ClosesStep, RestartsStep DEF AnsweredAndClosed
<1>6. ASSUME NEW n \in open, Closes(n)  PROVE OpenersInv'
  BY <1>6, ClosesStep DEF Closes
<1> QED
  BY <1>1, <1>2, <1>3, <1>4, <1>5, <1>6, OpensStep DEF Next, Advance

LEMMA OpenersInit == Init => OpenersInv
BY OpenersBegin DEF Init, Begins

(* Connections that nobody uses pile up no faster than connections close:  *)
(* a caller opens one at first and at most one after each close, because   *)
(* only a close makes callers look for a channel and find none.            *)
THEOREM FewConnections == Spec => []ConnectionsAreBounded
<1>1. TypeOK /\ OpenersInv => ConnectionsAreBounded
  <2> SUFFICES ASSUME TypeOK, OpenersInv  PROVE ConnectionsAreBounded
    OBVIOUS
  <2>1. Cardinality(open) \in Nat /\ opened \in Nat
    BY FS_CardinalityType DEF OpenersInv, TypeOK
  <2>2. PICK bound : bound = Cardinality(Callers) * (Losses + 1) /\ bound \in Int
    BY <2>1, OpenersAreFinite DEF Losses
  <2> QED
    BY <2>1, <2>2, OpenersAreFinite DEF OpenersInv, ConnectionsAreBounded
<1> QED
  BY <1>1, OpenersInit, OpenersStep, TypeCorrect, PTL DEF Spec
=============================================================================
