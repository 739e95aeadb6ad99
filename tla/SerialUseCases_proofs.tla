------------------------ MODULE SerialUseCases_proofs ------------------------
(***************************************************************************)
(* The refinement of OrderQueues by the use cases when one call runs at a  *)
(* time, for any number of orders: every commit is the step of the two     *)
(* FIFO queues it is named for, every other statement a stutter.           *)
(***************************************************************************)
EXTENDS SerialUseCases, SoloOrders_proofs, FiniteSetTheorems

-----------------------------------------------------------------------------
(***************************************************************************)
(* The queue of a table.  Nothing counts the orders of a queue in the      *)
(* proof: a queue is known by what it lists, and is carried from step to   *)
(* step as it grows and shrinks.                                           *)
(***************************************************************************)
Lists(queue, table, status) ==
    /\ queue \in Seq(Orders)
    /\ \A o \in Orders :
          table[o].status = status <=> \E i \in 1..Len(queue) : queue[i] = o
    /\ \A i, j \in 1..Len(queue) :
          i < j => table[queue[i]].queueSeq < table[queue[j]].queueSeq

Tables == [Orders -> Order]

LEMMA LeastNumber ==
    ASSUME NEW S \in SUBSET Nat, S # {}
    PROVE  \E n \in S : \A m \in S : n <= m
<1> DEFINE R == OpToRel(<, Nat)
<1>1. \A m, n \in Nat : m < n => <<m, n>> \in R
  BY DEF OpToRel
<1>2. IsWellFoundedOn(R, Nat)
  BY NatLessThanWellFounded
<1> HIDE DEF R
<1>3. PICK n \in S : \A m \in S : ~(<<m, n>> \in R)
  BY <1>2, WFMin
<1>4. ASSUME NEW m \in S
      PROVE  n <= m
  <2>1. ~(m < n)
    BY <1>1, <1>3
  <2> QED
    BY <2>1
<1> QED
  BY <1>4

(* Where two listings of the same queue agree up to a place, they agree    *)
(* at it.                                                                  *)
LEMMA SamePlace ==
    ASSUME NEW table \in Tables, NEW status,
           NEW s, NEW t, Lists(s, table, status), Lists(t, table, status),
           NEW i \in 1..Len(s), \A j \in 1..Len(s) : j < i => j \in 1..Len(t) /\ s[j] = t[j]
    PROVE  i \in 1..Len(t) /\ s[i] = t[i]
<1>1. /\ s \in Seq(Orders) /\ t \in Seq(Orders)
      /\ \A o \in Orders : table[o].queueSeq \in Nat
  BY DEF Lists, Tables, Order
<1>2. s[i] \in Orders /\ Len(s) \in Nat /\ Len(t) \in Nat
  BY <1>1
<1>3. PICK k \in 1..Len(t) : t[k] = s[i]
  BY <1>2 DEF Lists
<1>4. k >= i
  <2> SUFFICES ASSUME k < i PROVE FALSE
    BY <1>2
  <2>1. k \in 1..Len(s) /\ s[k] = s[i]
    BY <1>2, <1>3
  <2>2. table[s[k]].queueSeq < table[s[i]].queueSeq
    BY <2>1 DEF Lists
  <2> QED
    BY <1>1, <1>2, <2>1, <2>2
<1>5. i \in 1..Len(t) /\ t[i] \in Orders
  BY <1>1, <1>2, <1>4
<1>6. PICK m \in 1..Len(s) : s[m] = t[i]
  BY <1>5 DEF Lists
<1>7. m >= i
  <2> SUFFICES ASSUME m < i PROVE FALSE
    BY <1>2
  <2>1. t[m] = t[i] /\ m \in 1..Len(t)
    BY <1>6
  <2>2. table[t[m]].queueSeq < table[t[i]].queueSeq
    BY <1>5, <2>1 DEF Lists
  <2> QED
    BY <1>1, <1>5, <2>1, <2>2
<1>8. CASE k = i
  BY <1>3, <1>5, <1>8
<1>9. CASE m = i
  BY <1>5, <1>6, <1>9
<1>10. CASE k > i /\ m > i
  <2>1. table[t[i]].queueSeq < table[t[k]].queueSeq
    BY <1>5, <1>10 DEF Lists
  <2>2. table[s[i]].queueSeq < table[s[m]].queueSeq
    BY <1>10 DEF Lists
  <2> QED
    BY <1>1, <1>2, <1>3, <1>5, <1>6, <2>1, <2>2
<1> QED
  BY <1>2, <1>4, <1>7, <1>8, <1>9, <1>10

(* So one begins with the other... *)
LEMMA ListsAgree ==
    ASSUME NEW table \in Tables, NEW status,
           NEW s, NEW t, Lists(s, table, status), Lists(t, table, status)
    PROVE  \A i \in 1..Len(s) : i \in 1..Len(t) /\ s[i] = t[i]
<1> DEFINE Wrong == {i \in 1..Len(s) : ~(i \in 1..Len(t) /\ s[i] = t[i])}
<1> SUFFICES ASSUME Wrong # {} PROVE FALSE
  OBVIOUS
<1>1. Len(s) \in Nat
  BY DEF Lists
<1>2. PICK i \in Wrong : \A j \in Wrong : i <= j
  <2>1. Wrong \in SUBSET Nat
    BY <1>1
  <2> HIDE DEF Wrong
  <2> QED
    BY <2>1, LeastNumber
<1>3. \A j \in 1..Len(s) : j < i => j \in 1..Len(t) /\ s[j] = t[j]
  BY <1>1, <1>2
<1> QED
  BY <1>2, <1>3, SamePlace

(* ...and they are the same. *)
LEMMA OneListing ==
    ASSUME NEW table \in Tables, NEW status,
           NEW s, NEW t, Lists(s, table, status), Lists(t, table, status)
    PROVE  s = t
<1>1. s \in Seq(Orders) /\ t \in Seq(Orders)
  BY DEF Lists
<1>2. /\ \A i \in 1..Len(s) : i \in 1..Len(t) /\ s[i] = t[i]
      /\ \A i \in 1..Len(t) : i \in 1..Len(s) /\ t[i] = s[i]
  BY ListsAgree
<1>3. Len(s) = Len(t)
  <2>1. Len(s) \in Nat /\ Len(t) \in Nat
    BY <1>1
  <2>2. Len(s) # 0 => Len(s) \in 1..Len(t)
    BY <1>2, <2>1
  <2>3. Len(t) # 0 => Len(t) \in 1..Len(s)
    BY <1>2, <2>1
  <2> QED
    BY <2>1, <2>2, <2>3
<1> QED
  BY <1>1, <1>2, <1>3

(* A listing is what InOrder returns. *)
LEMMA InOrderLists ==
    ASSUME NEW table \in Tables, NEW status, NEW s, Lists(s, table, status)
    PROVE  InOrder(table, status) = s
<1> DEFINE Queue == {o \in Orders : table[o].status = status}
           Places == 1..Cardinality(Queue)
           Sorted(q) == \A i, j \in Places :
                            i < j => table[q[i]].queueSeq < table[q[j]].queueSeq
<1>1. /\ s \in Seq(Orders) /\ Len(s) \in Nat
      /\ s \in [1..Len(s) -> Orders]
      /\ \A o \in Orders : table[o].queueSeq \in Nat
  BY DEF Lists, Tables, Order
<1>2. s \in Bijection(1..Len(s), Queue)
  <2>1. s \in [1..Len(s) -> Queue]
    BY <1>1 DEF Lists
  <2>2. \A i, j \in 1..Len(s) : s[i] = s[j] => i = j
    BY <1>1 DEF Lists
  <2>3. \A o \in Queue : \E i \in 1..Len(s) : s[i] = o
    BY DEF Lists
  <2> QED
    BY <2>1, <2>2, <2>3 DEF Bijection, Injection, Surjection, IsInjective
<1>3. IsFiniteSet(Queue) /\ Cardinality(Queue) = Len(s)
  <2>1. IsFiniteSet(1..Len(s)) /\ Cardinality(1..Len(s)) = Len(s)
    BY <1>1, FS_Interval
  <2>2. ExistsBijection(1..Len(s), Queue)
    BY <1>2 DEF ExistsBijection
  <2> HIDE DEF Queue
  <2> QED
    BY <2>1, <2>2, FS_Bijection
<1>4. s \in [Places -> Queue] /\ Sorted(s)
  BY <1>2, <1>3 DEF Bijection, Injection, Lists
<1> DEFINE q == CHOOSE queue \in [Places -> Queue] : Sorted(queue)
<1>5. q \in [Places -> Queue] /\ Sorted(q)
  <2> HIDE DEF Sorted, Places, Queue
  <2> QED
    BY <1>4
<1>6. q = InOrder(table, status)
  BY DEF InOrder
<1> HIDE DEF q
<1>7. q \in Injection(Places, Queue)
  <2>1. \A i \in Places : q[i] \in Orders
    BY <1>5
  <2>2. ASSUME NEW i \in Places, NEW j \in Places, q[i] = q[j]
        PROVE  i = j
    BY <1>1, <1>3, <1>5, <2>1, <2>2
  <2> QED
    BY <1>5, <2>2 DEF Injection, IsInjective
<1>8. q \in Surjection(Places, Queue)
  <2>1. IsFiniteSet(Places) /\ Cardinality(Places) = Cardinality(Queue)
    BY <1>1, <1>3, FS_Interval
  <2> HIDE DEF Places, Queue
  <2> QED
    BY <1>3, <1>7, <2>1, FS_Injection
<1>9. Lists(q, table, status)
  <2>1. q \in Seq(Orders) /\ Len(q) = Cardinality(Queue)
    BY <1>1, <1>3, <1>5
  <2>2. \A o \in Queue : \E i \in 1..Len(q) : q[i] = o
    BY <1>8, <2>1 DEF Surjection
  <2>3. \A i \in 1..Len(q) : q[i] \in Queue
    BY <1>5, <2>1
  <2> QED
    BY <1>5, <2>1, <2>2, <2>3 DEF Lists
<1> QED
  BY <1>6, <1>9, OneListing

-----------------------------------------------------------------------------
(***************************************************************************)
(* What a change of one row does to a queue.                               *)
(***************************************************************************)
OnlyChanges(o, table, next) == \A p \in Orders \ {o} : next[p] = table[p]

LEMMA ListsSame ==
    ASSUME NEW table \in Tables, NEW next \in Tables, NEW o \in Orders, NEW status,
           OnlyChanges(o, table, next), NEW s, Lists(s, table, status),
           table[o].status # status, next[o].status # status
    PROVE  Lists(s, next, status)
<1>1. \A i \in 1..Len(s) : s[i] \in Orders \ {o}
  BY DEF Lists
<1> QED
  BY <1>1 DEF Lists, OnlyChanges

LEMMA ListsGrow ==
    ASSUME NEW table \in Tables, NEW next \in Tables, NEW o \in Orders, NEW status,
           OnlyChanges(o, table, next), NEW s, Lists(s, table, status),
           table[o].status # status, next[o].status = status,
           \A p \in Orders \ {o} : table[p].queueSeq < next[o].queueSeq
    PROVE  Lists(Append(s, o), next, status)
<1> DEFINE t == Append(s, o)
<1>1. s \in Seq(Orders) /\ Len(s) \in Nat
  BY DEF Lists
<1>2. /\ t \in Seq(Orders) /\ Len(t) = Len(s) + 1 /\ t[Len(s) + 1] = o
      /\ \A i \in 1..Len(s) : t[i] = s[i]
  BY <1>1
<1>3. \A i \in 1..Len(s) : s[i] \in Orders \ {o} /\ next[s[i]] = table[s[i]]
  BY DEF Lists, OnlyChanges
<1> HIDE DEF t
<1>4. ASSUME NEW p \in Orders
      PROVE  next[p].status = status <=> \E i \in 1..Len(t) : t[i] = p
  <2>1. CASE p = o
    <3>1. Len(s) + 1 \in 1..Len(t)
      BY <1>1, <1>2
    <3> QED
      BY <1>2, <2>1, <3>1
  <2>2. CASE p # o
    <3>1. next[p] = table[p]
      BY <2>2 DEF OnlyChanges
    <3>2. (\E i \in 1..Len(s) : s[i] = p) <=> \E i \in 1..Len(t) : t[i] = p
      <4>1. ASSUME NEW i \in 1..Len(t), t[i] = p
            PROVE  i \in 1..Len(s) /\ s[i] = p
        BY <1>1, <1>2, <2>2, <4>1
      <4>2. ASSUME NEW i \in 1..Len(s), s[i] = p
            PROVE  i \in 1..Len(t) /\ t[i] = p
        BY <1>1, <1>2, <4>2
      <4> QED
        BY <4>1, <4>2
    <3> QED
      BY <3>1, <3>2 DEF Lists
  <2> QED
    BY <2>1, <2>2
<1>5. ASSUME NEW i \in 1..Len(t), NEW j \in 1..Len(t), i < j
      PROVE  next[t[i]].queueSeq < next[t[j]].queueSeq
  <2>1. i \in 1..Len(s) /\ t[i] = s[i]
    BY <1>1, <1>2, <1>5
  <2>2. CASE j \in 1..Len(s)
    BY <1>2, <1>3, <1>5, <2>1, <2>2 DEF Lists
  <2>3. CASE j = Len(s) + 1
    BY <1>2, <1>3, <2>1, <2>3
  <2> QED
    BY <1>1, <1>2, <2>2, <2>3
<1> QED
  BY <1>2, <1>4, <1>5 DEF Lists, t

(* The elements of a queue that lost one. *)
LEMMA WithoutElements ==
    ASSUME NEW s \in Seq(Orders), NEW i \in 1..Len(s)
    PROVE  LET t == Promise!Without(s, i) IN
           /\ t \in Seq(Orders) /\ Len(t) = Len(s) - 1
           /\ \A j \in 1..Len(t) : t[j] = IF j < i THEN s[j] ELSE s[j + 1]
<1>1. Len(s) \in Nat /\ Len(s) - 1 \in Nat
  OBVIOUS
<1> DEFINE t == Promise!Without(s, i)
<1>2. t = [j \in 1..(Len(s) - 1) |-> IF j < i THEN s[j] ELSE s[j + 1]]
  BY DEF Promise!Without
<1>3. t \in [1..(Len(s) - 1) -> Orders]
  BY <1>1, <1>2
<1> QED
  BY <1>1, <1>2, <1>3

LEMMA ListsShrink ==
    ASSUME NEW table \in Tables, NEW next \in Tables, NEW o \in Orders, NEW status,
           OnlyChanges(o, table, next), NEW s, Lists(s, table, status),
           NEW k \in 1..Len(s), s[k] = o, next[o].status # status
    PROVE  Lists(Promise!Without(s, k), next, status)
<1> DEFINE t == Promise!Without(s, k)
           at(j) == IF j < k THEN j ELSE j + 1
<1>1. /\ s \in Seq(Orders) /\ Len(s) \in Nat
      /\ \A p \in Orders : table[p].queueSeq \in Nat
  BY DEF Lists, Tables, Order
<1>2. /\ t \in Seq(Orders) /\ Len(t) = Len(s) - 1
      /\ \A j \in 1..Len(t) : t[j] = s[at(j)] /\ at(j) \in 1..Len(s)
  <2>1. /\ t \in Seq(Orders) /\ Len(t) = Len(s) - 1
        /\ \A j \in 1..Len(t) : t[j] = IF j < k THEN s[j] ELSE s[j + 1]
    BY <1>1, WithoutElements
  <2> HIDE DEF t
  <2>2. ASSUME NEW j \in 1..Len(t)
        PROVE  t[j] = s[at(j)] /\ at(j) \in 1..Len(s)
    BY <1>1, <2>1
  <2> QED
    BY <2>1, <2>2
<1> HIDE DEF t
<1>3. \A i \in 1..Len(s) : s[i] = o => i = k
  BY <1>1 DEF Lists
<1>4. \A j \in 1..Len(t) : t[j] \in Orders \ {o} /\ next[t[j]] = table[t[j]]
  <2> SUFFICES ASSUME NEW j \in 1..Len(t) PROVE t[j] \in Orders \ {o}
    BY DEF OnlyChanges
  <2>1. at(j) # k /\ t[j] = s[at(j)] /\ at(j) \in 1..Len(s)
    BY <1>1, <1>2
  <2> QED
    BY <1>1, <1>3, <2>1
<1>5. ASSUME NEW p \in Orders
      PROVE  next[p].status = status <=> \E j \in 1..Len(t) : t[j] = p
  <2>1. CASE p = o
    BY <1>4, <2>1
  <2>2. CASE p # o
    <3>1. next[p] = table[p]
      BY <2>2 DEF OnlyChanges
    <3>2. ASSUME NEW i \in 1..Len(s), s[i] = p
          PROVE  \E j \in 1..Len(t) : t[j] = p
      <4>1. i # k
        BY <2>2, <3>2
      <4>2. CASE i < k
        <5>1. i \in 1..Len(t) /\ at(i) = i
          BY <1>1, <1>2, <4>2
        <5> QED
          BY <1>2, <3>2, <5>1
      <4>3. CASE i > k
        <5>1. i - 1 \in 1..Len(t) /\ at(i - 1) = i
          BY <1>1, <1>2, <4>3
        <5> QED
          BY <1>2, <3>2, <5>1
      <4> QED
        BY <4>1, <4>2, <4>3
    <3>3. ASSUME NEW j \in 1..Len(t), t[j] = p
          PROVE  \E i \in 1..Len(s) : s[i] = p
      BY <1>2, <3>3
    <3> QED
      BY <3>1, <3>2, <3>3 DEF Lists
  <2> QED
    BY <2>1, <2>2
<1>6. ASSUME NEW i \in 1..Len(t), NEW j \in 1..Len(t), i < j
      PROVE  next[t[i]].queueSeq < next[t[j]].queueSeq
  <2>1. at(i) < at(j) /\ at(i) \in 1..Len(s) /\ at(j) \in 1..Len(s)
    BY <1>1, <1>2, <1>6
  <2> HIDE DEF at
  <2>2. table[s[at(i)]].queueSeq < table[s[at(j)]].queueSeq
    BY <2>1 DEF Lists
  <2> QED
    BY <1>2, <1>4, <2>2
<1> QED
  BY <1>2, <1>5, <1>6 DEF Lists, t

(* Who leaves from the head leaves the tail. *)
LEMMA TailIsWithout ==
    ASSUME NEW s \in Seq(Orders), s # <<>>
    PROVE  1 \in 1..Len(s) /\ Tail(s) = Promise!Without(s, 1)
<1>1. /\ Len(s) \in Nat /\ Len(s) # 0 /\ 1 \in 1..Len(s)
      /\ Tail(s) \in Seq(Orders) /\ Len(Tail(s)) = Len(s) - 1
      /\ \A j \in 1..(Len(s) - 1) : Tail(s)[j] = s[j + 1]
  OBVIOUS
<1>2. \A j \in 1..(Len(s) - 1) : Promise!Without(s, 1)[j] = s[j + 1]
  BY <1>1, WithoutElements
<1> QED
  BY <1>1, <1>2, WithoutElements

LEMMA HeadIsFirst ==
    ASSUME NEW table \in Tables, NEW o \in Orders, NEW status, NEW s,
           Lists(s, table, status), table[o].status = status,
           \A p \in Orders \ {o} :
               table[p].status = status => table[o].queueSeq < table[p].queueSeq
    PROVE  s # <<>> /\ 1 \in 1..Len(s) /\ s[1] = o
<1>1. /\ s \in Seq(Orders) /\ Len(s) \in Nat
      /\ \A p \in Orders : table[p].queueSeq \in Nat
  BY DEF Lists, Tables, Order
<1>2. PICK i \in 1..Len(s) : s[i] = o
  BY DEF Lists
<1>3. s # <<>> /\ 1 \in 1..Len(s) /\ s[1] \in Orders
  BY <1>1, <1>2
<1>4. table[s[1]].status = status
  BY <1>3 DEF Lists
<1>5. CASE s[1] # o
  <2>1. 1 < i
    BY <1>1, <1>2, <1>5
  <2>2. table[s[1]].queueSeq < table[o].queueSeq
    BY <1>2, <1>3, <2>1 DEF Lists
  <2>3. table[o].queueSeq < table[s[1]].queueSeq
    BY <1>3, <1>4, <1>5
  <2> QED
    BY <1>1, <1>3, <2>2, <2>3
<1> QED
  BY <1>3, <1>5

(* The same of the queue InOrder returns, and of some listing of it.       *)
Listed(table, status) == \E s : Lists(s, table, status)

LEMMA QueueListed ==
    ASSUME NEW table \in Tables, NEW status, Listed(table, status)
    PROVE  Lists(InOrder(table, status), table, status)
BY InOrderLists DEF Listed

LEMMA QueueStays ==
    ASSUME NEW table \in Tables, NEW next \in Tables, NEW o \in Orders, NEW status,
           OnlyChanges(o, table, next), Listed(table, status),
           table[o].status # status, next[o].status # status
    PROVE  Listed(next, status) /\ InOrder(next, status) = InOrder(table, status)
<1> DEFINE s == InOrder(table, status)
<1>1. Lists(s, table, status)
  BY QueueListed
<1> HIDE DEF s
<1>2. Lists(s, next, status)
  BY <1>1, ListsSame
<1> QED
  BY <1>2, InOrderLists DEF Listed, s

LEMMA QueueGrows ==
    ASSUME NEW table \in Tables, NEW next \in Tables, NEW o \in Orders, NEW status,
           OnlyChanges(o, table, next), Listed(table, status),
           table[o].status # status, next[o].status = status,
           \A p \in Orders \ {o} : table[p].queueSeq < next[o].queueSeq
    PROVE  Listed(next, status) /\ InOrder(next, status) = Append(InOrder(table, status), o)
<1> DEFINE s == InOrder(table, status)
<1>1. Lists(s, table, status)
  BY QueueListed
<1> HIDE DEF s
<1>2. Lists(Append(s, o), next, status)
  BY <1>1, ListsGrow
<1> QED
  BY <1>2, InOrderLists DEF Listed, s

LEMMA QueueLoses ==
    ASSUME NEW table \in Tables, NEW next \in Tables, NEW o \in Orders, NEW status,
           OnlyChanges(o, table, next), Listed(table, status),
           table[o].status = status, next[o].status # status
    PROVE  /\ Listed(next, status)
           /\ LET s == InOrder(table, status) IN
              \E i \in 1..Len(s) : /\ s[i] = o
                                   /\ InOrder(next, status) = Promise!Without(s, i)
<1> DEFINE s == InOrder(table, status)
<1>1. Lists(s, table, status)
  BY QueueListed
<1> HIDE DEF s
<1>2. PICK i \in 1..Len(s) : s[i] = o
  BY <1>1 DEF Lists
<1>3. Lists(Promise!Without(s, i), next, status)
  BY <1>1, <1>2, ListsShrink
<1> QED
  BY <1>2, <1>3, InOrderLists DEF Listed, s

LEMMA QueueAdvances ==
    ASSUME NEW table \in Tables, NEW next \in Tables, NEW o \in Orders, NEW status,
           OnlyChanges(o, table, next), Listed(table, status),
           table[o].status = status, next[o].status # status,
           \A p \in Orders \ {o} :
               table[p].status = status => table[o].queueSeq < table[p].queueSeq
    PROVE  /\ Listed(next, status)
           /\ InOrder(table, status) # <<>>
           /\ Head(InOrder(table, status)) = o
           /\ InOrder(next, status) = Tail(InOrder(table, status))
<1> DEFINE s == InOrder(table, status)
<1>1. Lists(s, table, status)
  BY QueueListed
<1> HIDE DEF s
<1>2. s \in Seq(Orders) /\ s # <<>> /\ 1 \in 1..Len(s) /\ s[1] = o
  BY <1>1, HeadIsFirst DEF Lists
<1>3. Lists(Promise!Without(s, 1), next, status)
  BY <1>1, <1>2, ListsShrink
<1>4. Tail(s) = Promise!Without(s, 1) /\ Head(s) = o
  BY <1>2, TailIsWithout
<1> QED
  BY <1>2, <1>3, <1>4, InOrderLists DEF Listed, s

-----------------------------------------------------------------------------
(***************************************************************************)
(* The inductive invariant.  A single call never overlaps another, so what *)
(* SoloOrders_proofs shows holds of every order.  To that it adds what the *)
(* call holds between its statements: the position it drew is the last one *)
(* drawn, and it is still at the head where it found itself.               *)
(***************************************************************************)
LatestInv ==
    \A c \in Calls :
        /\ InFlight(c)
        /\ \/ calls[c].await = "insert"
           \/ /\ calls[c].await \in {"load", "write"}
              /\ calls[c].op = "EnqueueForExecution"
        => calls[c].entity.queueSeq = queueSeq /\ queueSeq # NoSeq

QueueOf(op) ==
    IF op = "StartExecution" THEN "IN_EXECUTION_QUEUE" ELSE "IN_DIAGNOSIS_QUEUE"

AtHeadInv ==
    \A c \in Calls :
        /\ InFlight(c)
        /\ calls[c].await \in {"load", "write"}
        /\ calls[c].op \in ChecksHead
        => calls[c].order \in Heads(QueueOf(calls[c].op))

SerialInv ==
    /\ TypeInv /\ PositionsInv /\ CurrentInv /\ WholeInv
    /\ overlapped = {}
    /\ LatestInv
    /\ AtHeadInv
    /\ \A status \in Queues : Listed(rows, status)

(* The statements before the commit. *)
LEMMA LatestStep ==
    ASSUME SerialInv, NEW c \in Calls, NEW out \in Outcomes, Step(c, out)
    PROVE  LatestInv'
<1> SUFFICES ASSUME InFlight(c)',
                    \/ calls'[c].await = "insert"
                    \/ /\ calls'[c].await \in {"load", "write"}
                       /\ calls'[c].op = "EnqueueForExecution"
             PROVE  calls'[c].entity.queueSeq = queueSeq' /\ queueSeq' # NoSeq
  BY OneCallAssumption DEF LatestInv
<1>1. TypeInv /\ InFlight(c) /\ CallOK(calls[c]) /\ queueSeq \in Nat
  BY StepShape DEF SerialInv, TypeInv, TypeOK
<1>2. CASE Keeps(c)
  BY <1>1, <1>2, SetFields DEF Keeps
<1>3. CASE Loads(c) /\ queueSeq' = queueSeq
  BY <1>1, <1>3, LoadsFields DEF SerialInv, LatestInv, SameCall
<1>4. CASE Creates(c, queueSeq') /\ queueSeq' = queueSeq + 1
  <2>1. calls'[c].entity = receive(queueSeq')
    BY <1>1, <1>4, SetFields DEF Creates
  <2> QED
    BY <1>1, <1>4, <2>1 DEF receive, NoSeq
<1>5. ASSUME NEW seq, Decides(c, seq), seq # NoSeq => seq = queueSeq'
      PROVE  calls'[c].entity.queueSeq = queueSeq' /\ queueSeq' # NoSeq
  <2>1. /\ calls'[c].entity = Applied(calls[c], Found(c), seq)
        /\ calls'[c].op = calls[c].op /\ calls'[c].await = "load"
    BY <1>1, <1>5, SetFields DEF Decides, SameCall
  <2>2. calls[c].op = "EnqueueForExecution" /\ seq # NoSeq
    BY <1>5, <2>1 DEF Decides
  <2>3. calls'[c].entity = enqueueForExecution(Found(c), seq)
    BY <2>1, <2>2, AppliedCases
  <2>4. Found(c) \in Order
    BY <1>1 DEF Found, TypeInv, TypeOK, CallOK, Call
  <2> QED
    BY <1>5, <2>2, <2>3, <2>4 DEF enqueueForExecution, Order
<1>6. CASE Quits(c) \/ InsertOrder(c, out) \/ WriteRow(c, out)
  BY <1>1, <1>6, IdleFields
     DEF Quits, InsertOrder, WriteRow, Commits, Ends, Set, InFlight, Idle
<1> QED
  BY <1>1, <1>2, <1>3, <1>4, <1>5, <1>6, StepShape

LEMMA AtHeadStep ==
    ASSUME SerialInv, NEW c \in Calls, NEW out \in Outcomes, Step(c, out)
    PROVE  AtHeadInv'
<1>1. /\ TypeInv /\ CurrentInv /\ InFlight(c) /\ CallOK(calls[c])
  BY StepShape DEF SerialInv
<1> SUFFICES ASSUME InFlight(c)', calls'[c].await \in {"load", "write"},
                    calls'[c].op \in ChecksHead
             PROVE  calls'[c].order \in Heads(QueueOf(calls[c].op))'
  BY OneCallAssumption DEF AtHeadInv
<1>2. /\ calls'[c] # Idle /\ rows' = rows
      /\ calls'[c].op = calls[c].op /\ calls'[c].order = calls[c].order
  BY <1>1, StepFrame DEF InFlight, Idle, SameCall
<1>3. calls[c].order \in Heads(QueueOf(calls[c].op))
  <2>1. CASE calls'[c].await = "load"
    BY <1>1, <1>2, <2>1, DecidesAtHead DEF QueueOf
  <2>2. CASE calls'[c].await = "write"
    <3>1. CASE Loads(c)
      BY <1>1, <1>2, <3>1 DEF Loads, SerialInv, AtHeadInv
    <3>2. ASSUME NEW await, await # "write", NEW entity,
                 Set(c, [calls[c] EXCEPT !.await = await, !.entity = entity])
          PROVE  FALSE
      BY <1>1, <2>2, <3>2, SetFields
    <3>3. CASE Quits(c) \/ InsertOrder(c, out) \/ WriteRow(c, out)
      BY <1>1, <1>2, <3>3, IdleFields
         DEF Quits, InsertOrder, WriteRow, Commits, Ends, Set
    <3> QED
      BY <1>1, <3>1, <3>2, <3>3, StepShape DEF Keeps, Decides, Creates
  <2> QED
    BY <2>1, <2>2
<1>4. Heads(QueueOf(calls[c].op))' = Heads(QueueOf(calls[c].op))
  BY <1>2 DEF Heads, Queued, Before, QueueOf
<1> QED
  BY <1>2, <1>3, <1>4

-----------------------------------------------------------------------------
(***************************************************************************)
(* The commits.                                                            *)
(***************************************************************************)

(* A position just drawn is behind all that are held. *)
LEMMA LatestPosition ==
    ASSUME SerialInv, NEW c \in Calls, InFlight(c), NEW o \in Orders, calls[c].order = o,
           calls[c].entity.queueSeq = queueSeq, queueSeq # NoSeq
    PROVE  \A p \in Orders \ {o} : rows[p].queueSeq < queueSeq
<1> SUFFICES ASSUME NEW p \in Orders \ {o} PROVE rows[p].queueSeq < queueSeq
  OBVIOUS
<1>1. rows[p].queueSeq \in Nat /\ queueSeq \in Nat
  BY DEF SerialInv, TypeInv, TypeOK, Order
<1>2. Holds(o, queueSeq) /\ Holds(p, rows[p].queueSeq)
  BY DEF Holds
<1>3. CASE rows[p].queueSeq = NoSeq
  BY <1>1, <1>3 DEF NoSeq
<1>4. CASE rows[p].queueSeq # NoSeq
  <2>1. rows[p].queueSeq <= queueSeq
    BY <1>1, <1>2, <1>4 DEF SerialInv, PositionsInv
  <2>2. rows[p].queueSeq # queueSeq
    BY <1>1, <1>2 DEF SerialInv, PositionsInv
  <2> QED
    BY <1>1, <2>1, <2>2
<1> QED
  BY <1>3, <1>4

(* The head of a queue holds its least position. *)
LEMMA HeadIsLeast ==
    ASSUME SerialInv, NEW status \in Queues, NEW o \in Heads(status)
    PROVE  \A p \in Orders \ {o} :
               rows[p].status = status => rows[o].queueSeq < rows[p].queueSeq
<1> SUFFICES ASSUME NEW p \in Orders \ {o}, rows[p].status = status
             PROVE  rows[o].queueSeq < rows[p].queueSeq
  OBVIOUS
<1>1. o \in Orders /\ rows[o].status = status /\ ~Before(p, o)
  BY DEF Heads, Queued
<1>2. rows[p].queueSeq \in Nat \ {NoSeq} /\ rows[o].queueSeq \in Nat \ {NoSeq}
  BY <1>1 DEF SerialInv, WholeInv, Whole, TypeInv, TypeOK, Order
<1>3. rows[p].queueSeq # rows[o].queueSeq
  BY <1>1, <1>2 DEF SerialInv, PositionsInv, Holds
<1> QED
  BY <1>1, <1>2, <1>3 DEF Before

(* What a commit does to the row of its order, use case by use case. *)
RowMoves(o, from, to) == rows[o].status = from /\ rows'[o].status = to

LEMMA WriteMoves ==
    ASSUME SerialInv, NEW c \in Calls, InFlight(c), NEW out, WriteRow(c, out),
           NEW o, o = calls[c].order
    PROVE  /\ calls[c].op \in Changes
           /\ calls[c].op = "RegisterDiagnosis" =>
                 RowMoves(o, "IN_DIAGNOSIS_QUEUE", "AWAITING_PAYMENT")
           /\ calls[c].op = "EnqueueForExecution" =>
                 /\ RowMoves(o, "AWAITING_PAYMENT", "IN_EXECUTION_QUEUE")
                 /\ rows'[o].queueSeq = calls[c].entity.queueSeq
           /\ calls[c].op = "StartExecution" =>
                 RowMoves(o, "IN_EXECUTION_QUEUE", "IN_EXECUTION")
           /\ calls[c].op = "FinishExecution" => RowMoves(o, "IN_EXECUTION", "FINISHED")
           /\ calls[c].op = "FailExecution" => RowMoves(o, "IN_EXECUTION", "FAILED")
           /\ calls[c].op = "CancelExecution" =>
                 \E from \in {"IN_DIAGNOSIS_QUEUE", "AWAITING_PAYMENT",
                              "IN_EXECUTION_QUEUE"} : RowMoves(o, from, "CANCELLED")
<1>1. TypeInv /\ CurrentInv /\ CallOK(calls[c]) /\ calls[c].await = "write"
  BY TypeInvCalls DEF SerialInv, WriteRow
<1>2. SoloWrites(c)
  BY <1>1, SoloWrite DEF SerialInv
<1>3. rows[o] \in Order
  BY <1>1 DEF CallOK, Call, TypeInv, TypeOK
<1>4. PICK seq \in Nat : rows'[o] = Applied(calls[c], rows[o], seq)
  BY <1>2 DEF SoloWrites
<1>5. /\ calls[c].op \in Changes /\ Accepts(rows[o], calls[c].op)
      /\ rows'[o] = calls[c].entity
  BY <1>2 DEF SoloWrites
<1>6. /\ registerDiagnosis(rows[o], calls[c].diagnosis).status = "AWAITING_PAYMENT"
      /\ enqueueForExecution(rows[o], seq).status = "IN_EXECUTION_QUEUE"
      /\ cancel(rows[o]).status = "CANCELLED"
      /\ start(rows[o]).status = "IN_EXECUTION"
      /\ finish(rows[o]).status = "FINISHED"
      /\ fail(rows[o]).status = "FAILED"
  BY <1>3 DEF registerDiagnosis, enqueueForExecution, cancel, start, finish, fail, Order
<1> DEFINE to == rows'[o].status
<1>7. /\ calls[c].op = "RegisterDiagnosis" => to = "AWAITING_PAYMENT"
      /\ calls[c].op = "EnqueueForExecution" => to = "IN_EXECUTION_QUEUE"
      /\ calls[c].op = "CancelExecution" => to = "CANCELLED"
      /\ calls[c].op = "StartExecution" => to = "IN_EXECUTION"
      /\ calls[c].op = "FinishExecution" => to = "FINISHED"
      /\ calls[c].op = "FailExecution" => to = "FAILED"
  BY <1>4, <1>6, AppliedCases
<1>8. rows[o].status \in AllowedFrom[calls[c].op]
  BY <1>5 DEF Accepts
<1> QED
  BY <1>5, <1>7, <1>8 DEF RowMoves, AllowedFrom, Changes

(* The mapped variables after a commit. *)
LEMMA StageMoves ==
    ASSUME rows \in Tables, rows' \in Tables, NEW o \in Orders,
           OnlyChanges(o, rows, rows'), NEW from, NEW to, RowMoves(o, from, to)
    PROVE  Promise!Moves(o, from, to)
BY DEF Promise!Moves, Stages, OnlyChanges, RowMoves, Tables

LEMMA Announces ==
    ASSUME outbox \in Seq(Events), NEW e, outbox' = Append(outbox, e)
    PROVE  Announcements' = Append(Announcements, <<e.type, e.order>>)
<1> DEFINE n == Len(outbox)
           Pair(f) == <<f.type, f.order>>
           a == Announcements
<1>1. /\ n \in Nat /\ Len(outbox') = n + 1 /\ outbox'[n + 1] = e
      /\ \A i \in 1..n : outbox'[i] = outbox[i]
  OBVIOUS
<1>2. a = [i \in 1..n |-> Pair(outbox[i])]
  BY DEF Announcements
<1>3. Announcements' = [i \in 1..(n + 1) |-> Pair(outbox'[i])]
  BY <1>1 DEF Announcements
<1> HIDE DEF Pair, a
<1> DEFINE S == {Pair(outbox[i]) : i \in 1..n} \cup {Pair(e)}
<1>4. a \in Seq(S) /\ Len(a) = n /\ Pair(e) \in S
  BY <1>1, <1>2
<1>5. \A i \in 1..(n + 1) : Pair(outbox'[i]) \in S
  BY <1>1
<1> HIDE DEF S
<1>6. Announcements' \in Seq(S) /\ Len(Announcements') = n + 1
  BY <1>1, <1>3, <1>5
<1>7. Announcements' = Append(a, Pair(e))
  <2> DEFINE b == Append(a, Pair(e))
  <2>1. /\ b \in Seq(S) /\ Len(b) = n + 1 /\ b[n + 1] = Pair(e)
        /\ \A i \in 1..n : b[i] = a[i]
    BY <1>1, <1>4
  <2> HIDE DEF b
  <2>2. \A i \in 1..(n + 1) : Announcements'[i] = b[i]
    BY <1>1, <1>2, <1>3, <2>1
  <2> QED
    BY <1>1, <1>6, <2>1, <2>2 DEF b
<1> QED
  BY <1>7 DEF Pair, a

(* What a commit of an existing order is in the promise. *)
LEMMA WriteKeepsPromise ==
    ASSUME SerialInv, NEW c \in Calls, InFlight(c), NEW out, WriteRow(c, out),
           rows' \in Tables
    PROVE  /\ Promise!Next
           /\ \A status \in Queues : Listed(rows, status)'
<1> DEFINE o == calls[c].order
           D == "IN_DIAGNOSIS_QUEUE"
           E == "IN_EXECUTION_QUEUE"
<1>1. TypeInv /\ CallOK(calls[c]) /\ calls[c].await = "write"
  BY TypeInvCalls DEF SerialInv, WriteRow
<1>2. /\ o \in Orders /\ rows \in Tables /\ OnlyChanges(o, rows, rows')
      /\ outbox \in Seq(Events)
  BY <1>1 DEF CallOK, Call, TypeInv, TypeOK, Tables, OnlyChanges, WriteRow
<1>3. Queues = {D, E} /\ Listed(rows, D) /\ Listed(rows, E)
  BY DEF Queues, SerialInv
<1> SUFFICES /\ \/ Promise!Diagnose(o) \/ Promise!Pay(o) \/ Promise!StartRepair(o)
                \/ Promise!Finish(o) \/ Promise!Fail(o) \/ Promise!Cancel(o)
             /\ Listed(rows', D) /\ Listed(rows', E)
  BY <1>2, <1>3 DEF Promise!Next, Listed
<1> HIDE DEF o
<1>4. ASSUME NEW type, calls[c].op \in DOMAIN EventOf, EventOf[calls[c].op] = type
      PROVE  Announcements' = Append(Announcements, <<type, o>>)
  <2> DEFINE e == [type |-> type, order |-> o, diagnosis |-> calls[c].diagnosis]
  <2>1. outbox' = Append(outbox, e)
    BY <1>4 DEF WriteRow, o
  <2>2. e.type = type /\ e.order = o
    OBVIOUS
  <2> HIDE DEF e
  <2> QED
    BY <1>2, <2>1, <2>2, Announces
<1>5. calls[c].op \notin DOMAIN EventOf => Announcements' = Announcements
  BY DEF WriteRow, Announcements
<1>6. /\ EventOf["RegisterDiagnosis"] = "diagnostic.finished"
      /\ EventOf["FinishExecution"] = "execution.finished"
      /\ EventOf["FailExecution"] = "execution.failed"
  BY DEF EventOf
<1> USE <1>2, <1>3, UseCasesList
<1>7. CASE calls[c].op = "RegisterDiagnosis"
  <2>1. RowMoves(o, D, "AWAITING_PAYMENT")
    BY <1>7, WriteMoves DEF o
  <2>2. o \in Heads(D)
    BY <1>1, <1>7 DEF SerialInv, AtHeadInv, QueueOf, ChecksHead, o
  <2>3. /\ Listed(rows', D) /\ InOrder(rows', D) = Tail(InOrder(rows, D))
        /\ InOrder(rows, D) # <<>> /\ Head(InOrder(rows, D)) = o
    BY <2>1, <2>2, HeadIsLeast, QueueAdvances DEF RowMoves
  <2>4. Listed(rows', E) /\ InOrder(rows', E) = InOrder(rows, E)
    BY <2>1, QueueStays DEF RowMoves
  <2>5. Announcements' = Append(Announcements, <<"diagnostic.finished", o>>)
    BY <1>4, <1>6, <1>7
  <2> QED
    BY <2>1, <2>3, <2>4, <2>5, StageMoves DEF Promise!Diagnose, Promise!HeadLeaves
<1>8. CASE calls[c].op = "EnqueueForExecution"
  <2>1. RowMoves(o, "AWAITING_PAYMENT", E) /\ rows'[o].queueSeq = calls[c].entity.queueSeq
    BY <1>8, WriteMoves DEF o
  <2>2. calls[c].entity.queueSeq = queueSeq /\ queueSeq # NoSeq
    BY <1>1, <1>8 DEF SerialInv, LatestInv
  <2>3. \A p \in Orders \ {o} : rows[p].queueSeq < rows'[o].queueSeq
    BY <2>1, <2>2, LatestPosition DEF o
  <2>4. Listed(rows', E) /\ InOrder(rows', E) = Append(InOrder(rows, E), o)
    BY <2>1, <2>3, QueueGrows DEF RowMoves
  <2>5. Listed(rows', D) /\ InOrder(rows', D) = InOrder(rows, D)
    BY <2>1, QueueStays DEF RowMoves
  <2> QED
    BY <1>5, <1>8, <2>1, <2>4, <2>5, StageMoves DEF Promise!Pay
<1>9. CASE calls[c].op = "StartExecution"
  <2>1. RowMoves(o, E, "IN_EXECUTION")
    BY <1>9, WriteMoves DEF o
  <2>2. o \in Heads(E)
    BY <1>1, <1>9 DEF SerialInv, AtHeadInv, QueueOf, ChecksHead, o
  <2>3. /\ Listed(rows', E) /\ InOrder(rows', E) = Tail(InOrder(rows, E))
        /\ InOrder(rows, E) # <<>> /\ Head(InOrder(rows, E)) = o
    BY <2>1, <2>2, HeadIsLeast, QueueAdvances DEF RowMoves
  <2>4. Listed(rows', D) /\ InOrder(rows', D) = InOrder(rows, D)
    BY <2>1, QueueStays DEF RowMoves
  <2> QED
    BY <1>5, <1>9, <2>1, <2>3, <2>4, StageMoves DEF Promise!StartRepair, Promise!HeadLeaves
<1>10. ASSUME NEW to, RowMoves(o, "IN_EXECUTION", to), to \notin {D, E}
       PROVE  /\ Promise!Moves(o, "IN_EXECUTION", to)
              /\ Listed(rows', D) /\ InOrder(rows', D) = InOrder(rows, D)
              /\ Listed(rows', E) /\ InOrder(rows', E) = InOrder(rows, E)
  BY <1>10, StageMoves, QueueStays DEF RowMoves
<1>11. CASE calls[c].op = "FinishExecution"
  <2>1. RowMoves(o, "IN_EXECUTION", "FINISHED")
    BY <1>11, WriteMoves DEF o
  <2>2. Announcements' = Append(Announcements, <<"execution.finished", o>>)
    BY <1>4, <1>6, <1>11
  <2> QED
    BY <1>10, <2>1, <2>2 DEF Promise!Finish, Promise!EndRepair
<1>12. CASE calls[c].op = "FailExecution"
  <2>1. RowMoves(o, "IN_EXECUTION", "FAILED")
    BY <1>12, WriteMoves DEF o
  <2>2. Announcements' = Append(Announcements, <<"execution.failed", o>>)
    BY <1>4, <1>6, <1>12
  <2> QED
    BY <1>10, <2>1, <2>2 DEF Promise!Fail, Promise!EndRepair
<1>13. CASE calls[c].op = "CancelExecution"
  <2>1. Announcements' = Announcements
    BY <1>5, <1>13
  <2>2. CASE RowMoves(o, D, "CANCELLED")
    <3>1. /\ Listed(rows', D)
          /\ \E i \in 1..Len(InOrder(rows, D)) :
                /\ InOrder(rows, D)[i] = o
                /\ InOrder(rows', D) = Promise!Without(InOrder(rows, D), i)
      BY <2>2, QueueLoses DEF RowMoves
    <3>2. Listed(rows', E) /\ InOrder(rows', E) = InOrder(rows, E)
      BY <2>2, QueueStays DEF RowMoves
    <3> QED
      BY <2>1, <2>2, <3>1, <3>2, StageMoves DEF Promise!Cancel
  <2>3. CASE RowMoves(o, E, "CANCELLED")
    <3>1. /\ Listed(rows', E)
          /\ \E i \in 1..Len(InOrder(rows, E)) :
                /\ InOrder(rows, E)[i] = o
                /\ InOrder(rows', E) = Promise!Without(InOrder(rows, E), i)
      BY <2>3, QueueLoses DEF RowMoves
    <3>2. Listed(rows', D) /\ InOrder(rows', D) = InOrder(rows, D)
      BY <2>3, QueueStays DEF RowMoves
    <3> QED
      BY <2>1, <2>3, <3>1, <3>2, StageMoves DEF Promise!Cancel
  <2>4. CASE RowMoves(o, "AWAITING_PAYMENT", "CANCELLED")
    <3>1. /\ Listed(rows', D) /\ InOrder(rows', D) = InOrder(rows, D)
          /\ Listed(rows', E) /\ InOrder(rows', E) = InOrder(rows, E)
      BY <2>4, QueueStays DEF RowMoves
    <3> QED
      BY <2>1, <2>4, <3>1, StageMoves DEF Promise!Cancel
  <2> QED
    BY <1>13, <2>2, <2>3, <2>4, WriteMoves DEF o
<1> QED
  BY <1>7, <1>8, <1>9, <1>11, <1>12, <1>13, WriteMoves DEF Changes

(* The insert is a reception. *)
LEMMA InsertKeepsPromise ==
    ASSUME SerialInv, NEW c \in Calls, InFlight(c), NEW out, InsertOrder(c, out),
           rows' \in Tables
    PROVE  /\ Promise!Next
           /\ \A status \in Queues : Listed(rows, status)'
<1> DEFINE o == calls[c].order
           D == "IN_DIAGNOSIS_QUEUE"
           E == "IN_EXECUTION_QUEUE"
<1>1. TypeInv /\ CurrentInv /\ CallOK(calls[c]) /\ calls[c].await = "insert"
  BY TypeInvCalls DEF SerialInv, InsertOrder
<1>2. /\ o \in Orders /\ rows \in Tables /\ OnlyChanges(o, rows, rows')
      /\ outbox' = outbox /\ rows'[o] = calls[c].entity
  BY <1>1 DEF CallOK, Call, TypeInv, TypeOK, Tables, OnlyChanges, InsertOrder
<1>3. Queues = {D, E} /\ Listed(rows, D) /\ Listed(rows, E)
  BY DEF Queues, SerialInv
<1> SUFFICES Promise!Receive(o) /\ Listed(rows', D) /\ Listed(rows', E)
  BY <1>2, <1>3 DEF Promise!Next, Listed
<1>4. RowMoves(o, "ABSENT", D)
  <2>1. /\ rows[o].status = Absent
        /\ \E seq \in Nat \ {NoSeq} : rows'[o] = receive(seq)
    BY <1>1, SoloInsert DEF SerialInv
  <2> QED
    BY <2>1 DEF RowMoves, receive, Absent
<1>5. calls[c].entity.queueSeq = queueSeq /\ queueSeq # NoSeq
  BY <1>1 DEF SerialInv, LatestInv
<1>6. \A p \in Orders \ {o} : rows[p].queueSeq < rows'[o].queueSeq
  BY <1>2, <1>5, LatestPosition
<1> HIDE DEF o
<1>7. Listed(rows', D) /\ InOrder(rows', D) = Append(InOrder(rows, D), o)
  BY <1>2, <1>3, <1>4, <1>6, QueueGrows DEF RowMoves
<1>8. Listed(rows', E) /\ InOrder(rows', E) = InOrder(rows, E)
  BY <1>2, <1>3, <1>4, QueueStays DEF RowMoves
<1>9. Announcements' = Announcements
  BY <1>2 DEF Announcements
<1> QED
  BY <1>2, <1>4, <1>7, <1>8, <1>9, StageMoves DEF Promise!Receive

(* Everything else changes nothing the promise speaks of. *)
LEMMA Stutters ==
    ASSUME SerialInv, UNCHANGED <<rows, outbox>>
    PROVE  /\ UNCHANGED Promise!vars
           /\ \A status \in Queues : Listed(rows, status)'
<1>1. Stages' = Stages /\ Announcements' = Announcements
  BY DEF Stages, Announcements
<1>2. \A status : Listed(rows, status)' <=> Listed(rows, status)
  BY DEF Listed, Lists
<1> QED
  BY <1>1, <1>2 DEF SerialInv, Promise!vars

LEMMA SerialNext ==
    ASSUME SerialInv, [Next]_vars
    PROVE  SerialInv' /\ [Promise!Next]_(Promise!vars)
<1>1. TypeInv' /\ PositionsInv' /\ CurrentInv' /\ WholeInv'
  BY TypeInvNext, PositionsNext, CurrentNext, WholeNext DEF SerialInv
<1>2. rows' \in Tables
  BY <1>1 DEF TypeInv, TypeOK, Tables
<1>3. ASSUME NEW c \in Calls, NEW op \in UseCases, NEW o \in Orders,
             NEW d \in Diagnoses \cup {NoDiagnosis}, Begin(c, op, o, d)
      PROVE  SerialInv' /\ [Promise!Next]_(Promise!vars)
  <2>1. Calls \ {c} = {}
    BY OneCallAssumption
  <2>2. overlapped' = {} /\ UNCHANGED <<rows, outbox, queueSeq>>
    BY <1>3, <2>1 DEF Begin, SerialInv
  <2>3. calls'[c].await = "findOrder"
    BY <1>3 DEF Begin, SerialInv, TypeInv, TypeOK
  <2>4. LatestInv' /\ AtHeadInv'
    BY <2>3, OneCallAssumption DEF LatestInv, AtHeadInv
  <2> QED
    BY <1>1, <2>2, <2>4, Stutters DEF SerialInv
<1>4. ASSUME NEW c \in Calls, NEW out \in Outcomes, Step(c, out)
      PROVE  SerialInv' /\ [Promise!Next]_(Promise!vars)
  <2>1. TypeInv /\ InFlight(c)
    BY <1>4, StepShape DEF SerialInv
  <2>2. overlapped' = {}
    BY <1>4, <2>1, StepFrame DEF SerialInv
  <2>3. LatestInv' /\ AtHeadInv'
    BY <1>4, LatestStep, AtHeadStep
  <2>4. /\ [Promise!Next]_(Promise!vars)
        /\ \A status \in Queues : Listed(rows, status)'
    BY <1>2, <1>4, <2>1, StepShape, WriteKeepsPromise, InsertKeepsPromise, Stutters
  <2> QED
    BY <1>1, <2>2, <2>3, <2>4 DEF SerialInv
<1>5. CASE UNCHANGED vars
  <2>1. UNCHANGED <<rows, outbox, queueSeq, calls, overlapped>>
    BY <1>5 DEF vars
  <2>2. LatestInv'
    BY <2>1 DEF SerialInv, LatestInv, InFlight
  <2>3. AtHeadInv'
    BY <2>1 DEF SerialInv, AtHeadInv, InFlight, Heads, Queued, Before, QueueOf
  <2> QED
    BY <1>1, <2>1, <2>2, <2>3, Stutters DEF SerialInv
<1> QED
  BY <1>3, <1>4, <1>5 DEF Next

LEMMA SerialInit == Init => SerialInv /\ Promise!Init
<1> SUFFICES ASSUME Init PROVE SerialInv /\ Promise!Init
  OBVIOUS
<1>1. TypeInv /\ PositionsInv /\ CurrentInv /\ WholeInv
  BY TypeInvInit, PositionsInit, CurrentInit, WholeInit
<1>2. overlapped = {} /\ LatestInv /\ AtHeadInv
  BY DEF Init, LatestInv, AtHeadInv, InFlight, Idle
<1>3. rows \in Tables /\ \A o \in Orders : rows[o].status = "ABSENT"
  BY <1>1 DEF Init, NoOrder, Absent, TypeInv, TypeOK, Tables
<1>4. ASSUME NEW status \in Queues
      PROVE  Listed(rows, status) /\ InOrder(rows, status) = <<>>
  <2>1. Lists(<<>>, rows, status)
    BY <1>3 DEF Lists, Queues
  <2> QED
    BY <1>3, <2>1, InOrderLists DEF Listed
<1>5. Stages = [o \in Orders |-> "ABSENT"] /\ Announcements = <<>>
  <2>1. outbox = <<>>
    BY DEF Init
  <2> QED
    BY <1>3, <2>1 DEF Stages, Announcements
<1> QED
  BY <1>1, <1>2, <1>4, <1>5 DEF SerialInv, Promise!Init, Queues

(* One call at a time, the service is the two FIFO queues and the          *)
(* lifecycle of OrderQueues, for any number of orders and whatever         *)
(* statements fail or answers are lost.                                    *)
THEOREM ServiceKeepsPromise == Spec => KeepsPromise
<1>1. Spec => Promise!Init /\ [][Promise!Next]_(Promise!vars)
  BY SerialInit, SerialNext, PTL DEF Spec
<1> QED
  BY <1>1 DEF KeepsPromise, Promise!Spec
=============================================================================
