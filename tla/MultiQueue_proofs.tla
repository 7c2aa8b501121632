-------------------------- MODULE MultiQueue_proofs --------------------------
(***************************************************************************)
(* Proofs about MultiQueue, for any number of queues and any packets.      *)
(***************************************************************************)
EXTENDS MultiQueue, FiniteSetTheorems, SequenceTheorems, TLAPS

(* A non-empty set of queue indices has a largest element.                 *)
LEMMA LargestExists ==
  ASSUME NEW w \in Nat, NEW S \in SUBSET (1..w), S # {}
  PROVE  \E x \in S : \A y \in S : y <= x
<1> DEFINE Mirror == {w - s : s \in S}
           R == {ss \in Nat \X Nat : ss[1] < ss[2]}
<1>1. IsWellFoundedOn(R, Nat)
  BY NatLessThanWellFounded DEF OpToRel
<1>2. Mirror \subseteq Nat /\ Mirror # {}
  <2>1. \A s \in S : s \in Int /\ w - s \in Nat
    OBVIOUS
  <2> QED BY <2>1
<1>3. PICK m \in Mirror : \A n \in Mirror : ~ (<<n, m>> \in R)
  <2> HIDE DEF Mirror, R
  <2> QED BY <1>1, <1>2, WFMin
<1>4. PICK x \in S : m = w - x
  OBVIOUS
<1>5. ASSUME NEW y \in S PROVE y <= x
  <2>1. w - y \in Mirror /\ w - y \in Nat /\ w - x \in Nat
    BY SMT
  <2>2. ~ (w - y < w - x)
    BY <1>3, <1>4, <2>1
  <2> QED BY <2>2, SMT
<1> QED BY <1>5

(* The weighted queues that wait are a finite set of indices.              *)
LEMMA BackloggedFinite ==
  ASSUME NEW w \in Nat, NEW qs
  PROVE  /\ Backlogged(qs, w) \in SUBSET (1..w)
         /\ IsFiniteSet(Backlogged(qs, w))
         /\ Cardinality(Backlogged(qs, w)) \in Nat
<1>1. Backlogged(qs, w) \in SUBSET (1..w)
  BY DEF Backlogged
<1>2. IsFiniteSet(1..w)
  BY FS_Interval
<1>3. IsFiniteSet(Backlogged(qs, w))
  BY <1>1, <1>2, FS_Subset
<1> QED BY <1>1, <1>3, FS_CardinalityType

(* Dequeue finds a packet whenever a weighted queue holds one: the loop    *)
(* falls through to the last of them.                                      *)
LEMMA PickableNonempty ==
  ASSUME NEW w \in Nat, NEW qs, Backlogged(qs, w) # {}
  PROVE  Pickable(qs, w) # {}
<1> DEFINE S == Backlogged(qs, w)
<1>1. S \in SUBSET (1..w) /\ IsFiniteSet(S) /\ Cardinality(S) \in Nat
  BY BackloggedFinite
<1>2. PICK x \in S : \A y \in S : y <= x
  BY <1>1, LargestExists
<1>3. {j \in S : j < x} = S \ {x}
  BY <1>1, <1>2
<1>4. Cardinality(S \ {x}) = Cardinality(S) - 1
  BY <1>1, FS_RemoveElement
<1>5. Rank(S, x) + 1 = Cardinality(S)
  BY <1>1, <1>3, <1>4 DEF Rank
<1> QED BY <1>2, <1>5 DEF Pickable

(* The first waiting queue is not pickable while another one waits: its    *)
(* position is 0, which is neither the last position nor that of a queue   *)
(* that holds a packet.                                                    *)
LEMMA FirstNotPickable ==
  ASSUME NEW w \in Nat, NEW qs, qs[0] = <<>>,
         NEW i \in Backlogged(qs, w), NEW j \in Backlogged(qs, w), i < j,
         \A k \in Backlogged(qs, w) : i <= k
  PROVE  i \notin Pickable(qs, w)
<1> DEFINE S == Backlogged(qs, w)
<1>1. S \in SUBSET (1..w) /\ IsFiniteSet(S) /\ Cardinality(S) \in Nat
  BY BackloggedFinite
<1>2. {k \in S : k < i} = {}
  BY <1>1
<1>3. Rank(S, i) = 0
  BY <1>2, FS_EmptySet DEF Rank
<1>4. Cardinality({i, j}) = 2
  <2>1. {i, j} = {i} \cup {j} /\ j \notin {i}
    BY <1>1
  <2>2. IsFiniteSet({i}) /\ Cardinality({i}) = 1
    BY FS_Singleton
  <2>3. Cardinality({i} \cup {j}) = Cardinality({i}) + 1
    BY <2>1, <2>2, FS_AddElement
  <2>4. Cardinality({i} \cup {j}) = 2
    BY <2>2, <2>3, SMT
  <2> QED BY <2>1, <2>4, Zenon
<1>5. Cardinality(S) >= 2
  <2>1. {i, j} \in SUBSET S
    OBVIOUS
  <2> QED BY <2>1, <1>1, <1>4, FS_Subset
<1>6. Rank(S, i) + 1 # Cardinality(S)
  BY <1>1, <1>3, <1>5
<1> QED BY <1>3, <1>6 DEF Pickable

(* Only a queue that holds a packet is served.                             *)
LEMMA ServableNonempty ==
  ASSUME NEW w \in Nat, NEW qs, NEW i \in Servable(qs, w)
  PROVE  i \in 0..w /\ qs[i] # <<>>
BY DEF Servable, Pickable, Backlogged

(* What a sequence holds, and its last element, after push and pop.        *)
LEMMA AppendFacts ==
  ASSUME NEW S, NEW s \in Seq(S), NEW e \in S
  PROVE  /\ Append(s, e) \in Seq(S) /\ Append(s, e) # <<>>
         /\ Last(Append(s, e)) = e
         /\ ToSet(Append(s, e)) = ToSet(s) \cup {e}
<1>1. /\ Append(s, e) \in Seq(S) /\ Append(s, e) # <<>>
      /\ Len(Append(s, e)) = Len(s) + 1 /\ Append(s, e)[Len(s) + 1] = e
  OBVIOUS
<1>2. \A k \in 1..Len(s) : Append(s, e)[k] = s[k]
  OBVIOUS
<1>3. DOMAIN s = 1..Len(s) /\ DOMAIN Append(s, e) = 1..(Len(s) + 1) /\ Len(s) \in Nat
  BY <1>1
<1>4. ASSUME NEW x \in ToSet(Append(s, e)) PROVE x \in ToSet(s) \cup {e}
  <2>1. PICK k \in 1..(Len(s) + 1) : x = Append(s, e)[k]
    BY <1>3, Zenon DEF ToSet
  <2>2. CASE k = Len(s) + 1
    BY <1>1, <2>1, <2>2
  <2>3. CASE k # Len(s) + 1
    <3>1. k \in DOMAIN s /\ x = s[k]
      BY <1>2, <1>3, <2>1, <2>3
    <3> QED BY <3>1, Zenon DEF ToSet
  <2> QED BY <2>2, <2>3
<1>5. ASSUME NEW x \in ToSet(s) PROVE x \in ToSet(Append(s, e))
  <2>1. PICK k \in DOMAIN s : x = s[k]
    BY Zenon DEF ToSet
  <2>2. k \in DOMAIN Append(s, e) /\ x = Append(s, e)[k]
    BY <1>2, <1>3, <2>1
  <2> QED BY <2>2, Zenon DEF ToSet
<1>6. e \in ToSet(Append(s, e))
  <2>1. Len(s) + 1 \in DOMAIN Append(s, e)
    BY <1>3
  <2> QED BY <1>1, <2>1, Zenon DEF ToSet
<1> QED BY <1>1, <1>4, <1>5, <1>6 DEF Last

(* What is left of a sequence behind its first element.                    *)
LEMMA TailFacts ==
  ASSUME NEW S, NEW s \in Seq(S), s # <<>>
  PROVE  /\ Head(s) \in S /\ Head(s) \in ToSet(s)
         /\ Tail(s) \in Seq(S) /\ ToSet(Tail(s)) \subseteq ToSet(s)
         /\ Len(s) > 1 => Tail(s) # <<>> /\ Last(Tail(s)) = Last(s)
<1>1. Head(s) \in S /\ Tail(s) \in Seq(S) /\ 1 \in DOMAIN s /\ Head(s) = s[1]
  OBVIOUS
<1>2. ASSUME NEW k \in DOMAIN Tail(s)
      PROVE  k + 1 \in DOMAIN s /\ Tail(s)[k] = s[k + 1]
  OBVIOUS
<1>3. Head(s) \in ToSet(s)
  BY <1>1 DEF ToSet
<1>4. ASSUME NEW e \in ToSet(Tail(s)) PROVE e \in ToSet(s)
  <2>1. PICK k \in DOMAIN Tail(s) : e = Tail(s)[k]
    BY Zenon DEF ToSet
  <2>2. k + 1 \in DOMAIN s /\ e = s[k + 1]
    BY <1>2, <2>1
  <2> QED BY <2>2, Zenon DEF ToSet
<1>5. Len(s) > 1 => Tail(s) # <<>> /\ Last(Tail(s)) = Last(s)
  <2>1. ASSUME Len(s) > 1
        PROVE  Len(Tail(s)) = Len(s) - 1 /\ Tail(s) # <<>> /\ Len(s) - 1 \in DOMAIN Tail(s)
    <3>1. Len(Tail(s)) = Len(s) - 1 /\ Len(s) \in Nat /\ Tail(s) \in Seq(S)
      BY HeadTailProperties
    <3>2. DOMAIN Tail(s) = 1..Len(Tail(s))
      BY <3>1
    <3>3. Tail(s) # <<>>
      <4>1. Len(Tail(s)) # 0
        BY <2>1, <3>1
      <4> QED BY <3>1, <4>1, EmptySeq
    <3> QED BY <2>1, <3>1, <3>2, <3>3
  <2>2. ASSUME Len(s) > 1 PROVE Tail(s)[Len(s) - 1] = s[Len(s)]
    BY <2>1, <2>2, <1>2
  <2> QED BY <2>1, <2>2 DEF Last
<1> QED BY <1>1, <1>3, <1>4, <1>5

-----------------------------------------------------------------------------

(* The queue Enqueue chooses exists.                                       *)
LEMMA QueueOfType ==
  ASSUME NEW p \in Packet
  PROVE  QueueOf(Tag[p], NQueues) \in Queue
BY MultiQueueAssumption, NoTagAssumption DEF QueueOf, Queue

LEMMA NWeightsType == NWeights \in Nat /\ Queue = 0..NWeights /\ 0 \in Queue
BY MultiQueueAssumption DEF NWeights, Queue

(* Moving the head of the second of two sequences to the end of the first  *)
(* does not change their concatenation (front, pop).                       *)
LEMMA MoveHead ==
  ASSUME NEW S, NEW s \in Seq(S), NEW t \in Seq(S), t # <<>>
  PROVE  s \o t = Append(s, Head(t)) \o Tail(t)
OBVIOUS

-----------------------------------------------------------------------------
(* The queues and their histories stay vectors of packet sequences         *)
(* (m_queues), whatever the number of priorities and the packets' tags.    *)
THEOREM TypeCorrect == Spec => []TypeOK
<1>1. Init => TypeOK
  BY DEF Init, TypeOK
<1>2. TypeOK /\ [Next]_vars => TypeOK'
  <2> SUFFICES ASSUME TypeOK, [Next]_vars PROVE TypeOK'
    OBVIOUS
  <2>1. ASSUME NEW p \in Packet, Enqueue(p) PROVE TypeOK'
    BY <2>1, QueueOfType DEF Enqueue, TypeOK
  <2>2. ASSUME NEW i \in Queue, Dequeue(i) PROVE TypeOK'
    <3>1. queues[i] \in Seq(Packet) /\ queues[i] # <<>>
      BY <2>2, NWeightsType, ServableNonempty DEF Dequeue, TypeOK
    <3>2. Tail(queues[i]) \in Seq(Packet) /\ Head(queues[i]) \in Packet
      BY <3>1
    <3> QED BY <2>2, <3>2 DEF Dequeue, TypeOK
  <2>3. CASE UNCHANGED vars
    BY <2>3 DEF vars, TypeOK
  <2> QED BY <2>1, <2>2, <2>3 DEF Next
<1> QED BY <1>1, <1>2, PTL DEF Spec

(* A queue gives its packets in the order in which it took them and loses  *)
(* none: Fifo is inductive once the types are known.                       *)
THEOREM FifoCorrect == Spec => []Fifo
<1>1. Init => Fifo
  BY DEF Init, Fifo
<1>2. TypeOK /\ Fifo /\ [Next]_vars => Fifo'
  <2> SUFFICES ASSUME TypeOK, Fifo, [Next]_vars, NEW k \in Queue
               PROVE  arrived'[k] = departed'[k] \o queues'[k]
    BY DEF Fifo
  <2>1. /\ queues[k] \in Seq(Packet)
        /\ arrived[k] \in Seq(Packet)
        /\ departed[k] \in Seq(Packet)
        /\ arrived[k] = departed[k] \o queues[k]
    BY DEF TypeOK, Fifo
  <2>2. ASSUME NEW p \in Packet, Enqueue(p)
        PROVE  arrived'[k] = departed'[k] \o queues'[k]
    <3>1. CASE k = QueueOf(Tag[p], NQueues)
      <4>1. /\ queues'[k] = Append(queues[k], p)
            /\ arrived'[k] = Append(arrived[k], p)
            /\ departed'[k] = departed[k]
        BY <2>2, <3>1 DEF Enqueue, TypeOK
      <4> DEFINE d == departed[k]
                 q == queues[k]
      <4>2. d \in Seq(Packet) /\ q \in Seq(Packet)
        BY <2>1
      <4> HIDE DEF d, q
      <4>3. Append(d \o q, p) = d \o Append(q, p)
        BY <4>2
      <4> QED BY <2>1, <4>1, <4>3, Zenon DEF d, q
    <3>2. CASE k # QueueOf(Tag[p], NQueues)
      BY <2>1, <2>2, <3>2 DEF Enqueue, TypeOK
    <3> QED BY <3>1, <3>2
  <2>3. ASSUME NEW i \in Queue, Dequeue(i)
        PROVE  arrived'[k] = departed'[k] \o queues'[k]
    <3>1. CASE k = i
      <4>1. queues[i] # <<>>
        BY <2>3, NWeightsType, ServableNonempty DEF Dequeue
      <4>2. /\ queues'[i] = Tail(queues[i])
            /\ departed'[i] = Append(departed[i], Head(queues[i]))
            /\ arrived'[i] = arrived[i]
        BY <2>3 DEF Dequeue, TypeOK
      <4>3. departed[i] \o queues[i]
              = Append(departed[i], Head(queues[i])) \o Tail(queues[i])
        BY <2>1, <3>1, <4>1, MoveHead, Zenon
      <4> QED BY <2>1, <3>1, <4>2, <4>3, Zenon
    <3>2. CASE k # i
      BY <2>1, <2>3, <3>2 DEF Dequeue, TypeOK
    <3> QED BY <3>1, <3>2
  <2>4. CASE UNCHANGED vars
    BY <2>1, <2>4 DEF vars
  <2> QED BY <2>2, <2>3, <2>4 DEF Next
<1> QED BY <1>1, <1>2, TypeCorrect, PTL DEF Spec

(* Every packet a queue holds or has given belongs to it by its tag, so    *)
(* the packets of one priority never spread over two queues.               *)
THEOREM InOwnQueueCorrect == Spec => []InOwnQueue
<1> DEFINE Own(i, q) == \A p \in ToSet(q) : i = QueueOf(Tag[p], NQueues)
<1>1. InOwnQueue <=> \A i \in Queue : Own(i, queues[i]) /\ Own(i, departed[i])
  BY DEF InOwnQueue
<1>2. Init => InOwnQueue
  BY DEF Init, InOwnQueue, ToSet
<1>3. TypeOK /\ InOwnQueue /\ [Next]_vars => InOwnQueue'
  <2> SUFFICES ASSUME TypeOK, InOwnQueue, [Next]_vars, NEW k \in Queue
               PROVE  Own(k, queues'[k]) /\ Own(k, departed'[k])
    BY DEF InOwnQueue
  <2>1. /\ queues[k] \in Seq(Packet) /\ departed[k] \in Seq(Packet)
        /\ Own(k, queues[k]) /\ Own(k, departed[k])
    BY <1>1 DEF TypeOK
  <2> HIDE DEF Own
  <2>2. ASSUME NEW p \in Packet, Enqueue(p)
        PROVE  Own(k, queues'[k]) /\ Own(k, departed'[k])
    <3>1. CASE k = QueueOf(Tag[p], NQueues)
      <4>1. queues'[k] = Append(queues[k], p) /\ departed'[k] = departed[k]
        BY <2>2, <3>1 DEF Enqueue, TypeOK
      <4>2. ToSet(queues'[k]) = ToSet(queues[k]) \cup {p}
        <5>1. ToSet(Append(queues[k], p)) = ToSet(queues[k]) \cup {p}
          BY <2>1, AppendFacts
        <5> QED BY <4>1, <5>1
      <4> QED BY <2>1, <3>1, <4>1, <4>2, Zenon DEF Own
    <3>2. CASE k # QueueOf(Tag[p], NQueues)
      BY <2>1, <2>2, <3>2 DEF Enqueue, TypeOK
    <3> QED BY <3>1, <3>2
  <2>3. ASSUME NEW i \in Queue, Dequeue(i)
        PROVE  Own(k, queues'[k]) /\ Own(k, departed'[k])
    <3>1. CASE k = i
      <4>1. queues[k] # <<>>
        BY <2>3, <3>1, NWeightsType, ServableNonempty DEF Dequeue
      <4>2. /\ queues'[k] = Tail(queues[k])
            /\ departed'[k] = Append(departed[k], Head(queues[k]))
        BY <2>3, <3>1 DEF Dequeue, TypeOK
      <4>3. Head(queues[k]) \in Packet
        BY <2>1, <4>1
      <4>4. /\ Head(queues[k]) \in ToSet(queues[k])
            /\ ToSet(Tail(queues[k])) \subseteq ToSet(queues[k])
        BY <2>1, <4>1, TailFacts, Zenon
      <4>5. ToSet(departed'[k]) = ToSet(departed[k]) \cup {Head(queues[k])}
        <5>1. ToSet(Append(departed[k], Head(queues[k])))
                = ToSet(departed[k]) \cup {Head(queues[k])}
          BY <2>1, <4>3, AppendFacts
        <5> QED BY <4>2, <5>1
      <4> QED BY <2>1, <4>2, <4>4, <4>5, Zenon DEF Own
    <3>2. CASE k # i
      BY <2>1, <2>3, <3>2 DEF Dequeue, TypeOK
    <3> QED BY <3>1, <3>2
  <2>4. CASE UNCHANGED vars
    BY <2>1, <2>4 DEF vars
  <2> QED BY <2>2, <2>3, <2>4 DEF Next
<1> QED BY <1>2, <1>3, TypeCorrect, PTL DEF Spec

(* While an acknowledgement waits, no other queue is served.               *)
THEOREM AckFirstCorrect == Spec => AckFirst
<1>1. TypeOK /\ [Next]_vars =>
        [queues[0] # <<>> =>
           \A i \in Queue \ {0} : departed'[i] = departed[i]]_vars
  BY DEF Next, Enqueue, Dequeue, Servable, TypeOK, vars
<1> QED BY <1>1, TypeCorrect, PTL DEF Spec, AckFirst

(* Dequeue never returns the null pointer for a queue that is not empty.   *)
THEOREM NeverStuckCorrect == Spec => []NeverStuck
<1>1. TypeOK => NeverStuck
  <2> SUFFICES ASSUME TypeOK, NEW i \in Queue, queues[i] # <<>>, queues[0] = <<>>
               PROVE  Pickable(queues, NWeights) # {}
    BY DEF NeverStuck, Servable
  <2>1. i \in Backlogged(queues, NWeights)
    BY NWeightsType DEF Backlogged
  <2> QED BY <2>1, NWeightsType, PickableNonempty
<1> QED BY <1>1, TypeCorrect, PTL

(* With no acknowledgement and two weighted queues waiting, Peek shows a   *)
(* packet that Dequeue cannot return.                                      *)
THEOREM PeekMissesCorrect == Spec => []PeekMisses
<1>1. TypeOK => PeekMisses
  <2> DEFINE S == Backlogged(queues, NWeights)
  <2> SUFFICES ASSUME TypeOK, queues[0] = <<>>, Cardinality(S) > 1,
                      NEW i \in Peeked(queues, NQueues), i \in Pickable(queues, NWeights)
               PROVE  FALSE
    BY DEF PeekMisses, Servable
  <2>1. S \in SUBSET (1..NWeights) /\ IsFiniteSet(S) /\ NWeights \in Nat
    BY BackloggedFinite, NWeightsType
  <2>2. i \in S /\ \A k \in S : i <= k
    BY <2>1, MultiQueueAssumption DEF Peeked, Backlogged, NWeights
  <2>3. S # {i}
    <3>1. Cardinality({i}) = 1
      BY FS_Singleton
    <3> QED BY <3>1
  <2>4. PICK j \in S : j # i
    BY <2>2, <2>3
  <2>5. i < j
    BY <2>1, <2>2, <2>4
  <2> QED BY <2>1, <2>2, <2>5, FirstNotPickable
<1> QED BY <1>1, TypeCorrect, PTL

=============================================================================
