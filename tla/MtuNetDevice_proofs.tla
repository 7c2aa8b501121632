------------------------- MODULE MtuNetDevice_proofs -------------------------
(***************************************************************************)
(* Proofs about MtuNetDevice, for any packets, tags, loss rates and number *)
(* of queues.                                                              *)
(***************************************************************************)
EXTENDS MtuNetDevice, FiniteSetTheorems, SequenceTheorems, TLAPS

(* Induction over the natural numbers, for a set.                          *)
LEMMA Induction ==
  ASSUME NEW S, 0 \in S, \A n \in Nat : n \in S => n + 1 \in S
  PROVE  Nat \subseteq S
<1> DEFINE R == {ss \in Nat \X Nat : ss[1] < ss[2]}
           T == Nat \ S
<1>1. IsWellFoundedOn(R, Nat)
  BY NatLessThanWellFounded DEF OpToRel
<1>2. SUFFICES ASSUME T # {} PROVE FALSE
  OBVIOUS
<1>3. T \subseteq Nat
  OBVIOUS
<1>4. PICK m \in T : \A n \in T : ~ (<<n, m>> \in R)
  <2> HIDE DEF R, T
  <2> QED BY <1>1, <1>2, <1>3, WFMin
<1>5. m \in Nat /\ m # 0 /\ m - 1 \in Nat
  <2>1. m \in Nat /\ m \notin S
    BY DEF T
  <2> QED BY <2>1
<1>6. <<m - 1, m>> \in R
  BY <1>5
<1>7. m - 1 \in S
  BY <1>4, <1>5, <1>6
<1> QED BY <1>5, <1>7

(* A non-empty set of queue indices has a largest element.                 *)
LEMMA LargestExists ==
  ASSUME NEW w \in Nat, NEW S \in SUBSET (1..w), S # {}
  PROVE  \E x \in S : \A y \in S : y <= x
<1> DEFINE Mirror == {w - s : s \in S}
           R == {ss \in Nat \X Nat : ss[1] < ss[2]}
<1>1. IsWellFoundedOn(R, Nat)
  BY NatLessThanWellFounded DEF OpToRel
<1>2. Mirror \subseteq Nat /\ Mirror # {}
  <2>1. \A s \in S : s \in Int /\ w - s \in Nat
    OBVIOUS
  <2> QED BY <2>1
<1>3. PICK m \in Mirror : \A n \in Mirror : ~ (<<n, m>> \in R)
  <2> HIDE DEF Mirror, R
  <2> QED BY <1>1, <1>2, WFMin
<1>4. PICK x \in S : m = w - x
  OBVIOUS
<1>5. ASSUME NEW y \in S PROVE y <= x
  <2>1. w - y \in Mirror /\ w - y \in Nat /\ w - x \in Nat
    BY SMT
  <2>2. ~ (w - y < w - x)
    BY <1>3, <1>4, <2>1
  <2> QED BY <2>2, SMT
<1> QED BY <1>5

(* The weighted queues that wait are a finite set of indices.              *)
LEMMA BackloggedFinite ==
  ASSUME NEW w \in Nat, NEW qs
  PROVE  /\ Backlogged(qs, w) \in SUBSET (1..w)
         /\ IsFiniteSet(Backlogged(qs, w))
         /\ Cardinality(Backlogged(qs, w)) \in Nat
<1>1. Backlogged(qs, w) \in SUBSET (1..w)
  BY DEF Backlogged
<1>2. IsFiniteSet(1..w)
  BY FS_Interval
<1>3. IsFiniteSet(Backlogged(qs, w))
  BY <1>1, <1>2, FS_Subset
<1> QED BY <1>1, <1>3, FS_CardinalityType

(* Dequeue finds a packet whenever a weighted queue holds one: the loop    *)
(* falls through to the last of them.                                      *)
LEMMA PickableNonempty ==
  ASSUME NEW w \in Nat, NEW qs, Backlogged(qs, w) # {}
  PROVE  Pickable(qs, w) # {}
<1> DEFINE S == Backlogged(qs, w)
<1>1. S \in SUBSET (1..w) /\ IsFiniteSet(S) /\ Cardinality(S) \in Nat
  BY BackloggedFinite
<1>2. PICK x \in S : \A y \in S : y <= x
  BY <1>1, LargestExists
<1>3. {j \in S : j < x} = S \ {x}
  BY <1>1, <1>2
<1>4. Cardinality(S \ {x}) = Cardinality(S) - 1
  BY <1>1, FS_RemoveElement
<1>5. Rank(S, x) + 1 = Cardinality(S)
  BY <1>1, <1>3, <1>4 DEF Rank
<1> QED BY <1>2, <1>5 DEF Pickable

(* The first waiting queue is not pickable while another one waits: its    *)
(* position is 0, which is neither the last position nor that of a queue   *)
(* that holds a packet.                                                    *)
LEMMA FirstNotPickable ==
  ASSUME NEW w \in Nat, NEW qs, qs[0] = <<>>,
         NEW i \in Backlogged(qs, w), NEW j \in Backlogged(qs, w), i < j,
         \A k \in Backlogged(qs, w) : i <= k
  PROVE  i \notin Pickable(qs, w)
<1> DEFINE S == Backlogged(qs, w)
<1>1. S \in SUBSET (1..w) /\ IsFiniteSet(S) /\ Cardinality(S) \in Nat
  BY BackloggedFinite
<1>2. {k \in S : k < i} = {}
  BY <1>1
<1>3. Rank(S, i) = 0
  BY <1>2, FS_EmptySet DEF Rank
<1>4. Cardinality({i, j}) = 2
  <2>1. {i, j} = {i} \cup {j} /\ j \notin {i}
    BY <1>1
  <2>2. IsFiniteSet({i}) /\ Cardinality({i}) = 1
    BY FS_Singleton
  <2>3. Cardinality({i} \cup {j}) = Cardinality({i}) + 1
    BY <2>1, <2>2, FS_AddElement
  <2>4. Cardinality({i} \cup {j}) = 2
    BY <2>2, <2>3, SMT
  <2> QED BY <2>1, <2>4, Zenon
<1>5. Cardinality(S) >= 2
  <2>1. {i, j} \in SUBSET S
    OBVIOUS
  <2> QED BY <2>1, <1>1, <1>4, FS_Subset
<1>6. Rank(S, i) + 1 # Cardinality(S)
  BY <1>1, <1>3, <1>5
<1> QED BY <1>3, <1>6 DEF Pickable

(* Only a queue that holds a packet is served.                             *)
LEMMA ServableNonempty ==
  ASSUME NEW w \in Nat, NEW qs, NEW i \in Servable(qs, w)
  PROVE  i \in 0..w /\ qs[i] # <<>>
BY DEF Servable, Pickable, Backlogged

(* When no queue is served, every queue is empty: Dequeue returns the null *)
(* pointer only then.                                                      *)
LEMMA NoneServable ==
  ASSUME NEW w \in Nat, NEW qs, Servable(qs, w) = {}
  PROVE  \A i \in 0..w : qs[i] = <<>>
<1>1. qs[0] = <<>>
  BY DEF Servable
<1>2. Backlogged(qs, w) = {}
  BY <1>1, PickableNonempty DEF Servable
<1>3. ASSUME NEW i \in 0..w PROVE qs[i] = <<>>
  <2>1. CASE i = 0
    BY <1>1, <2>1
  <2>2. CASE i \in 1..w
    BY <1>2, <2>2 DEF Backlogged
  <2> QED BY <2>1, <2>2
<1> QED BY <1>3

(* What a sequence holds, and its last element, after push and pop.        *)
LEMMA AppendFacts ==
  ASSUME NEW S, NEW s \in Seq(S), NEW e \in S
  PROVE  /\ Append(s, e) \in Seq(S) /\ Append(s, e) # <<>>
         /\ Last(Append(s, e)) = e
         /\ ToSet(Append(s, e)) = ToSet(s) \cup {e}
<1>1. /\ Append(s, e) \in Seq(S) /\ Append(s, e) # <<>>
      /\ Len(Append(s, e)) = Len(s) + 1 /\ Append(s, e)[Len(s) + 1] = e
  OBVIOUS
<1>2. \A k \in 1..Len(s) : Append(s, e)[k] = s[k]
  OBVIOUS
<1>3. DOMAIN s = 1..Len(s) /\ DOMAIN Append(s, e) = 1..(Len(s) + 1) /\ Len(s) \in Nat
  BY <1>1
<1>4. ASSUME NEW x \in ToSet(Append(s, e)) PROVE x \in ToSet(s) \cup {e}
  <2>1. PICK k \in 1..(Len(s) + 1) : x = Append(s, e)[k]
    BY <1>3, Zenon DEF ToSet
  <2>2. CASE k = Len(s) + 1
    BY <1>1, <2>1, <2>2
  <2>3. CASE k # Len(s) + 1
    <3>1. k \in DOMAIN s /\ x = s[k]
      BY <1>2, <1>3, <2>1, <2>3
    <3> QED BY <3>1, Zenon DEF ToSet
  <2> QED BY <2>2, <2>3
<1>5. ASSUME NEW x \in ToSet(s) PROVE x \in ToSet(Append(s, e))
  <2>1. PICK k \in DOMAIN s : x = s[k]
    BY Zenon DEF ToSet
  <2>2. k \in DOMAIN Append(s, e) /\ x = Append(s, e)[k]
    BY <1>2, <1>3, <2>1
  <2> QED BY <2>2, Zenon DEF ToSet
<1>6. e \in ToSet(Append(s, e))
  <2>1. Len(s) + 1 \in DOMAIN Append(s, e)
    BY <1>3
  <2> QED BY <1>1, <2>1, Zenon DEF ToSet
<1> QED BY <1>1, <1>4, <1>5, <1>6 DEF Last

(* What is left of a sequence behind its first element.                    *)
LEMMA TailFacts ==
  ASSUME NEW S, NEW s \in Seq(S), s # <<>>
  PROVE  /\ Head(s) \in S /\ Head(s) \in ToSet(s)
         /\ Tail(s) \in Seq(S) /\ ToSet(Tail(s)) \subseteq ToSet(s)
         /\ Len(s) > 1 => Tail(s) # <<>> /\ Last(Tail(s)) = Last(s)
<1>1. Head(s) \in S /\ Tail(s) \in Seq(S) /\ 1 \in DOMAIN s /\ Head(s) = s[1]
  OBVIOUS
<1>2. ASSUME NEW k \in DOMAIN Tail(s)
      PROVE  k + 1 \in DOMAIN s /\ Tail(s)[k] = s[k + 1]
  OBVIOUS
<1>3. Head(s) \in ToSet(s)
  BY <1>1 DEF ToSet
<1>4. ASSUME NEW e \in ToSet(Tail(s)) PROVE e \in ToSet(s)
  <2>1. PICK k \in DOMAIN Tail(s) : e = Tail(s)[k]
    BY Zenon DEF ToSet
  <2>2. k + 1 \in DOMAIN s /\ e = s[k + 1]
    BY <1>2, <2>1
  <2> QED BY <2>2, Zenon DEF ToSet
<1>5. Len(s) > 1 => Tail(s) # <<>> /\ Last(Tail(s)) = Last(s)
  <2>1. ASSUME Len(s) > 1
        PROVE  Len(Tail(s)) = Len(s) - 1 /\ Tail(s) # <<>> /\ Len(s) - 1 \in DOMAIN Tail(s)
    <3>1. Len(Tail(s)) = Len(s) - 1 /\ Len(s) \in Nat /\ Tail(s) \in Seq(S)
      BY HeadTailProperties
    <3>2. DOMAIN Tail(s) = 1..Len(Tail(s))
      BY <3>1
    <3>3. Tail(s) # <<>>
      <4>1. Len(Tail(s)) # 0
        BY <2>1, <3>1
      <4> QED BY <3>1, <4>1, EmptySeq
    <3> QED BY <2>1, <3>1, <3>2, <3>3
  <2>2. ASSUME Len(s) > 1 PROVE Tail(s)[Len(s) - 1] = s[Len(s)]
    BY <2>1, <2>2, <1>2
  <2> QED BY <2>1, <2>2 DEF Last
<1> QED BY <1>1, <1>3, <1>4, <1>5

-----------------------------------------------------------------------------

(* Every queued packet is in the queue of its own class.                   *)
OwnClass ==
  \A d \in Dev, i \in Queue : \A p \in ToSet(queues[d][i]) : ClassOf[p] = i

IInv == TypeOK /\ NoLostWakeup /\ OwnClass

-----------------------------------------------------------------------------
LEMMA NWeightsType ==
  /\ NWeights \in Nat /\ Queue = 0..NWeights /\ 0 \in Queue
  /\ \A p \in Packet : ClassOf[p] \in Queue
<1>1. NWeights \in Nat /\ Queue = 0..NWeights /\ 0 \in Queue
  BY MtuNetDeviceAssumption DEF NWeights, Queue
<1>2. ASSUME NEW p \in Packet PROVE QueueOf(Tag[p], NQueues) \in Queue
  BY MtuNetDeviceAssumption, NoTagAssumption DEF QueueOf, Queue
<1>3. ASSUME NEW p \in Packet PROVE ClassOf[p] = QueueOf(Tag[p], NQueues)
  BY DEF ClassOf
<1> QED BY <1>1, <1>2, <1>3

(* A device has nothing queued when each of its queues is empty.           *)
LEMMA NothingQueued ==
  ASSUME NEW qs \in [Queue -> Seq(Packet)]
  PROVE  UNION {ToSet(qs[i]) : i \in Queue} = {} <=> \A i \in Queue : qs[i] = <<>>
<1>1. ASSUME NEW i \in Queue PROVE ToSet(qs[i]) = {} <=> qs[i] = <<>>
  <2>1. qs[i] \in Seq(Packet)
    OBVIOUS
  <2>2. CASE qs[i] = <<>>
    BY <2>2 DEF ToSet
  <2>3. CASE qs[i] # <<>>
    BY <2>1, <2>3, TailFacts
  <2> QED BY <2>2, <2>3
<1>2. UNION {ToSet(qs[i]) : i \in Queue} = {} <=> \A i \in Queue : ToSet(qs[i]) = {}
  BY Zenon
<1> QED BY <1>1, <1>2

(* StartNext takes the head of a queue that holds a packet, and leaves the *)
(* transmitter BUSY with it as the last packet on the wire.                *)
LEMMA StartNextFacts ==
  ASSUME TypeOK, NEW d \in Dev, NEW qs \in [Queue -> Seq(Packet)],
         \A i \in Queue : \A p \in ToSet(qs[i]) : ClassOf[p] = i,
         StartNext(d, qs)
  PROVE  /\ queues' \in [Dev -> [Queue -> Seq(Packet)]]
         /\ txMachineState' \in [Dev -> {"READY", "BUSY"}]
         /\ currentPkt' \in [Dev -> Packet \cup {None}]
         /\ wire' \in [Dev -> Seq(Packet)]
         /\ \A e \in Dev \ {d} :
              /\ queues'[e] = queues[e] /\ txMachineState'[e] = txMachineState[e]
              /\ currentPkt'[e] = currentPkt[e] /\ wire'[e] = wire[e]
         /\ txMachineState'[d] = "BUSY"
         /\ wire'[d] # <<>> /\ currentPkt'[d] = Last(wire'[d])
         /\ \A i \in Queue : \A p \in ToSet(queues'[d][i]) : ClassOf[p] = i
         /\ qs[0] # <<>> => ClassOf[currentPkt'[d]] = 0
<1>1. PICK i \in Servable(qs, NWeights) :
        /\ queues' = [queues EXCEPT ![d] = [qs EXCEPT ![i] = Tail(@)]]
        /\ txMachineState' = [txMachineState EXCEPT ![d] = "BUSY"]
        /\ currentPkt' = [currentPkt EXCEPT ![d] = Head(qs[i])]
        /\ wire' = [wire EXCEPT ![d] = Append(@, Head(qs[i]))]
  BY DEF StartNext
<1>2. i \in Queue /\ qs[i] # <<>> /\ qs[i] \in Seq(Packet)
  BY NWeightsType, ServableNonempty
<1>3. /\ Head(qs[i]) \in Packet /\ Head(qs[i]) \in ToSet(qs[i])
      /\ Tail(qs[i]) \in Seq(Packet) /\ ToSet(Tail(qs[i])) \subseteq ToSet(qs[i])
  BY <1>2, TailFacts
<1>4. wire[d] \in Seq(Packet)
  BY DEF TypeOK
<1>5. /\ Append(wire[d], Head(qs[i])) \in Seq(Packet)
      /\ Append(wire[d], Head(qs[i])) # <<>>
      /\ Last(Append(wire[d], Head(qs[i]))) = Head(qs[i])
  BY <1>3, <1>4, AppendFacts
<1>6. [qs EXCEPT ![i] = Tail(@)] \in [Queue -> Seq(Packet)]
  BY <1>2, <1>3
<1>7. /\ queues' \in [Dev -> [Queue -> Seq(Packet)]]
      /\ queues'[d] = [qs EXCEPT ![i] = Tail(@)]
  BY <1>1, <1>6 DEF TypeOK
<1>8. ASSUME NEW k \in Queue, NEW p \in ToSet(queues'[d][k]) PROVE ClassOf[p] = k
  <2>1. queues'[d][k] = IF k = i THEN Tail(qs[i]) ELSE qs[k]
    BY <1>7
  <2> QED BY <1>3, <1>8, <2>1
<1>9. ASSUME qs[0] # <<>> PROVE ClassOf[currentPkt'[d]] = 0
  <2>1. i = 0
    BY <1>9 DEF Servable
  <2>2. currentPkt'[d] = Head(qs[i])
    BY <1>1 DEF TypeOK
  <2> QED BY <1>2, <1>3, <2>1, <2>2
<1> QED BY <1>1, <1>3, <1>5, <1>7, <1>8, <1>9 DEF TypeOK

(* Send puts a packet at the end of the queue of its class.                *)
Enqueued(vec, p) == [vec EXCEPT ![ClassOf[p]] = Append(@, p)]

LEMMA EnqueueFacts ==
  ASSUME NEW p \in Packet, NEW vec \in [Queue -> Seq(Packet)],
         \A i \in Queue : \A q \in ToSet(vec[i]) : ClassOf[q] = i
  PROVE  /\ Enqueued(vec, p) \in [Queue -> Seq(Packet)]
         /\ \A i \in Queue : \A q \in ToSet(Enqueued(vec, p)[i]) : ClassOf[q] = i
         /\ vec[0] # <<>> => Enqueued(vec, p)[0] # <<>>
<1> DEFINE c == ClassOf[p]
           qs == Enqueued(vec, p)
<1>1. c \in Queue /\ 0 \in Queue
  BY NWeightsType
<1>2. qs = [vec EXCEPT ![c] = Append(@, p)]
  BY DEF Enqueued
<1> HIDE DEF c, qs
<1>3. /\ Append(vec[c], p) \in Seq(Packet) /\ Append(vec[c], p) # <<>>
      /\ ToSet(Append(vec[c], p)) = ToSet(vec[c]) \cup {p}
  <2>1. vec[c] \in Seq(Packet)
    BY <1>1
  <2> QED BY <2>1, AppendFacts
<1>4. \A i \in Queue : qs[i] = IF i = c THEN Append(vec[c], p) ELSE vec[i]
  BY <1>1, <1>2
<1>5. ASSUME NEW i \in Queue, NEW q \in ToSet(qs[i]) PROVE ClassOf[q] = i
  <2>1. CASE i # c
    BY <1>4, <1>5, <2>1
  <2>2. CASE i = c
    BY <1>3, <1>4, <1>5, <2>2 DEF c
  <2> QED BY <2>1, <2>2
<1>6. qs \in [Queue -> Seq(Packet)] /\ (vec[0] # <<>> => qs[0] # <<>>)
  BY <1>1, <1>2, <1>3, <1>4
<1> QED BY <1>5, <1>6 DEF qs

-----------------------------------------------------------------------------
(* Types, wakeups and the place of every packet: what a device does with   *)
(* its transmitter keeps all three, whatever Send, TransmitComplete and    *)
(* Receive interleave.                                                     *)
THEOREM Inductive == Spec => []IInv
<1>1. Init => IInv
  <2> SUFFICES ASSUME Init PROVE IInv
    OBVIOUS
  <2>1. TypeOK
    BY DEF Init, TypeOK
  <2>2. \A d \in Dev : Queued(d) = {}
    <3>1. \A d \in Dev : /\ queues[d] \in [Queue -> Seq(Packet)]
                         /\ \A i \in Queue : queues[d][i] = <<>>
      BY <2>1 DEF Init, TypeOK
    <3> QED BY <3>1, NothingQueued DEF Queued
  <2> QED BY <2>1, <2>2 DEF Init, IInv, NoLostWakeup, OwnClass, ToSet
<1>2. IInv /\ [Next]_vars => IInv'
  <2> SUFFICES ASSUME IInv, [Next]_vars PROVE IInv'
    OBVIOUS
  <2>1. TypeOK /\ NoLostWakeup /\ OwnClass
    BY DEF IInv
  <2> DEFINE Awake(d) == IF txMachineState[d] = "READY"
                         THEN currentPkt[d] = None /\ \A i \in Queue : queues[d][i] = <<>>
                         ELSE wire[d] # <<>> /\ currentPkt[d] = Last(wire[d])
             Placed(d) == \A i \in Queue : \A p \in ToSet(queues[d][i]) : ClassOf[p] = i
  <2>2. \A d \in Dev : Awake(d) /\ Placed(d)
    <3>1. \A d \in Dev : queues[d] \in [Queue -> Seq(Packet)]
      BY <2>1 DEF TypeOK
    <3>2. \A d \in Dev : Queued(d) = {} <=> \A i \in Queue : queues[d][i] = <<>>
      BY <3>1, NothingQueued DEF Queued
    <3> QED BY <2>1, <3>2 DEF NoLostWakeup, OwnClass
  <2>3. SUFFICES TypeOK' /\ \A d \in Dev : Awake(d)' /\ Placed(d)'
    <3>1. \A d \in Dev : queues'[d] \in [Queue -> Seq(Packet)]
      BY <2>3 DEF TypeOK
    <3>2. \A d \in Dev : UNION {ToSet(queues'[d][i]) : i \in Queue} = {}
                          <=> \A i \in Queue : queues'[d][i] = <<>>
      BY <3>1, NothingQueued
    <3> QED BY <2>3, <3>2 DEF IInv, NoLostWakeup, OwnClass, Queued
  <2>4. ASSUME NEW p \in Packet, SendLost(p)
        PROVE  TypeOK' /\ \A d \in Dev : Awake(d)' /\ Placed(d)'
    <3>1. UNCHANGED <<queues, txMachineState, currentPkt, wire, received, draw>>
      BY <2>4 DEF SendLost
    <3>2. TypeOK'
      BY <2>1, <2>4, <3>1, MtuNetDeviceAssumption DEF SendLost, TypeOK
    <3> QED BY <2>2, <3>1, <3>2
  <2>5. ASSUME NEW p \in Packet, SendTaken(p)
        PROVE  TypeOK' /\ \A d \in Dev : Awake(d)' /\ Placed(d)'
    <3> DEFINE d == From[p]
               qs == [queues[d] EXCEPT ![ClassOf[p]] = Append(@, p)]
    <3>1. d \in Dev
      BY MtuNetDeviceAssumption
    <3> HIDE DEF d
    <3>2. /\ qs \in [Queue -> Seq(Packet)]
          /\ \A i \in Queue : \A q \in ToSet(qs[i]) : ClassOf[q] = i
      <4>1. /\ queues[d] \in [Queue -> Seq(Packet)]
            /\ \A i \in Queue : \A q \in ToSet(queues[d][i]) : ClassOf[q] = i
        BY <2>1, <2>2, <3>1 DEF TypeOK
      <4>2. qs = Enqueued(queues[d], p)
        BY DEF Enqueued
      <4> HIDE DEF qs
      <4> QED BY <2>5, <4>1, <4>2, EnqueueFacts
    <3>3. UNCHANGED <<received, dropped, draw>>
      BY <2>1, <2>5, <3>1 DEF SendTaken, TypeOK, d
    <3>4. CASE StartNext(d, qs)
      <4> HIDE DEF qs
      <4>1. /\ TypeOK'
            /\ \A e \in Dev \ {d} :
                 /\ queues'[e] = queues[e] /\ txMachineState'[e] = txMachineState[e]
                 /\ currentPkt'[e] = currentPkt[e] /\ wire'[e] = wire[e]
            /\ Awake(d)' /\ Placed(d)'
        BY <2>1, <3>1, <3>2, <3>3, <3>4, StartNextFacts DEF TypeOK
      <4> QED BY <2>2, <4>1
    <3>5. CASE /\ txMachineState[d] = "BUSY"
               /\ queues' = [queues EXCEPT ![d] = qs]
               /\ UNCHANGED <<txMachineState, currentPkt, wire>>
      <4> HIDE DEF qs
      <4>1. TypeOK'
        BY <2>1, <3>2, <3>3, <3>5 DEF TypeOK
      <4>2. \A e \in Dev : queues'[e] = IF e = d THEN qs ELSE queues[e]
        BY <2>1, <3>5 DEF TypeOK
      <4>3. Awake(d)' /\ Placed(d)'
        BY <2>2, <3>1, <3>2, <3>5, <4>2
      <4> QED BY <2>2, <3>5, <4>1, <4>2, <4>3
    <3> QED BY <2>5, <3>4, <3>5, Zenon DEF SendTaken, d, qs
  <2>6. ASSUME NEW d \in Dev, TransmitComplete(d)
        PROVE  TypeOK' /\ \A e \in Dev : Awake(e)' /\ Placed(e)'
    <3>1. UNCHANGED <<received, dropped, draw>>
      BY <2>6 DEF TransmitComplete
    <3>2. CASE StartNext(d, queues[d])
      <4>1. queues[d] \in [Queue -> Seq(Packet)]
        BY <2>1 DEF TypeOK
      <4>2. \A i \in Queue : \A p \in ToSet(queues[d][i]) : ClassOf[p] = i
        BY <2>2
      <4>3. /\ TypeOK'
            /\ \A e \in Dev \ {d} :
                 /\ queues'[e] = queues[e] /\ txMachineState'[e] = txMachineState[e]
                 /\ currentPkt'[e] = currentPkt[e] /\ wire'[e] = wire[e]
            /\ Awake(d)' /\ Placed(d)'
        BY <2>1, <3>1, <3>2, <4>1, <4>2, StartNextFacts DEF TypeOK
      <4> QED BY <2>2, <4>3
    <3>3. CASE /\ Servable(queues[d], NWeights) = {}
               /\ txMachineState' = [txMachineState EXCEPT ![d] = "READY"]
               /\ currentPkt' = [currentPkt EXCEPT ![d] = None]
               /\ UNCHANGED <<queues, wire>>
      <4>1. \A i \in Queue : queues[d][i] = <<>>
        BY <3>3, NWeightsType, NoneServable
      <4>2. TypeOK'
        BY <2>1, <3>1, <3>3 DEF TypeOK
      <4>3. Awake(d)' /\ Placed(d)'
        BY <2>1, <2>2, <3>3, <4>1 DEF TypeOK
      <4>4. \A e \in Dev \ {d} : txMachineState'[e] = txMachineState[e] /\ currentPkt'[e] = currentPkt[e]
        BY <2>1, <3>3 DEF TypeOK
      <4> QED BY <2>2, <3>3, <4>2, <4>3, <4>4
    <3> QED BY <2>6, <3>2, <3>3, Zenon DEF TransmitComplete
  <2>7. ASSUME NEW d \in Dev, Receive(d)
        PROVE  TypeOK' /\ \A e \in Dev : Awake(e)' /\ Placed(e)'
    <3>1. /\ UNCHANGED <<queues, txMachineState, currentPkt, draw>>
          /\ wire' = [wire EXCEPT ![d] = Tail(@)]
          /\ Len(wire[d]) > IF txMachineState[d] = "BUSY" THEN 1 ELSE 0
      BY <2>7 DEF Receive, Arrives
    <3>2. wire[d] \in Seq(Packet) /\ wire[d] # <<>> /\ Len(wire[d]) \in Nat
      <4>1. wire[d] \in Seq(Packet)
        BY <2>1 DEF TypeOK
      <4>2. Len(wire[d]) > 0
        BY <3>1, <4>1
      <4> QED BY <4>1, <4>2
    <3>3. /\ Head(wire[d]) \in Packet /\ Tail(wire[d]) \in Seq(Packet)
          /\ Len(wire[d]) > 1 => Tail(wire[d]) # <<>> /\ Last(Tail(wire[d])) = Last(wire[d])
      BY <3>2, TailFacts
    <3>4. TypeOK'
      <4>1. wire' \in [Dev -> Seq(Packet)]
        BY <2>1, <3>1, <3>3 DEF TypeOK
      <4>2. received' \in [Dev -> Seq(Packet)] /\ dropped' \subseteq Packet
        <5>1. CASE /\ received' = [received EXCEPT ![d] = Append(@, Head(wire[d]))]
                   /\ UNCHANGED dropped
          <6>1. received[d] \in Seq(Packet)
            BY <2>1 DEF TypeOK
          <6>2. Append(received[d], Head(wire[d])) \in Seq(Packet)
            BY <3>3, <6>1, AppendFacts
          <6> QED BY <2>1, <5>1, <6>2 DEF TypeOK
        <5>2. CASE dropped' = dropped \cup {Head(wire[d])} /\ UNCHANGED received
          BY <2>1, <3>3, <5>2 DEF TypeOK
        <5> QED BY <2>7, <5>1, <5>2, Zenon DEF Receive
      <4> QED BY <2>1, <3>1, <4>1, <4>2 DEF TypeOK
    <3>5. \A e \in Dev : wire'[e] = IF e = d THEN Tail(wire[d]) ELSE wire[e]
      BY <2>1, <3>1 DEF TypeOK
    <3>6. Awake(d)'
      <4>1. txMachineState[d] = "READY" \/ txMachineState[d] = "BUSY"
        BY <2>1 DEF TypeOK
      <4> QED BY <2>2, <3>1, <3>3, <3>5, <4>1
    <3> QED BY <2>2, <3>1, <3>4, <3>5, <3>6
  <2>8. CASE NextSecond
    <3>1. UNCHANGED <<queues, txMachineState, currentPkt, wire, received, dropped>>
      BY <2>8 DEF NextSecond
    <3>2. TypeOK'
      BY <2>1, <2>8, <3>1 DEF TypeOK, NextSecond
    <3> QED BY <2>2, <3>1, <3>2
  <2>9. CASE UNCHANGED vars
    <3>1. TypeOK'
      BY <2>1, <2>9 DEF TypeOK, vars
    <3> QED BY <2>2, <2>9, <3>1 DEF vars
  <2> QED BY <2>4, <2>5, <2>6, <2>7, <2>8, <2>9, Zenon DEF Next
<1> QED BY <1>1, <1>2, PTL DEF Spec

(* The states of two devices are well typed.                               *)
THEOREM TypeCorrect == Spec => []TypeOK
BY Inductive, PTL DEF IInv

(* No packet stays behind an idle transmitter: MtuNetDevice::Send and      *)
(* TransmitComplete never leave READY with something queued.               *)
THEOREM NoLostWakeupCorrect == Spec => []NoLostWakeup
BY Inductive, PTL DEF IInv

(* While queue 0 of a device holds a packet, nothing else is put on its    *)
(* wire, neither by Send nor by TransmitComplete.                          *)
THEOREM AckNotOvertakenCorrect == Spec => AckNotOvertaken
<1>1. IInv /\ [Next]_vars =>
        [\A d \in Dev :
           (queues[d][0] # <<>> /\ currentPkt'[d] # currentPkt[d])
              => ClassOf[currentPkt'[d]] = 0]_vars
  <2> SUFFICES ASSUME IInv, Next, NEW e \in Dev,
                      queues[e][0] # <<>>, currentPkt'[e] # currentPkt[e]
               PROVE  ClassOf[currentPkt'[e]] = 0
    BY Zenon
  <2>1. /\ TypeOK
        /\ \A d \in Dev : queues[d] \in [Queue -> Seq(Packet)]
        /\ \A d \in Dev : \A i \in Queue : \A q \in ToSet(queues[d][i]) : ClassOf[q] = i
    BY DEF IInv, TypeOK, OwnClass
  <2>2. ASSUME NEW p \in Packet, SendTaken(p) PROVE ClassOf[currentPkt'[e]] = 0
    <3> DEFINE d == From[p]
               qs == [queues[d] EXCEPT ![ClassOf[p]] = Append(@, p)]
    <3>1. d \in Dev
      BY MtuNetDeviceAssumption
    <3> HIDE DEF d
    <3>2. qs = Enqueued(queues[d], p)
      BY DEF Enqueued
    <3> HIDE DEF qs
    <3>3. /\ qs \in [Queue -> Seq(Packet)]
          /\ \A i \in Queue : \A q \in ToSet(qs[i]) : ClassOf[q] = i
          /\ queues[d][0] # <<>> => qs[0] # <<>>
      BY <2>1, <2>2, <3>1, <3>2, EnqueueFacts
    <3>4. StartNext(d, qs) \/ UNCHANGED currentPkt
      BY <2>2, Zenon DEF SendTaken, d, qs
    <3>5. StartNext(d, qs)
      BY <3>4
    <3>6. /\ \A k \in Dev \ {d} : currentPkt'[k] = currentPkt[k]
          /\ qs[0] # <<>> => ClassOf[currentPkt'[d]] = 0
      BY <2>1, <3>1, <3>3, <3>5, StartNextFacts
    <3> QED BY <3>3, <3>6
  <2>3. ASSUME NEW d \in Dev, TransmitComplete(d) PROVE ClassOf[currentPkt'[e]] = 0
    <3>1. CASE StartNext(d, queues[d])
      <4>1. /\ \A k \in Dev \ {d} : currentPkt'[k] = currentPkt[k]
            /\ queues[d][0] # <<>> => ClassOf[currentPkt'[d]] = 0
        BY <2>1, <3>1, StartNextFacts
      <4> QED BY <4>1
    <3>2. CASE /\ Servable(queues[d], NWeights) = {}
               /\ currentPkt' = [currentPkt EXCEPT ![d] = None]
      <4>1. queues[d][0] = <<>>
        BY <3>2, NWeightsType, NoneServable
      <4>2. e # d
        BY <4>1
      <4>3. currentPkt'[e] = currentPkt[e]
        BY <2>1, <3>2, <4>2 DEF TypeOK
      <4> QED BY <4>3
    <3> QED BY <2>3, <3>1, <3>2, Zenon DEF TransmitComplete
  <2>4. ASSUME \/ \E p \in Packet : SendLost(p)
               \/ \E d \in Dev : Receive(d)
               \/ NextSecond
        PROVE  FALSE
    <3>1. UNCHANGED currentPkt
      BY <2>4 DEF SendLost, Receive, NextSecond
    <3> QED BY <3>1
  <2> QED BY <2>2, <2>3, <2>4, Zenon DEF Next
<1> QED BY <1>1, Inductive, PTL DEF Spec, AckNotOvertaken

(* With the weighted scheduling of the code, a packet of the first waiting *)
(* weighted queue is not sent while one of the last waits.                 *)
THEOREM FirstWaitsForLastCorrect == Spec => FirstWaitsForLast
<1> DEFINE Ahead(p, q) ==
      LET d == From[p]
      IN  /\ {p, q} \subseteq Queued(d)
          /\ ClassOf[p] \in 1..(NWeights - 1)
          /\ \A i \in 1..(ClassOf[p] - 1) : queues[d][i] = <<>>
          /\ ClassOf[q] = NWeights
<1>1. IInv /\ [Next]_vars =>
        [\A p, q \in Packet : Ahead(p, q) => p \in Queued(From[p])']_vars
  <2> SUFFICES ASSUME IInv, Next, NEW p \in Packet, NEW q \in Packet, Ahead(p, q)
               PROVE  p \in Queued(From[p])'
    BY Zenon
  <2> DEFINE d == From[p]
             c == ClassOf[p]
  <2>1. /\ d \in Dev /\ c \in 1..(NWeights - 1) /\ c \in Queue
        /\ NWeights \in Nat /\ NWeights \in Queue /\ c < NWeights
    BY MtuNetDeviceAssumption, NWeightsType
  <2>2. /\ TypeOK
        /\ \A e \in Dev : queues[e] \in [Queue -> Seq(Packet)]
        /\ \A e \in Dev : \A i \in Queue : \A r \in ToSet(queues[e][i]) : ClassOf[r] = i
    BY DEF IInv, TypeOK, OwnClass
  <2>3. p \in ToSet(queues[d][c]) /\ q \in ToSet(queues[d][NWeights])
    <3>1. ASSUME NEW r \in Packet, r \in Queued(d) PROVE r \in ToSet(queues[d][ClassOf[r]])
      <4>1. PICK i \in Queue : r \in ToSet(queues[d][i])
        BY <3>1 DEF Queued
      <4>2. ClassOf[r] = i
        BY <2>1, <2>2, <4>1
      <4> QED BY <4>1, <4>2
    <3>2. p \in Queued(d) /\ q \in Queued(d) /\ ClassOf[q] = NWeights
      OBVIOUS
    <3> HIDE DEF Ahead
    <3> QED BY <3>1, <3>2
  <2>4. queues[d][c] # <<>> /\ queues[d][NWeights] # <<>>
    BY <2>3 DEF ToSet
  <2>5. \A i \in 1..(c - 1) : queues[d][i] = <<>>
    OBVIOUS
  <2>6. SUFFICES p \in ToSet(queues'[d][c])
    BY <2>1 DEF Queued
  <2> HIDE DEF d, c
  <2>7. c \notin Servable(queues[d], NWeights)
    <3>1. CASE queues[d][0] # <<>>
      BY <2>1, <3>1 DEF Servable
    <3>2. CASE queues[d][0] = <<>>
      <4>1. c \in Backlogged(queues[d], NWeights) /\ NWeights \in Backlogged(queues[d], NWeights)
        BY <2>1, <2>4 DEF Backlogged
      <4>2. \A k \in Backlogged(queues[d], NWeights) : c <= k
        BY <2>1, <2>5 DEF Backlogged
      <4>3. c \notin Pickable(queues[d], NWeights)
        BY <2>1, <3>2, <4>1, <4>2, FirstNotPickable
      <4> QED BY <3>2, <4>3 DEF Servable
    <3> QED BY <3>1, <3>2
  <2>8. txMachineState[d] = "BUSY"
    <3>1. Queued(d) # {}
      BY <2>1, <2>3 DEF Queued
    <3> QED BY <2>1, <2>2, <3>1 DEF IInv, NoLostWakeup, TypeOK
  <2>9. ASSUME NEW r \in Packet, SendTaken(r) PROVE p \in ToSet(queues'[d][c])
    <3>1. From[r] \in Dev
      BY MtuNetDeviceAssumption
    <3>2. CASE From[r] = d
      <4>1. queues' = [queues EXCEPT ![d] = Enqueued(queues[d], r)]
        BY <2>8, <2>9, <3>2 DEF SendTaken, Enqueued
      <4>2. queues'[d] = Enqueued(queues[d], r)
        BY <2>1, <2>2, <4>1 DEF TypeOK
      <4>3. queues[d][c] \in Seq(Packet)
        BY <2>1, <2>2
      <4>4. \/ queues'[d][c] = queues[d][c]
            \/ queues'[d][c] = Append(queues[d][c], r)
        BY <2>1, <2>2, <4>2 DEF Enqueued
      <4>5. ToSet(Append(queues[d][c], r)) = ToSet(queues[d][c]) \cup {r}
        BY <4>3, AppendFacts
      <4> QED BY <2>3, <4>4, <4>5
    <3>3. CASE From[r] # d
      <4>1. queues'[d] = queues[d]
        BY <2>1, <2>2, <2>9, <3>1, <3>3 DEF SendTaken, StartNext, TypeOK
      <4> QED BY <2>3, <4>1
    <3> QED BY <3>2, <3>3
  <2>10. ASSUME NEW e \in Dev, TransmitComplete(e) PROVE p \in ToSet(queues'[d][c])
    <3>1. CASE StartNext(e, queues[e])
      <4>1. PICK i \in Servable(queues[e], NWeights) :
              queues' = [queues EXCEPT ![e] = [queues[e] EXCEPT ![i] = Tail(@)]]
        BY <3>1 DEF StartNext
      <4>2. CASE e = d
        <5>1. i # c
          BY <2>7, <4>2
        <5>2. queues'[d][c] = queues[d][c]
          BY <2>1, <2>2, <4>1, <4>2, <5>1 DEF TypeOK
        <5> QED BY <2>3, <5>2
      <4>3. CASE e # d
        <5>1. queues'[d] = queues[d]
          BY <2>1, <2>2, <4>1, <4>3 DEF TypeOK
        <5> QED BY <2>3, <5>1
      <4> QED BY <4>2, <4>3
    <3>2. CASE UNCHANGED queues
      BY <2>3, <3>2
    <3> QED BY <2>10, <3>1, <3>2, Zenon DEF TransmitComplete
  <2>11. ASSUME \/ \E r \in Packet : SendLost(r)
                \/ \E e \in Dev : Receive(e)
                \/ NextSecond
         PROVE  p \in ToSet(queues'[d][c])
    <3>1. UNCHANGED queues
      BY <2>11 DEF SendLost, Receive, NextSecond
    <3> QED BY <2>3, <3>1
  <2> QED BY <2>9, <2>10, <2>11, Zenon DEF Next
<1> HIDE DEF Ahead
<1>2. IInv /\ [Next]_vars => [\A p, q \in Packet :
         LET d == From[p]
         IN  (/\ {p, q} \subseteq Queued(d)
              /\ ClassOf[p] \in 1..(NWeights - 1)
              /\ \A i \in 1..(ClassOf[p] - 1) : queues[d][i] = <<>>
              /\ ClassOf[q] = NWeights) => p \in Queued(d)']_vars
  BY <1>1, Zenon DEF Ahead
<1> QED BY <1>2, Inductive, PTL DEF Spec, FirstWaitsForLast

-----------------------------------------------------------------------------
(* The refinement of PriorityLink: first OfClass, of which Waiting is      *)
(* made.                                                                   *)

(* u is s followed by t; a further packet goes behind both.                *)
IsConcat(u, s, t) == u = s \o t

LEMMA AppendAfterConcat ==
  ASSUME NEW S, NEW s \in Seq(S), NEW t \in Seq(S), NEW u, IsConcat(u, s, t)
  PROVE  \A e \in S : IsConcat(Append(u, e), s, Append(t, e))
<1> SUFFICES ASSUME NEW e \in S PROVE IsConcat(Append(u, e), s, Append(t, e))
  OBVIOUS
<1>1. s \o t \in Seq(S) /\ <<e>> \in Seq(S)
  OBVIOUS
<1>2. Append(u, e) = (s \o t) \o <<e>> /\ Append(t, e) = t \o <<e>>
  BY <1>1, AppendIsConcat DEF IsConcat
<1>3. (s \o t) \o <<e>> = s \o (t \o <<e>>)
  BY <1>1, ConcatAssociative
<1> QED BY <1>2, <1>3 DEF IsConcat

LEMMA KeptAfterConcat ==
  ASSUME NEW S, NEW s \in Seq(S), NEW t \in Seq(S), NEW e \in S, NEW c
  PROVE  KeptWith(s \o t, e, c) = s \o KeptWith(t, e, c)
<1> DEFINE u == s \o t
<1>1. IsConcat(u, s, t)
  BY DEF IsConcat
<1> HIDE DEF u
<1>2. IsConcat(Append(u, e), s, Append(t, e))
  BY <1>1, AppendAfterConcat
<1>3. IsConcat(KeptWith(u, e, c), s, KeptWith(t, e, c))
  BY <1>1, <1>2 DEF KeptWith
<1> QED BY <1>3 DEF IsConcat, u

(* The recursion of OfClass is well defined, and keeps to the set the      *)
(* packets are from.                                                       *)
IsKept(f, w, c) ==
  f = [k \in 0..Len(w) |->
         IF k = 0 THEN <<>>
         ELSE KeptWith(f[k - 1], w[k], c)]

LEMMA KeptExists ==
  ASSUME NEW S, NEW w \in Seq(S), NEW c
  PROVE  \E f \in [0..Len(w) -> Seq(S)] : IsKept(f, w, c)
<1> DEFINE Upto(n, f) ==
             \A k \in 0..n : f[k] = IF k = 0 THEN <<>>
                                    ELSE KeptWith(f[k - 1], w[k], c)
           P(n) == n <= Len(w) => \E f \in [0..n -> Seq(S)] : Upto(n, f)
           Good == {n \in Nat : P(n)}
<1>1. Len(w) \in Nat /\ \A k \in 1..Len(w) : w[k] \in S
  OBVIOUS
<1>2. P(0)
  <2>1. [k \in 0..0 |-> <<>>] \in [0..0 -> Seq(S)]
    OBVIOUS
  <2>2. Upto(0, [k \in 0..0 |-> <<>>])
    OBVIOUS
  <2> QED BY <2>1, <2>2
<1>3. ASSUME NEW n \in Nat, P(n) PROVE P(n + 1)
  <2>1. SUFFICES ASSUME n + 1 <= Len(w)
                 PROVE  \E f \in [0..(n + 1) -> Seq(S)] : Upto(n + 1, f)
    OBVIOUS
  <2>2. PICK f \in [0..n -> Seq(S)] : Upto(n, f)
    <3>1. n <= Len(w)
      BY <1>1, <2>1
    <3> QED BY <1>3, <3>1
  <2> DEFINE last == KeptWith(f[n], w[n + 1], c)
             g == [k \in 0..(n + 1) |-> IF k = n + 1 THEN last ELSE f[k]]
  <2>3. w[n + 1] \in S /\ f[n] \in Seq(S)
    BY <1>1, <2>1
  <2>4. last \in Seq(S)
    BY <2>3 DEF KeptWith
  <2>5. g \in [0..(n + 1) -> Seq(S)]
    BY <2>4
  <2>6. ASSUME NEW k \in 0..(n + 1)
        PROVE  g[k] = IF k = 0 THEN <<>>
                      ELSE KeptWith(g[k - 1], w[k], c)
    <3>1. CASE k = n + 1
      <4>1. g[k] = last /\ g[k - 1] = f[n] /\ k # 0 /\ k - 1 = n
        BY <3>1
      <4> QED BY <3>1, <4>1
    <3>2. CASE k # n + 1
      <4>1. k \in 0..n /\ g[k] = f[k] /\ (k # 0 => g[k - 1] = f[k - 1])
        BY <3>2
      <4> QED BY <2>2, <4>1
    <3> QED BY <3>1, <3>2
  <2> QED BY <2>5, <2>6
<1>4. P(Len(w))
  <2> HIDE DEF P
  <2>1. 0 \in Good /\ \A n \in Nat : n \in Good => n + 1 \in Good
    BY <1>2, <1>3
  <2>2. Nat \subseteq Good
    <3> HIDE DEF Good
    <3> QED BY <2>1, Induction
  <2> QED BY <1>1, <2>2
<1>5. PICK f \in [0..Len(w) -> Seq(S)] : Upto(Len(w), f)
  BY <1>1, <1>4
<1> QED BY <1>1, <1>5 DEF IsKept

(* f follows the recursion along the first n packets of w.                 *)
Keeps(f, n, w, c) == f[0] = <<>> /\ \A k \in 1..n : f[k] = KeptWith(f[k - 1], w[k], c)

LEMMA KeptAgree ==
  ASSUME NEW n \in Nat, NEW w, NEW c, NEW f, NEW g, Keeps(f, n, w, c), Keeps(g, n, w, c)
  PROVE  f[n] = g[n]
<1> DEFINE Same == {k \in Nat : k <= n => f[k] = g[k]}
<1>1. 0 \in Same
  BY DEF Keeps
<1>2. ASSUME NEW k \in Nat, k \in Same PROVE k + 1 \in Same
  <2>1. SUFFICES ASSUME k + 1 <= n PROVE f[k + 1] = g[k + 1]
    OBVIOUS
  <2>2. f[k] = g[k] /\ k + 1 \in 1..n /\ (k + 1) - 1 = k
    BY <1>2, <2>1
  <2> QED BY <2>2 DEF Keeps
<1>3. Nat \subseteq Same
  <2> HIDE DEF Same
  <2> QED BY <1>1, <1>2, Induction
<1> QED BY <1>3

LEMMA KeptOf ==
  ASSUME NEW S, NEW w \in Seq(S), NEW c
  PROVE  \E f : /\ f \in [0..Len(w) -> Seq(S)]
                /\ Keeps(f, Len(w), w, c)
                /\ OfClass(w, c) = f[Len(w)]
<1> DEFINE f == CHOOSE g : IsKept(g, w, c)
<1>1. OfClass(w, c) = f[Len(w)]
  BY DEF OfClass, IsKept
<1>2. PICK g \in [0..Len(w) -> Seq(S)] : IsKept(g, w, c)
  BY KeptExists
<1>3. IsKept(f, w, c)
  BY <1>2
<1> HIDE DEF f
<1>4. Len(w) \in Nat
  OBVIOUS
<1>5. ASSUME NEW h, IsKept(h, w, c) PROVE Keeps(h, Len(w), w, c)
  BY <1>4, <1>5 DEF IsKept, Keeps
<1>6. Keeps(f, Len(w), w, c) /\ Keeps(g, Len(w), w, c)
  BY <1>2, <1>3, <1>5
<1>7. f[Len(w)] = g[Len(w)]
  BY <1>4, <1>6, KeptAgree
<1> QED BY <1>1, <1>2, <1>6, <1>7

(* OfClass of no packet, of one more at the end, and of one less at the    *)
(* head; it has no packet that was not there.                              *)
LEMMA OfClassEmpty == \A c : OfClass(<<>>, c) = <<>>
<1> SUFFICES ASSUME NEW c PROVE OfClass(<<>>, c) = <<>>
  OBVIOUS
<1>1. <<>> \in Seq(Packet) /\ Len(<<>>) = 0
  OBVIOUS
<1>2. PICK f : Keeps(f, Len(<<>>), <<>>, c) /\ OfClass(<<>>, c) = f[Len(<<>>)]
  BY <1>1, KeptOf
<1> QED BY <1>1, <1>2 DEF Keeps

LEMMA OfClassType ==
  ASSUME NEW S, NEW w \in Seq(S), NEW c
  PROVE  OfClass(w, c) \in Seq(S)
<1>1. Len(w) \in 0..Len(w)
  OBVIOUS
<1> QED BY <1>1, KeptOf

LEMMA OfClassAppend ==
  ASSUME NEW S, NEW w \in Seq(S), NEW p \in S, NEW c
  PROVE  OfClass(Append(w, p), c) = KeptWith(OfClass(w, c), p, c)
<1> DEFINE v == Append(w, p)
<1>1. /\ v \in Seq(S) /\ Len(v) = Len(w) + 1 /\ v[Len(w) + 1] = p /\ Len(w) \in Nat
      /\ \A k \in 1..Len(w) : v[k] = w[k]
  OBVIOUS
<1> HIDE DEF v
<1>2. PICK f : Keeps(f, Len(w), w, c) /\ OfClass(w, c) = f[Len(w)]
  BY KeptOf
<1>3. PICK g : Keeps(g, Len(v), v, c) /\ OfClass(v, c) = g[Len(v)]
  BY <1>1, KeptOf
<1>4. Keeps(g, Len(w), w, c)
  BY <1>1, <1>3 DEF Keeps
<1>5. f[Len(w)] = g[Len(w)]
  BY <1>1, <1>2, <1>4, KeptAgree
<1>6. g[Len(w) + 1] = KeptWith(g[Len(w)], p, c)
  <2>1. Len(w) + 1 \in 1..Len(v) /\ (Len(w) + 1) - 1 = Len(w)
    BY <1>1
  <2> QED BY <1>1, <1>3, <2>1 DEF Keeps
<1>7. OfClass(v, c) = KeptWith(OfClass(w, c), p, c)
  BY <1>1, <1>2, <1>3, <1>5, <1>6
<1> QED BY <1>7 DEF v

LEMMA OfClassTail ==
  ASSUME NEW S, NEW w \in Seq(S), w # <<>>, NEW c
  PROVE  OfClass(w, c) = KeptWith(<<>>, Head(w), c) \o OfClass(Tail(w), c)
<1> DEFINE v == Tail(w)
           first == KeptWith(<<>>, Head(w), c)
<1>1. /\ v \in Seq(S) /\ Len(v) \in Nat /\ Len(w) = Len(v) + 1 /\ Head(w) \in S /\ Head(w) = w[1]
      /\ \A k \in 1..Len(v) : v[k] = w[k + 1] /\ w[k + 1] \in S
  OBVIOUS
<1>2. first \in Seq(S)
  BY <1>1 DEF KeptWith
<1>3. first = KeptWith(<<>>, w[1], c)
  BY <1>1
<1> HIDE DEF v, first
<1>4. PICK f : Keeps(f, Len(w), w, c) /\ OfClass(w, c) = f[Len(w)]
  BY KeptOf
<1>5. PICK g : /\ g \in [0..Len(v) -> Seq(S)]
               /\ Keeps(g, Len(v), v, c) /\ OfClass(v, c) = g[Len(v)]
  BY ZenonT(60), <1>1, KeptOf
<1> DEFINE Shifted == {k \in Nat : k <= Len(v) => f[k + 1] = first \o g[k]}
<1>6. 0 \in Shifted
  <2>1. f[1] = first
    <3>1. 1 \in 1..Len(w) /\ 1 - 1 = 0
      BY <1>1
    <3> QED BY <1>3, <1>4, <3>1 DEF Keeps
  <2>2. first \o <<>> = first
    BY <1>2
  <2> QED BY SMTT(30), <1>5, <2>1, <2>2 DEF Keeps
<1>7. ASSUME NEW k \in Nat, k \in Shifted PROVE k + 1 \in Shifted
  <2>1. SUFFICES ASSUME k + 1 <= Len(v) PROVE f[(k + 1) + 1] = first \o g[k + 1]
    OBVIOUS
  <2>2. /\ f[k + 1] = first \o g[k]
        /\ k + 1 \in 1..Len(v) /\ (k + 1) - 1 = k /\ k \in 0..Len(v)
        /\ k + 2 \in 1..Len(w) /\ (k + 2) - 1 = k + 1 /\ (k + 1) + 1 = k + 2
    BY <1>1, <1>7, <2>1
  <2>3. v[k + 1] = w[k + 2] /\ w[k + 2] \in S
    BY <1>1, <2>2
  <2>4. f[k + 2] = KeptWith(f[k + 1], w[k + 2], c)
    BY <1>4, <2>2 DEF Keeps
  <2>5. g[k + 1] = KeptWith(g[k], w[k + 2], c)
    BY <1>5, <2>2, <2>3 DEF Keeps
  <2>6. g[k] \in Seq(S)
    BY <1>5, <2>2
  <2>7. KeptWith(first \o g[k], w[k + 2], c) = first \o KeptWith(g[k], w[k + 2], c)
    <3> DEFINE t == g[k]
               e == w[k + 2]
    <3>1. first \in Seq(S) /\ t \in Seq(S) /\ e \in S
      BY <1>2, <2>3, <2>6
    <3> HIDE DEF t, e
    <3>2. KeptWith(first \o t, e, c) = first \o KeptWith(t, e, c)
      BY <3>1, KeptAfterConcat
    <3> QED BY <3>2 DEF t, e
  <2> QED BY <2>2, <2>4, <2>5, <2>7
<1>8. Nat \subseteq Shifted
  <2> HIDE DEF Shifted
  <2> QED BY <1>6, <1>7, Induction
<1>9. f[Len(v) + 1] = first \o g[Len(v)]
  BY <1>1, <1>8
<1>10. OfClass(w, c) = first \o OfClass(v, c)
  BY <1>1, <1>4, <1>5, <1>9
<1> QED BY <1>10 DEF v, first

(* The contents of a queue and of the wire, as sequences over what they    *)
(* hold.                                                                   *)
LEMMA SeqOfOwn ==
  ASSUME NEW S, NEW w \in Seq(S)
  PROVE  w \in Seq(ToSet(w))
<1>1. w \in [1..Len(w) -> S] /\ Len(w) \in Nat
  OBVIOUS
<1>2. \A k \in 1..Len(w) : w[k] \in ToSet(w)
  BY <1>1 DEF ToSet
<1> QED BY <1>1, <1>2

LEMMA WaitingType ==
  ASSUME TypeOK, NEW d \in Dev, NEW c \in Queue
  PROVE  /\ OfClass(wire[d], c) \in Seq(Packet) /\ queues[d][c] \in Seq(Packet)
         /\ Waiting(d, c) \in Seq(Packet)
         /\ \A k \in DOMAIN Waiting(d, c) :
              Waiting(d, c)[k] \in ToSet(wire[d]) \cup ToSet(queues[d][c])
<1>1. wire[d] \in Seq(Packet) /\ queues[d][c] \in Seq(Packet)
  BY DEF TypeOK
<1>2. OfClass(wire[d], c) \in Seq(Packet)
  BY <1>1, OfClassType
<1> DEFINE o == OfClass(wire[d], c)
           q == queues[d][c]
           T == ToSet(wire[d]) \cup ToSet(q)
<1>3. o \in Seq(ToSet(wire[d])) /\ q \in Seq(ToSet(q))
  BY <1>1, SeqOfOwn, OfClassType
<1> HIDE DEF o, q
<1>4. o \in Seq(T) /\ q \in Seq(T)
  <2> DEFINE A == ToSet(wire[d])
             B == ToSet(q)
  <2> HIDE DEF A, B
  <2>1. o \in Seq(A) /\ q \in Seq(B)
    BY <1>3 DEF A, B
  <2>2. o \in Seq(A \cup B) /\ q \in Seq(A \cup B)
    BY <2>1
  <2> QED BY <2>2 DEF A, B
<1>5. o \o q \in Seq(T)
  <2> HIDE DEF T
  <2> QED BY <1>4
<1>6. \A k \in DOMAIN (o \o q) : (o \o q)[k] \in T
  <2> HIDE DEF T
  <2> QED BY <1>5
<1>7. o \o q \in Seq(Packet)
  BY <1>1, <1>2 DEF o, q
<1> QED BY <1>1, <1>2, <1>6, <1>7 DEF o, q, Waiting

(* A packet that was never handed to Send is not accepted by the link.     *)
LEMMA NotAccepted ==
  ASSUME TypeOK, NEW p \in Packet, p \notin Handled
  PROVE  ~Link!Accepted(p)
<1>1. SUFFICES ASSUME Link!Accepted(p) PROVE FALSE
  OBVIOUS
<1> DEFINE pend == [d \in Dev |-> [c \in Queue |-> Waiting(d, c)]]
<1>2. \/ p \in dropped
      \/ \E d \in Dev : \E k \in DOMAIN received[d] : received[d][k] = p
      \/ \E d \in Dev, c \in Queue : \E k \in DOMAIN Waiting(d, c) : Waiting(d, c)[k] = p
  <2>1. \A d \in Dev, c \in Queue : pend[d][c] = Waiting(d, c)
    OBVIOUS
  <2> HIDE DEF pend
  <2>2. \/ p \in dropped
        \/ \E d \in Dev :
             \/ \E k \in DOMAIN received[d] : received[d][k] = p
             \/ \E c \in Queue : \E k \in DOMAIN pend[d][c] : pend[d][c][k] = p
    BY <1>1, Zenon DEF Link!Accepted, pend
  <2>3. CASE \E d \in Dev, c \in Queue : \E k \in DOMAIN pend[d][c] : pend[d][c][k] = p
    <3>1. PICK d \in Dev, c \in Queue : \E k \in DOMAIN pend[d][c] : pend[d][c][k] = p
      BY <2>3
    <3>2. pend[d][c] = Waiting(d, c)
      BY <2>1
    <3> QED BY <3>1, <3>2
  <2> QED BY <2>2, <2>3
<1>3. CASE p \in dropped
  BY <1>3 DEF Handled
<1>4. CASE \E d \in Dev : \E k \in DOMAIN received[d] : received[d][k] = p
  <2>1. PICK d \in Dev : p \in ToSet(received[d])
    BY <1>4 DEF ToSet
  <2> QED BY <2>1 DEF Handled
<1>5. CASE \E d \in Dev, c \in Queue : \E k \in DOMAIN Waiting(d, c) : Waiting(d, c)[k] = p
  <2>1. PICK d \in Dev, c \in Queue : p \in ToSet(wire[d]) \cup ToSet(queues[d][c])
    BY <1>5, WaitingType
  <2> QED BY <2>1 DEF Handled, Queued
<1> QED BY <1>2, <1>3, <1>4, <1>5

-----------------------------------------------------------------------------
(* Two facts about a queue in front of a wire: moving the head of the      *)
(* queue to the end of the wire keeps them together the same sequence, and *)
(* a packet put behind the queue is put behind both.                       *)
LEMMA MoveHead ==
  ASSUME NEW S, NEW s \in Seq(S), NEW q \in Seq(S), q # <<>>
  PROVE  Append(s, Head(q)) \o Tail(q) = s \o q
<1>1. /\ Head(q) \in S /\ Tail(q) \in Seq(S) /\ <<Head(q)>> \in Seq(S)
      /\ q = <<Head(q)>> \o Tail(q)
  OBVIOUS
<1> DEFINE h == <<Head(q)>>
           t == Tail(q)
<1>2. Append(s, Head(q)) = s \o h
  BY <1>1, AppendIsConcat
<1>3. h \in Seq(S) /\ t \in Seq(S) /\ q = h \o t
  BY <1>1
<1>4. Append(s, Head(q)) \o t = (s \o h) \o t
  BY <1>2
<1> HIDE DEF h, t
<1>5. (s \o h) \o t = s \o (h \o t)
  BY <1>3, ConcatAssociative
<1> QED BY <1>3, <1>4, <1>5 DEF t

(* StartNext moves a packet from qs to the wire, within its class.         *)
LEMMA StartNextKeeps ==
  ASSUME TypeOK, NEW d \in Dev, NEW qs \in [Queue -> Seq(Packet)],
         \A i \in Queue : \A p \in ToSet(qs[i]) : ClassOf[p] = i,
         StartNext(d, qs)
  PROVE  /\ \A c \in Queue : Waiting(d, c)' = OfClass(wire[d], c) \o qs[c]
         /\ \A e \in Dev \ {d}, c \in Queue : Waiting(e, c)' = Waiting(e, c)
<1>1. PICK i \in Servable(qs, NWeights) :
        /\ queues' = [queues EXCEPT ![d] = [qs EXCEPT ![i] = Tail(@)]]
        /\ wire' = [wire EXCEPT ![d] = Append(@, Head(qs[i]))]
  BY DEF StartNext
<1>2. i \in Queue /\ qs[i] # <<>> /\ qs[i] \in Seq(Packet)
  BY NWeightsType, ServableNonempty
<1> DEFINE h == Head(qs[i])
<1>3. h \in Packet /\ ClassOf[h] = i
  BY <1>2, TailFacts
<1>4. wire[d] \in Seq(Packet)
  BY DEF TypeOK
<1>5. /\ wire'[d] = Append(wire[d], h)
      /\ \A c \in Queue : queues'[d][c] = IF c = i THEN Tail(qs[i]) ELSE qs[c]
      /\ \A e \in Dev \ {d} : wire'[e] = wire[e] /\ queues'[e] = queues[e]
  BY <1>1, <1>2 DEF TypeOK
<1>6. ASSUME NEW c \in Queue
      PROVE  OfClass(wire'[d], c) \o queues'[d][c] = OfClass(wire[d], c) \o qs[c]
  <2> DEFINE o == OfClass(wire[d], c)
  <2>1. o \in Seq(Packet)
    BY <1>4, OfClassType
  <2>2. OfClass(wire'[d], c) = KeptWith(o, h, c)
    BY <1>3, <1>4, <1>5, OfClassAppend
  <2> HIDE DEF o
  <2>3. CASE c = i
    <3>1. Append(o, h) \o Tail(qs[i]) = o \o qs[i]
      BY <1>2, <2>1, MoveHead
    <3>2. KeptWith(o, h, c) = Append(o, h)
      BY <1>3, <2>3 DEF KeptWith
    <3> QED BY <1>5, <2>2, <2>3, <3>1, <3>2 DEF o
  <2>4. CASE c # i
    <3>1. KeptWith(o, h, c) = o
      BY <1>3, <2>4 DEF KeptWith
    <3> QED BY <1>5, <2>2, <2>4, <3>1 DEF o
  <2> QED BY <2>3, <2>4
<1>7. \A c \in Queue : Waiting(d, c)' = OfClass(wire'[d], c) \o queues'[d][c]
  BY DEF Waiting
<1>8. \A e \in Dev \ {d}, c \in Queue : Waiting(e, c)' = Waiting(e, c)
  BY <1>5 DEF Waiting
<1> QED BY <1>6, <1>7, <1>8

(* What the link has pending, and a change of it in one place.             *)
Pending == [d \in Dev |-> [c \in Queue |-> Waiting(d, c)]]

LEMMA PendingExcept ==
  ASSUME NEW d \in Dev, NEW b \in Queue, NEW x, x = Waiting(d, b)',
         \A c \in Queue \ {b} : Waiting(d, c)' = Waiting(d, c),
         \A e \in Dev \ {d}, c \in Queue : Waiting(e, c)' = Waiting(e, c)
  PROVE  Pending' = [Pending EXCEPT ![d][b] = x]
<1> DEFINE Row(e) == [c \in Queue |-> Waiting(e, c)]
<1>1. Row(d)' = [Row(d) EXCEPT ![b] = x]
  OBVIOUS
<1>2. \A e \in Dev \ {d} : Row(e)' = Row(e)
  OBVIOUS
<1>3. Pending = [e \in Dev |-> Row(e)] /\ Pending' = [e \in Dev |-> Row(e)']
  BY DEF Pending
<1> HIDE DEF Row
<1>4. Pending' = [Pending EXCEPT ![d] = Row(d)']
  BY <1>2, <1>3
<1>5. [Pending EXCEPT ![d][b] = x] = [Pending EXCEPT ![d] = [Row(d) EXCEPT ![b] = x]]
  BY <1>3
<1> QED BY <1>1, <1>4, <1>5

(* Send behind a busy or an idle transmitter is Accept of the link.        *)
LEMMA TakenIsAccept ==
  ASSUME IInv, NEW p \in Packet, SendTaken(p)
  PROVE  Link!Accept(p)
<1> DEFINE d == From[p]
           b == ClassOf[p]
<1>1. d \in Dev /\ b \in Queue
  BY MtuNetDeviceAssumption, NWeightsType
<1>2. TypeOK /\ OwnClass
  BY DEF IInv
<1> DEFINE qs == Enqueued(queues[d], p)
<1>3. /\ queues[d] \in [Queue -> Seq(Packet)]
      /\ \A i \in Queue : \A q \in ToSet(queues[d][i]) : ClassOf[q] = i
  BY <1>1, <1>2 DEF TypeOK, OwnClass
<1>4. /\ p \notin Handled /\ UNCHANGED <<received, dropped>>
      /\ \/ StartNext(d, qs)
         \/ queues' = [queues EXCEPT ![d] = qs] /\ UNCHANGED wire
  BY Zenon DEF SendTaken, Enqueued
<1>5. /\ qs \in [Queue -> Seq(Packet)]
      /\ \A i \in Queue : \A q \in ToSet(qs[i]) : ClassOf[q] = i
  BY <1>3, EnqueueFacts
<1>6. \A c \in Queue : qs[c] = IF c = b THEN Append(queues[d][b], p) ELSE queues[d][c]
  BY <1>1, <1>3 DEF Enqueued
<1> HIDE DEF qs, d, b
<1>7. /\ \A c \in Queue : Waiting(d, c)' = OfClass(wire[d], c) \o qs[c]
      /\ \A e \in Dev \ {d}, c \in Queue : Waiting(e, c)' = Waiting(e, c)
  <2>1. CASE StartNext(d, qs)
    BY <1>1, <1>2, <1>5, <2>1, StartNextKeeps
  <2>2. CASE queues' = [queues EXCEPT ![d] = qs] /\ UNCHANGED wire
    <3>1. \A e \in Dev : queues'[e] = IF e = d THEN qs ELSE queues[e]
      BY <1>2, <2>2 DEF TypeOK
    <3> QED BY <1>1, <2>2, <3>1 DEF Waiting
  <2> QED BY <1>4, <2>1, <2>2
<1>8. Waiting(d, b)' = Append(Waiting(d, b), p)
  <2> DEFINE o == OfClass(wire[d], b)
             q == queues[d][b]
  <2>1. o \in Seq(Packet) /\ q \in Seq(Packet)
    BY <1>1, <1>2, WaitingType
  <2>2. Waiting(d, b) = o \o q /\ Waiting(d, b)' = o \o Append(q, p)
    BY <1>1, <1>6, <1>7 DEF Waiting
  <2> DEFINE u == Waiting(d, b)
  <2>3. IsConcat(u, o, q)
    BY <2>2 DEF IsConcat
  <2> HIDE DEF o, q, u
  <2>4. IsConcat(Append(u, p), o, Append(q, p))
    BY <2>1, <2>3, AppendAfterConcat
  <2> QED BY <2>2, <2>4 DEF IsConcat, u
<1>9. \A c \in Queue \ {b} : Waiting(d, c)' = Waiting(d, c)
  BY <1>6, <1>7 DEF Waiting
<1>10. Pending' = [Pending EXCEPT ![d][b] = Append(@, p)]
  <2>1. Pending[d][b] = Waiting(d, b)
    BY <1>1 DEF Pending
  <2> DEFINE x == Append(Waiting(d, b), p)
  <2>2. x = Waiting(d, b)'
    BY <1>8
  <2> HIDE DEF x
  <2>3. Pending' = [Pending EXCEPT ![d][b] = x]
    BY <1>1, <1>7, <1>9, <2>2, PendingExcept
  <2> QED BY <2>1, <2>3 DEF x
<1>11. ~Link!Accepted(p)
  BY <1>2, <1>4, NotAccepted
<1> QED BY <1>4, <1>10, <1>11 DEF Link!Accept, Pending, d, b

(* A packet that arrives, or falls to the error model, is Deliver or       *)
(* Corrupt for the class it is of.                                         *)
LEMMA ReceiveIsOut ==
  ASSUME IInv, NEW d \in Dev, Receive(d)
  PROVE  \E c \in Queue : Link!Deliver(d, c) \/ Link!Corrupt(d, c)
<1>1. TypeOK
  BY DEF IInv
<1>2. /\ UNCHANGED queues
      /\ wire' = [wire EXCEPT ![d] = Tail(@)]
      /\ Len(wire[d]) > IF txMachineState[d] = "BUSY" THEN 1 ELSE 0
      /\ \/ /\ received' = [received EXCEPT ![d] = Append(@, Head(wire[d]))]
            /\ UNCHANGED dropped
         \/ /\ dropped' = dropped \cup {Head(wire[d])}
            /\ UNCHANGED received
  BY Zenon DEF Receive, Arrives
<1> DEFINE w == wire[d]
<1>3. w \in Seq(Packet) /\ w # <<>>
  <2>1. wire[d] \in Seq(Packet)
    BY <1>1 DEF TypeOK
  <2>2. Len(wire[d]) > 0
    BY <1>2, <2>1
  <2> QED BY <2>1, <2>2
<1> PICK h \in Packet, b \in Queue : h = Head(wire[d]) /\ b = ClassOf[h]
  BY <1>3, TailFacts, NWeightsType
<1>4. Tail(w) \in Seq(Packet)
  BY <1>3, TailFacts
<1>5. /\ wire'[d] = Tail(w)
      /\ \A e \in Dev \ {d} : wire'[e] = wire[e]
  BY <1>1, <1>2 DEF TypeOK
<1>6. \A e \in Dev \ {d}, c \in Queue : Waiting(e, c)' = Waiting(e, c)
  BY <1>2, <1>5 DEF Waiting
<1>7. ASSUME NEW c \in Queue
      PROVE  Waiting(d, c) = KeptWith(<<>>, h, c) \o Waiting(d, c)' /\ Waiting(d, c)' \in Seq(Packet)
  <2> DEFINE o == OfClass(Tail(w), c)
             q == queues[d][c]
             first == KeptWith(<<>>, h, c)
  <2>1. o \in Seq(Packet) /\ q \in Seq(Packet) /\ first \in Seq(Packet)
    <3>1. o \in Seq(Packet)
      BY <1>4, OfClassType
    <3>2. q \in Seq(Packet)
      BY <1>1 DEF TypeOK
    <3>3. <<>> \in Seq(Packet)
      OBVIOUS
    <3>4. first \in Seq(Packet)
      BY <1>4, <3>3 DEF KeptWith
    <3> QED BY <3>1, <3>2, <3>4
  <2>2. OfClass(w, c) = first \o o
    BY <1>3, OfClassTail
  <2>3. Waiting(d, c) = OfClass(w, c) \o q /\ Waiting(d, c)' = o \o q
    BY <1>2, <1>5 DEF Waiting
  <2> HIDE DEF o, q, first, w
  <2>4. (first \o o) \o q = first \o (o \o q) /\ o \o q \in Seq(Packet)
    BY <2>1, ConcatAssociative
  <2> QED BY <2>2, <2>3, <2>4 DEF first
<1> HIDE DEF w
<1>8. \A c \in Queue \ {b} : Waiting(d, c)' = Waiting(d, c)
  <2> SUFFICES ASSUME NEW c \in Queue \ {b} PROVE Waiting(d, c)' = Waiting(d, c)
    OBVIOUS
  <2>1. KeptWith(<<>>, h, c) = <<>>
    BY DEF KeptWith
  <2> QED BY <1>7, <2>1
<1>9. /\ Waiting(d, b) # <<>> /\ Head(Waiting(d, b)) = h
      /\ Tail(Waiting(d, b)) = Waiting(d, b)'
  <2> DEFINE v == Waiting(d, b)'
  <2>1. KeptWith(<<>>, h, b) = <<h>>
    BY DEF KeptWith
  <2>2. Waiting(d, b) = <<h>> \o v /\ v \in Seq(Packet)
    <3>1. Waiting(d, b) = KeptWith(<<>>, h, b) \o v /\ v \in Seq(Packet)
      BY <1>4, <1>7, Zenon
    <3> QED BY <2>1, <3>1
  <2> HIDE DEF v
  <2>3. <<h>> \o v # <<>> /\ Head(<<h>> \o v) = h /\ Tail(<<h>> \o v) = v
    BY <1>4, <2>2
  <2> QED BY <2>2, <2>3 DEF v
<1>10. /\ Pending[d][b] # <<>> /\ Head(Pending[d][b]) = h
       /\ Pending' = [Pending EXCEPT ![d][b] = Tail(@)]
  <2>1. Pending[d][b] = Waiting(d, b)
    BY <1>4 DEF Pending
  <2> DEFINE x == Tail(Waiting(d, b))
  <2>2. x = Waiting(d, b)'
    BY <1>9
  <2> HIDE DEF x
  <2>3. Pending' = [Pending EXCEPT ![d][b] = x]
    BY <1>4, <1>6, <1>8, <2>2, PendingExcept
  <2> QED BY <1>9, <2>1, <2>3 DEF x
<1>11. \/ /\ received' = [received EXCEPT ![d] = Append(@, h)] /\ UNCHANGED dropped
       \/ /\ dropped' = dropped \cup {h} /\ UNCHANGED received
  BY <1>2 DEF w
<1>12. Link!Deliver(d, b) \/ Link!Corrupt(d, b)
  BY <1>10, <1>11 DEF Link!Deliver, Link!Corrupt, Pending
<1> QED BY <1>4, <1>12

(* TransmitComplete moves a packet from a queue to the wire behind it, or  *)
(* only marks the transmitter READY: the link does not change.             *)
LEMMA CompleteKeeps ==
  ASSUME IInv, NEW d \in Dev, TransmitComplete(d)
  PROVE  UNCHANGED <<Pending, received, dropped>>
<1>1. /\ TypeOK
      /\ queues[d] \in [Queue -> Seq(Packet)]
      /\ \A i \in Queue : \A q \in ToSet(queues[d][i]) : ClassOf[q] = i
  BY DEF IInv, TypeOK, OwnClass
<1>2. /\ UNCHANGED <<received, dropped>>
      /\ StartNext(d, queues[d]) \/ UNCHANGED <<queues, wire>>
  BY Zenon DEF TransmitComplete
<1>3. \A e \in Dev, c \in Queue : Waiting(e, c)' = Waiting(e, c)
  <2>1. CASE StartNext(d, queues[d])
    <3>1. /\ \A c \in Queue : Waiting(d, c)' = OfClass(wire[d], c) \o queues[d][c]
          /\ \A e \in Dev \ {d}, c \in Queue : Waiting(e, c)' = Waiting(e, c)
      BY <1>1, <2>1, StartNextKeeps
    <3> QED BY <3>1 DEF Waiting
  <2>2. CASE UNCHANGED <<queues, wire>>
    BY <2>2 DEF Waiting
  <2> QED BY <1>2, <2>1, <2>2
<1>4. Pending' = Pending
  BY <1>3 DEF Pending
<1> QED BY <1>2, <1>4

(* Two devices and their channel, whatever their packets, tags and loss    *)
(* rates: every step of MtuNetDevice is a step of the link of PriorityLink *)
(* or leaves the link as it is, so that in each direction the packets of   *)
(* one priority are neither reordered nor duplicated nor invented.  (That  *)
(* every accepted packet comes out is the other half of ImplementsLink.)   *)
THEOREM LinkSafety == Spec => Link!Init /\ [][Link!Next]_(Link!vars)
<1>1. Init => Link!Init
  <2> SUFFICES ASSUME Init PROVE Link!Init
    OBVIOUS
  <2>1. \A d \in Dev, c \in Queue : Waiting(d, c) = <<>>
    <3>1. \A d \in Dev, c \in Queue : wire[d] = <<>> /\ queues[d][c] = <<>>
      BY DEF Init
    <3>2. \A d \in Dev, c \in Queue : Waiting(d, c) = <<>> \o <<>>
      BY <3>1, OfClassEmpty DEF Waiting
    <3> QED BY <3>2
  <2>2. Pending = [d \in Dev |-> [c \in Queue |-> <<>>]]
    BY <2>1 DEF Pending
  <2> QED BY <2>2 DEF Init, Link!Init, Pending
<1>2. IInv /\ [Next]_vars => [Link!Next]_(Link!vars)
  <2> SUFFICES ASSUME IInv, [Next]_vars PROVE Link!Next \/ UNCHANGED <<Pending, received, dropped>>
    BY DEF Link!vars, Pending
  <2>1. ASSUME NEW p \in Packet, SendLost(p) PROVE Link!Refuse(p)
    <3>1. /\ p \notin Handled /\ dropped' = dropped \cup {p}
          /\ UNCHANGED <<queues, wire, received>>
      BY <2>1 DEF SendLost
    <3>2. Pending' = Pending
      BY <3>1 DEF Pending, Waiting
    <3>3. ~Link!Accepted(p)
      BY <3>1, NotAccepted DEF IInv
    <3> QED BY <3>1, <3>2, <3>3 DEF Link!Refuse, Pending
  <2>2. ASSUME NEW p \in Packet, SendTaken(p) PROVE Link!Accept(p)
    BY <2>2, TakenIsAccept
  <2>3. ASSUME NEW d \in Dev, TransmitComplete(d)
        PROVE  UNCHANGED <<Pending, received, dropped>>
    BY <2>3, CompleteKeeps
  <2>4. ASSUME NEW d \in Dev, Receive(d)
        PROVE  \E c \in Queue : Link!Deliver(d, c) \/ Link!Corrupt(d, c)
    BY <2>4, ReceiveIsOut
  <2>5. CASE NextSecond \/ UNCHANGED vars
    <3>1. UNCHANGED <<queues, wire, received, dropped>>
      BY <2>5 DEF NextSecond, vars
    <3> QED BY <3>1 DEF Pending, Waiting
  <2> QED BY <2>1, <2>2, <2>3, <2>4, <2>5, Zenon DEF Next, Link!Next
<1> QED BY <1>1, <1>2, Inductive, PTL DEF Spec

=============================================================================
