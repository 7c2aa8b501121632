----------------------------- MODULE MultiQueue -----------------------------
(***************************************************************************)
(* ns3::MultiQueue as the simulations use it: constructed once with        *)
(* NQueues queues (3 in the constructor), then driven by Enqueue and       *)
(* Dequeue of the device that owns it.                                     *)
(*                                                                         *)
(* arrived and departed record, for every queue, the packets it has taken  *)
(* and given; the code keeps no such history.                              *)
(***************************************************************************)
EXTENDS MultiQueueOps, SequencesExt

CONSTANTS
  Packet,   \* packets, each one enqueued at most once
  Tag,      \* the priority each packet carries, or NoTag
  NQueues   \* pri_number, one more than m_weight.size()

ASSUME MultiQueueAssumption == /\ NQueues \in Nat \ {0}
                               /\ Tag \in [Packet -> Nat \cup {NoTag}]

VARIABLES
  queues,    \* m_queues
  arrived,   \* what Enqueue has put into each queue, oldest first
  departed   \* what Dequeue has taken from each queue, oldest first

vars == <<queues, arrived, departed>>

Queue == 0..(NQueues - 1)
NWeights == NQueues - 1

TypeOK == /\ queues \in [Queue -> Seq(Packet)]
          /\ arrived \in [Queue -> Seq(Packet)]
          /\ departed \in [Queue -> Seq(Packet)]

-----------------------------------------------------------------------------
Init == /\ queues = [i \in Queue |-> <<>>]
        /\ arrived = [i \in Queue |-> <<>>]
        /\ departed = [i \in Queue |-> <<>>]

(* Faulty forms of Enqueue: a stack instead of a queue; a tag beyond the   *)
(* last queue makes a queue of its own.                                    *)
EnqueueFront(p) ==
  /\ \A i \in Queue : p \notin ToSet(arrived[i])
  /\ LET i == QueueOf(Tag[p], NQueues)
     IN  /\ queues' = [queues EXCEPT ![i] = <<p>> \o @]
         /\ arrived' = [arrived EXCEPT ![i] = Append(@, p)]
  /\ UNCHANGED departed

EnqueueUnbounded(p) ==
  /\ \A i \in Queue : p \notin ToSet(arrived[i])
  /\ LET i == IF Tag[p] = NoTag THEN 0 ELSE Tag[p]
         Grow(f) == [j \in DOMAIN f \cup {i} |->
                       IF j # i THEN f[j]
                       ELSE Append(IF j \in DOMAIN f THEN f[j] ELSE <<>>, p)]
     IN  /\ queues' = Grow(queues)
         /\ arrived' = Grow(arrived)
  /\ UNCHANGED departed

(* Enqueue always succeeds: the limit set with SetMaxPackets is not read.  *)
Enqueue(p) ==
  /\ \A i \in Queue : p \notin ToSet(arrived[i])
  /\ LET i == QueueOf(Tag[p], NQueues)
     IN  /\ queues' = [queues EXCEPT ![i] = Append(@, p)]
         /\ arrived' = [arrived EXCEPT ![i] = Append(@, p)]
  /\ UNCHANGED departed

(* One Dequeue that returns a packet; on an empty queue it returns the     *)
(* null pointer and changes nothing.                                       *)
Dequeue(i) ==
  /\ i \in Servable(queues, NWeights)
  /\ queues' = [queues EXCEPT ![i] = Tail(@)]
  /\ departed' = [departed EXCEPT ![i] = Append(@, Head(queues[i]))]
  /\ UNCHANGED arrived

Next == \/ \E p \in Packet : Enqueue(p)
        \/ \E i \in Queue : Dequeue(i)

Spec == Init /\ [][Next]_vars
-----------------------------------------------------------------------------
(* What a queue has taken is what it has given followed by what it holds:  *)
(* Enqueue and Dequeue lose, duplicate and reorder nothing inside a        *)
(* priority (m_queues[i].push, front, pop).                                *)
Fifo == \A i \in Queue : arrived[i] = departed[i] \o queues[i]

(* A packet is only ever found in the queue of its own tag, so a flow's    *)
(* packets of one priority never spread over two queues (Enqueue's choice  *)
(* between m_queues[priority], back() and m_queues[0]).                    *)
InOwnQueue == \A i \in Queue : \A p \in ToSet(queues[i]) \cup ToSet(departed[i]) :
                i = QueueOf(Tag[p], NQueues)

(* The packets without a tag, which are the acknowledgements, go first:    *)
(* no step takes a packet from another queue while queue 0 holds one.      *)
AckFirst == [][queues[0] # <<>> =>
                 \A i \in Queue \ {0} : departed'[i] = departed[i]]_vars

(* Peek and Dequeue disagree whenever two weighted queues are backlogged   *)
(* and no acknowledgement waits: the packet Peek shows is not one that     *)
(* Dequeue can return.                                                     *)
PeekMisses ==
  (queues[0] = <<>> /\ Cardinality(Backlogged(queues, NWeights)) > 1)
    => Peeked(queues, NQueues) \cap Servable(queues, NWeights) = {}

(* While a packet is queued, Dequeue has one to return: the device never   *)
(* takes a null pointer for an empty queue that is not (the early return   *)
(* on nonEmpty.size() == 0 and the loop's fall-through).                   *)
NeverStuck ==
  (\E i \in Queue : queues[i] # <<>>) => Servable(queues, NWeights) # {}

-----------------------------------------------------------------------------
(* The weighted scheduling mtu-net-device.h promises: every weighted queue *)
(* that waits has a chance to be served when no acknowledgement waits.     *)
(* The code does not provide it.                                           *)
EveryWeightCounts ==
  queues[0] = <<>> => Backlogged(queues, NWeights) \subseteq Servable(queues, NWeights)

=============================================================================
