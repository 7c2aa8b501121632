---------------------------- MODULE MtuNetDevice ----------------------------
(***************************************************************************)
(* Two MtuNetDevices joined by a PointToPointChannel, from the moment both *)
(* are attached: MtuNetDevice::Send with its random loss, the transmitter  *)
(* of PointToPointNetDevice (READY and BUSY, TransmitStart,                *)
(* TransmitComplete), the MultiQueue of each device, and the Receive       *)
(* events the channel schedules at the other end.                          *)
(*                                                                         *)
(* Time is abstracted.  A transmission ends before its packet is received  *)
(* (the Receive event is at txTime + delay) and transmissions of a device  *)
(* do not overlap, so wire[d] is a queue whose last packet cannot be       *)
(* received while d is BUSY with it.  The interframe gap is 0, its default *)
(* in every scenario.                                                      *)
(***************************************************************************)
EXTENDS MultiQueueOps, SequencesExt

CONSTANTS
  Dev,         \* the two devices
  Packet,      \* packets, each handed to Send once
  From,        \* the device that sends each packet
  Tag,         \* the priority each packet carries, or NoTag
  NQueues,     \* pri_number of the MultiQueue of both devices
  LossRate,    \* loss_rate of each device, in units of 1/RAND_MAX
  Draws,       \* the values rand() may give after srand(time(0))
  ErrorModel,  \* devices with a m_receiveErrorModel
  None         \* the null pointer

ASSUME MtuNetDeviceAssumption ==
  /\ Cardinality(Dev) = 2
  /\ NQueues \in Nat \ {0}
  /\ From \in [Packet -> Dev]
  /\ Tag \in [Packet -> Nat \cup {NoTag}]
  /\ LossRate \in [Dev -> Nat]
  /\ Draws \subseteq Nat
  /\ ErrorModel \subseteq Dev
  /\ None \notin Packet

VARIABLES
  queues,          \* queues[d]: m_queues of d's MultiQueue
  txMachineState,  \* m_txMachineState
  currentPkt,      \* m_currentPkt
  wire,            \* wire[d]: packets d has started to send, not yet received
  received,        \* received[d]: packets of d that reached the peer's node
  dropped,         \* packets lost in Send or by the receiver's error model
  draw             \* what rand() gives in the current second of wall clock

vars == <<queues, txMachineState, currentPkt, wire, received, dropped, draw>>

Queue == 0..(NQueues - 1)
NWeights == NQueues - 1
ClassOf == [p \in Packet |-> QueueOf(Tag[p], NQueues)]
Peer(d) == CHOOSE e \in Dev : e # d

Queued(d) == UNION {ToSet(queues[d][i]) : i \in Queue}
Handled == dropped \cup UNION {Queued(d) \cup ToSet(wire[d]) \cup ToSet(received[d]) : d \in Dev}

TypeOK == /\ queues \in [Dev -> [Queue -> Seq(Packet)]]
          /\ txMachineState \in [Dev -> {"READY", "BUSY"}]
          /\ currentPkt \in [Dev -> Packet \cup {None}]
          /\ wire \in [Dev -> Seq(Packet)]
          /\ received \in [Dev -> Seq(Packet)]
          /\ dropped \subseteq Packet
          /\ draw \in Draws

-----------------------------------------------------------------------------
Init == /\ queues = [d \in Dev |-> [i \in Queue |-> <<>>]]
        /\ txMachineState = [d \in Dev |-> "READY"]
        /\ currentPkt = [d \in Dev |-> None]
        /\ wire = [d \in Dev |-> <<>>]
        /\ received = [d \in Dev |-> <<>>]
        /\ dropped = {}
        /\ draw \in Draws

(* Dequeue a packet from qs, the content of d's queue, and TransmitStart.  *)
StartNext(d, qs) ==
  \E i \in Servable(qs, NWeights) :
    /\ queues' = [queues EXCEPT ![d] = [qs EXCEPT ![i] = Tail(@)]]
    /\ txMachineState' = [txMachineState EXCEPT ![d] = "BUSY"]
    /\ currentPkt' = [currentPkt EXCEPT ![d] = Head(qs[i])]
    /\ wire' = [wire EXCEPT ![d] = Append(@, Head(qs[i]))]

(* The two ways out of MtuNetDevice::Send, which both return true.  Within *)
(* one second of wall clock every Send sees the same random number.        *)
Lost(d) == draw < LossRate[d]

SendLost(p) ==
  LET d == From[p]
  IN  /\ p \notin Handled
      /\ Lost(d)
      /\ dropped' = dropped \cup {p}
      /\ UNCHANGED <<queues, txMachineState, currentPkt, wire, received, draw>>

SendTaken(p) ==
  LET d == From[p]
      qs == [queues[d] EXCEPT ![ClassOf[p]] = Append(@, p)]
  IN  /\ p \notin Handled
      /\ ~Lost(d)
      /\ \/ /\ txMachineState[d] = "READY"
            /\ StartNext(d, qs)
         \/ /\ txMachineState[d] = "BUSY"
            /\ queues' = [queues EXCEPT ![d] = qs]
            /\ UNCHANGED <<txMachineState, currentPkt, wire>>
      /\ UNCHANGED <<received, dropped, draw>>

(* Faulty forms: the transmitter only becomes READY, as if the next Send   *)
(* were to restart it; the null pointer of an empty queue is transmitted.  *)
TransmitCompleteIdle(d) ==
  /\ txMachineState[d] = "BUSY"
  /\ txMachineState' = [txMachineState EXCEPT ![d] = "READY"]
  /\ currentPkt' = [currentPkt EXCEPT ![d] = None]
  /\ UNCHANGED <<queues, wire, received, dropped, draw>>

TransmitCompleteNull(d) ==
  /\ txMachineState[d] = "BUSY"
  /\ \/ StartNext(d, queues[d])
     \/ /\ Servable(queues[d], NWeights) = {}
        /\ currentPkt' = [currentPkt EXCEPT ![d] = None]
        /\ wire' = [wire EXCEPT ![d] = Append(@, None)]
        /\ UNCHANGED <<queues, txMachineState>>
  /\ UNCHANGED <<received, dropped, draw>>

(* The event TransmitStart schedules: the next packet, if there is one, is *)
(* taken and started in the same event.                                    *)
TransmitComplete(d) ==
  /\ txMachineState[d] = "BUSY"
  /\ \/ StartNext(d, queues[d])
     \/ /\ Servable(queues[d], NWeights) = {}
        /\ txMachineState' = [txMachineState EXCEPT ![d] = "READY"]
        /\ currentPkt' = [currentPkt EXCEPT ![d] = None]
        /\ UNCHANGED <<queues, wire>>
  /\ UNCHANGED <<received, dropped, draw>>

(* The Receive event at the peer of d, for the oldest packet d has sent.   *)
Arrives(d) == Len(wire[d]) > IF txMachineState[d] = "BUSY" THEN 1 ELSE 0

(* Faulty form: a packet the error model drops is also forwarded.          *)
ReceiveCorrupt(d) ==
  /\ Arrives(d)
  /\ wire' = [wire EXCEPT ![d] = Tail(@)]
  /\ received' = [received EXCEPT ![d] = Append(@, Head(wire[d]))]
  /\ \/ UNCHANGED dropped
     \/ /\ Peer(d) \in ErrorModel
        /\ dropped' = dropped \cup {Head(wire[d])}
  /\ UNCHANGED <<queues, txMachineState, currentPkt, draw>>

Receive(d) ==
  /\ Arrives(d)
  /\ wire' = [wire EXCEPT ![d] = Tail(@)]
  /\ \/ /\ received' = [received EXCEPT ![d] = Append(@, Head(wire[d]))]
        /\ UNCHANGED dropped
     \/ /\ Peer(d) \in ErrorModel
        /\ dropped' = dropped \cup {Head(wire[d])}
        /\ UNCHANGED received
  /\ UNCHANGED <<queues, txMachineState, currentPkt, draw>>

(* The wall clock enters a new second.                                     *)
NextSecond == /\ draw' \in Draws
              /\ UNCHANGED <<queues, txMachineState, currentPkt, wire, received, dropped>>

Next == \/ \E p \in Packet : SendLost(p) \/ SendTaken(p)
        \/ \E d \in Dev : TransmitComplete(d) \/ Receive(d)
        \/ NextSecond

(* Scheduled events are executed as long as the simulation runs; nothing   *)
(* forces an application to send or the clock to advance.                  *)
Fairness == \A d \in Dev : /\ WF_vars(TransmitComplete(d))
                           /\ WF_vars(Receive(d))

Spec == Init /\ [][Next]_vars /\ Fairness
-----------------------------------------------------------------------------
(* No wakeup is lost: an idle transmitter has nothing queued behind it,    *)
(* and a busy one has its packet as the last one on the wire.  A packet    *)
(* left in a queue under READY would wait for the next Send of the node    *)
(* (Send dequeues only when READY, TransmitComplete only when BUSY).       *)
NoLostWakeup ==
  \A d \in Dev :
    IF txMachineState[d] = "READY"
    THEN currentPkt[d] = None /\ Queued(d) = {}
    ELSE wire[d] # <<>> /\ currentPkt[d] = Last(wire[d])

(* No packet overtakes an acknowledgement: while queue 0 holds a packet,   *)
(* only packets of queue 0 are put on the wire, whatever Send and          *)
(* TransmitComplete interleave.                                            *)
AckNotOvertaken ==
  [][\A d \in Dev :
       (queues[d][0] # <<>> /\ currentPkt'[d] # currentPkt[d])
          => ClassOf[currentPkt'[d]] = 0]_vars

(* Between the two weighted queues of the code the weights do not count:   *)
(* once a packet of the first and one of the last wait together, the one   *)
(* of the first does not leave before the one of the last, although it is  *)
(* the one with the larger weight.                                         *)
FirstWaitsForLast ==
  [][\A p, q \in Packet :
       LET d == From[p]
       IN  (/\ {p, q} \subseteq Queued(d)
            /\ ClassOf[p] \in 1..(NWeights - 1)
            /\ \A i \in 1..(ClassOf[p] - 1) : queues[d][i] = <<>>
            /\ ClassOf[q] = NWeights) => p \in Queued(d)']_vars

(* A packet Send has taken reaches the other node or falls to its error    *)
(* model; none stays in a queue or on the wire forever.                    *)
EventuallyOut ==
  \A p \in Packet : (p \in Queued(From[p]) \/ p \in ToSet(wire[From[p]]))
                     ~> (p \in ToSet(received[From[p]]) \/ p \in dropped)

(* The packets of class c in w, in their order; KeptWith is one turn.      *)
KeptWith(s, p, c) == IF ClassOf[p] = c THEN Append(s, p) ELSE s

OfClass(w, c) ==
  LET Kept[k \in 0..Len(w)] == IF k = 0 THEN <<>> ELSE KeptWith(Kept[k - 1], w[k], c)
  IN  Kept[Len(w)]

(* The link the devices make: per priority, a queue in front of a wire is  *)
(* one sequence of packets that have been accepted and are not out yet.    *)
Waiting(d, c) == OfClass(wire[d], c) \o queues[d][c]

Link == INSTANCE PriorityLink
          WITH Class <- Queue,
               pending <- [d \in Dev |-> [c \in Queue |-> Waiting(d, c)]],
               delivered <- received,
               dead <- dropped

(* Two devices and their channel implement the link of PriorityLink: in    *)
(* each direction the packets of one priority are neither reordered nor    *)
(* duplicated, and every accepted one comes out.                           *)
ImplementsLink == Link!Spec

=============================================================================
