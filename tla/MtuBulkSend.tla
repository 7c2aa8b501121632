----------------------------- MODULE MtuBulkSend -----------------------------
(***************************************************************************)
(* One flow: ns3::MtuBulkSendApplication on top of the sending half of     *)
(* TcpSocketBase, with the periodic updateMTUandPriInDc/Wan of the SRPT    *)
(* scenarios.  Sequence numbers count the bytes of the flow from 0; the    *)
(* transmission buffer holds the bytes from head to totBytes.              *)
(*                                                                         *)
(* Abstracted: the congestion window (a constant Window), acknowledgements *)
(* and losses (an Ack may be late or never come), fast retransmission and  *)
(* SACK (only the retransmission timer recovers, which marks everything    *)
(* sent as lost), the receiving application (it never closes its side).    *)
(* FIN_WAIT_1 stands for the states after it, where Send is refused too.   *)
(* SendPendingData also asks the application for data before a segment;    *)
(* PumpNeverStalls says that there is none the buffer could take.          *)
(***************************************************************************)
EXTENDS Integers, Sequences

CONSTANTS
  FlowSizes,    \* the values of m_maxBytes; 0 is a flow without end
  SendSize,     \* m_sendSize
  BufferSize,   \* SndBufSize of the socket
  Window,       \* bytes that may be in flight
  DataRetries,  \* m_dataRetries
  Small, Large, \* the two thresholds of gen_priority
  IntBits,      \* the width of int
  Sizes,        \* the segment sizes FindBestMtu may choose
  Horizon       \* bound on the bytes of a flow without end

ASSUME MtuBulkSendAssumption ==
  /\ FlowSizes \subseteq Nat
  /\ {SendSize, BufferSize, Window, IntBits, Horizon} \subseteq Nat \ {0}
  /\ SendSize <= BufferSize
  /\ {DataRetries, Small, Large} \subseteq Nat
  /\ Small <= Large
  /\ 2 ^ IntBits = 2 * 2 ^ (IntBits - 1) /\ 2 ^ (IntBits - 1) \in Nat \ {0}
  /\ Sizes \subseteq Nat /\ Sizes # {}

VARIABLES
  maxBytes,      \* m_maxBytes, the size of the flow
  connected,     \* m_connected of the application
  totBytes,      \* m_totBytes
  priority,      \* m_priority
  segmentSize,   \* m_segmentSize
  tags,          \* size and priority of the chunks handed to the socket
  stopped,       \* StopApplication has run
  state,         \* m_state of the socket, "NONE" while there is none
  endPoint,      \* the socket has its m_endPoint
  closeOnEmpty,  \* m_closeOnEmpty
  head,          \* first byte of the transmission buffer
  next,          \* m_nextTxSequence
  high,          \* m_highTxMark
  retries,       \* m_dataRetrCount
  fin            \* where the FIN was sent, or NoFin

app == <<maxBytes, connected, totBytes, priority, segmentSize, tags, stopped>>
sock == <<state, endPoint, closeOnEmpty, head, next, high, retries, fin>>
vars == <<app, sock>>

NoFin == -1
Total == IF maxBytes = 0 THEN Horizon ELSE maxBytes
Larger(a, b) == IF a > b THEN a ELSE b
Smaller(a, b) == IF a < b THEN a ELSE b

TypeOK ==
  /\ maxBytes \in FlowSizes
  /\ connected \in BOOLEAN /\ stopped \in BOOLEAN
  /\ totBytes \in Nat
  /\ priority \in 0..2
  /\ segmentSize \in Sizes \cup {SendSize}
  /\ tags \in Seq([size : 1..SendSize, priority : 0..2])
  /\ state \in {"NONE", "CLOSED", "SYN_SENT", "ESTABLISHED", "FIN_WAIT_1"}
  /\ endPoint \in BOOLEAN /\ closeOnEmpty \in BOOLEAN
  /\ {head, next, high} \subseteq Nat
  /\ head <= next /\ next <= high /\ high <= totBytes
  /\ retries \in 0..DataRetries
  /\ fin \in Nat \cup {NoFin}

-----------------------------------------------------------------------------
(* gen_priority of the bytes not handed to the socket: an unsigned 64-bit  *)
(* difference that is passed as an int.                                    *)
AsInt(x) == LET r == x % (2 ^ IntBits)
            IN  IF r < 2 ^ (IntBits - 1) THEN r ELSE r - 2 ^ IntBits

GenPriority(flowsize) == CASE flowsize < Small -> 0
                           [] flowsize >= Small /\ flowsize < Large -> 1
                           [] flowsize >= Small /\ flowsize >= Large -> 2

Init == /\ maxBytes \in FlowSizes
        /\ connected = FALSE
        /\ totBytes = 0
        /\ priority = GenPriority(AsInt(maxBytes))
        /\ segmentSize = SendSize
        /\ tags = <<>>
        /\ stopped = FALSE
        /\ state = "NONE"
        /\ endPoint = FALSE
        /\ closeOnEmpty = FALSE
        /\ head = 0 /\ next = 0 /\ high = 0
        /\ retries = DataRetries
        /\ fin = NoFin

(* What SendData hands over when the buffer starts at h: all the rest when *)
(* it fits, otherwise as many whole chunks as fit, for TcpTxBuffer::Add    *)
(* takes a chunk whole or not at all.                                      *)
Handed(h) ==
  LET room == BufferSize - (totBytes - h)
      rest == Total - totBytes
  IN  IF rest <= room THEN rest ELSE (room \div SendSize) * SendSize

(* The tags of n bytes cut into chunks of m_sendSize.                      *)
Chunks(n) ==
  [k \in 1..((n + SendSize - 1) \div SendSize) |->
     [size |-> Smaller(SendSize, n - (k - 1) * SendSize), priority |-> priority]]

\* Faulty form: the test for the end stands before the Send.
SendDataCloseLate(h) ==
  LET n == Handed(h)
      all == totBytes = maxBytes
  IN  /\ totBytes' = totBytes + n
      /\ tags' = tags \o Chunks(n)
      /\ closeOnEmpty' = (closeOnEmpty \/ all)
      /\ connected' = ~all

(* SendData while the buffer starts at h.  Close finds the bytes just      *)
(* added still to be sent and is deferred.                                 *)
SendData(h) ==
  LET n == Handed(h)
      all == n > 0 /\ totBytes + n = maxBytes
  IN  /\ totBytes' = totBytes + n
      /\ tags' = tags \o Chunks(n)
      /\ closeOnEmpty' = (closeOnEmpty \/ all)
      /\ connected' = ~all

(* The callback DataSend.                                                  *)
DataSend(h) ==
  IF connected THEN SendData(h)
               ELSE UNCHANGED <<totBytes, tags, closeOnEmpty, connected>>

-----------------------------------------------------------------------------
StartApplication ==
  /\ state = "NONE"
  /\ state' = "SYN_SENT"
  /\ endPoint' = TRUE
  /\ UNCHANGED <<app, closeOnEmpty, head, next, high, retries, fin>>

(* The SYN+ACK arrives; ConnectionSucceeded is an event of the same time   *)
(* that no event of this flow can precede, StopApplication included, which *)
(* has been in the event list since the start of the simulation.           *)
SynAck ==
  /\ state = "SYN_SENT"
  /\ state' = "ESTABLISHED"
  /\ SendData(head)
  /\ UNCHANGED <<maxBytes, priority, segmentSize, stopped, endPoint, head, next, high, retries, fin>>

(* The last SYN has been sent in vain, or a RST arrives.  The application  *)
(* has no callback for it, and ConnectionFailed is not called.             *)
SynFails ==
  /\ state = "SYN_SENT"
  /\ state' = "CLOSED"
  /\ endPoint' = FALSE
  /\ UNCHANGED <<app, closeOnEmpty, head, next, high, retries, fin>>

\* Faulty form: remainingData is not looked at.
SendDataPacketFinEarly(seq, n) ==
  /\ next' = seq + n
  /\ high' = Larger(high, seq + n)
  /\ state' = IF closeOnEmpty THEN "FIN_WAIT_1" ELSE state
  /\ fin' = IF closeOnEmpty THEN seq + n ELSE fin

(* SendDataPacket of n bytes from seq, with the FIN if a close waits.      *)
SendDataPacket(seq, n) ==
  LET last == closeOnEmpty /\ seq + n = totBytes
  IN  /\ next' = seq + n
      /\ high' = Larger(high, seq + n)
      /\ state' = IF last THEN "FIN_WAIT_1" ELSE state
      /\ fin' = IF last THEN totBytes ELSE fin

(* One segment of SendPendingData: lost bytes first, then new ones.        *)
Transmit ==
  /\ state \in {"ESTABLISHED", "FIN_WAIT_1"} /\ endPoint
  /\ \E n \in 1..Window :
       /\ next + n <= (IF next < high THEN high ELSE totBytes)
       /\ next + n - head <= Window
       /\ SendDataPacket(next, n)
  /\ UNCHANGED <<app, endPoint, closeOnEmpty, head, retries>>

\* Faulty forms: the application is not notified; m_nextTxSequence is not
\* advanced.
AckSilent ==
  /\ state \in {"ESTABLISHED", "FIN_WAIT_1"} /\ endPoint
  /\ \E a \in (head + 1)..high : head' = a /\ next' = Larger(next, a)
  /\ retries' = DataRetries
  /\ UNCHANGED <<app, state, endPoint, closeOnEmpty, high, fin>>

AckKeepsNext ==
  /\ state \in {"ESTABLISHED", "FIN_WAIT_1"} /\ endPoint
  /\ \E a \in (head + 1)..high : head' = a /\ DataSend(a)
  /\ retries' = DataRetries
  /\ UNCHANGED <<maxBytes, priority, segmentSize, stopped, state, endPoint, next, high, fin>>

(* NewAck: the buffer shrinks and the application may fill it.             *)
Ack ==
  /\ state \in {"ESTABLISHED", "FIN_WAIT_1"} /\ endPoint
  /\ \E a \in (head + 1)..high :
       /\ head' = a
       /\ next' = Larger(next, a)
       /\ DataSend(a)
  /\ retries' = DataRetries
  /\ UNCHANGED <<maxBytes, priority, segmentSize, stopped, state, endPoint, high, fin>>

(* ReTxTimeout with retries left: all bytes sent count as lost, and the    *)
(* first segment goes out again.                                           *)
Retransmit ==
  /\ endPoint /\ head < high /\ retries > 0
  /\ retries' = retries - 1
  /\ \E n \in 1..Window : head + n <= high /\ SendDataPacket(head, n)
  /\ UNCHANGED <<app, endPoint, closeOnEmpty, head>>

(* ReTxTimeout without: the end point goes, the state stays, and the       *)
(* application, which has no error callback, is not told.                  *)
GiveUp ==
  /\ endPoint /\ head < high /\ retries = 0
  /\ endPoint' = FALSE
  /\ UNCHANGED <<app, state, closeOnEmpty, head, next, high, retries, fin>>

ReTxTimeout == Retransmit \/ GiveUp

(* Close with nothing pending.                                             *)
DoClose ==
  /\ state' = CASE state = "ESTABLISHED" -> "FIN_WAIT_1"
                [] state = "SYN_SENT" -> "CLOSED"
                [] OTHER -> state
  /\ fin' = IF state = "ESTABLISHED" /\ endPoint THEN totBytes ELSE fin
  /\ endPoint' = (endPoint /\ state # "SYN_SENT")

StopApplication ==
  /\ state # "NONE" /\ ~stopped
  /\ stopped' = TRUE
  /\ connected' = FALSE
  /\ \/ /\ totBytes > next
        /\ closeOnEmpty' = TRUE
        /\ UNCHANGED <<state, fin, endPoint>>
     \/ /\ totBytes = next
        /\ DoClose
        /\ UNCHANGED closeOnEmpty
  /\ UNCHANGED <<maxBytes, totBytes, priority, segmentSize, tags, head, next, high, retries>>

\* Faulty form: the priority is that of the bytes already handed over.
UpdateBySent ==
  /\ priority' = GenPriority(AsInt(totBytes))
  /\ segmentSize' \in Sizes
  /\ UNCHANGED <<maxBytes, connected, totBytes, tags, stopped, sock>>

(* updateMTUandPriInDc and updateMTUandPriInWan: once per second, before,  *)
(* during and after the flow.                                              *)
UpdateMTUandPri ==
  /\ priority' = GenPriority(AsInt(maxBytes - totBytes))
  /\ segmentSize' \in Sizes
  /\ UNCHANGED <<maxBytes, connected, totBytes, tags, stopped, sock>>

Next == \/ StartApplication \/ SynAck \/ SynFails
        \/ Transmit \/ Ack \/ ReTxTimeout
        \/ StopApplication \/ UpdateMTUandPri

(* The SYN is answered or its timer ends; when nothing is in flight the    *)
(* window is open and the scheduled SendPendingData runs; the              *)
(* retransmission timer fires.  The network promises no acknowledgement.   *)
Fairness == /\ WF_vars(SynAck \/ SynFails)
            /\ WF_vars(head = high /\ Transmit)
            /\ WF_vars(ReTxTimeout)

Spec == Init /\ [][Next]_vars /\ Fairness
-----------------------------------------------------------------------------
(* The application never sleeps on room it could use: while it is          *)
(* connected, the next chunk of the flow does not fit into the buffer.     *)
(* There is no other wakeup than NewAck's NotifySend.                      *)
PumpNeverStalls == connected => Handed(head) = 0

(* No flow is cut short by the application's own Close: the FIN is sent    *)
(* behind the last byte handed over, which without a StopApplication is    *)
(* the last byte of the flow.                                              *)
NoTruncation ==
  fin # NoFin => fin = totBytes /\ (~stopped => fin = maxBytes)

(* The deferred Close of the application itself is never forgotten: when   *)
(* the last byte is acknowledged the FIN has been sent.                    *)
OwnCloseHappens ==
  (closeOnEmpty /\ ~stopped /\ endPoint /\ head = totBytes) => state # "ESTABLISHED"

(* Within a finite flow whose size an int holds, a later chunk never has a *)
(* worse priority than an earlier one, so the priority queues can only     *)
(* reorder a flow by letting later bytes overtake.  A longer one may start *)
(* as a negative int, with the best priority, and worsen when what remains *)
(* fits an int; a flow without end worsens when what was handed over no    *)
(* longer fits one.                                                        *)
FitsInt == maxBytes \in 1..(2 ^ (IntBits - 1) - 1)

PriorityImproves ==
  FitsInt => \A j, k \in DOMAIN tags : j < k => tags[k].priority <= tags[j].priority

(* When the buffer holds the whole flow, as the 128 MB of the scenarios do *)
(* for all but the largest flows, the periodic update comes too late for   *)
(* every packet: all carry the priority of the whole flow.                 *)
UpdateComesTooLate ==
  maxBytes \in 1..BufferSize =>
    \A k \in DOMAIN tags : tags[k].priority = GenPriority(AsInt(maxBytes))

(* Every flow of a given size ends: all of it is acknowledged, or the      *)
(* socket gives up, or the flow is stopped.                                *)
FlowEnds ==
  (state = "SYN_SENT") ~> (head = maxBytes \/ ~endPoint \/ stopped)

-----------------------------------------------------------------------------
(* Close promises to wait until all data is transmitted, and to close then *)
(* (the comment on the deferral).  The code does not always do it: a Close *)
(* of StopApplication that comes between a retransmission and the          *)
(* acknowledgement of everything sent before is forgotten.                 *)
CloseHappens ==
  (closeOnEmpty /\ endPoint /\ head = totBytes) => state # "ESTABLISHED"

=============================================================================
