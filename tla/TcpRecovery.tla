----------------------------- MODULE TcpRecovery -----------------------------
(***************************************************************************)
(* Loss recovery of TcpSocketBase with SACK, as the client of a flow and   *)
(* the sink run it: the sender with its scoreboard (TcpTxBuffer), the      *)
(* receiver with its reordering buffer, and a network that loses,          *)
(* reorders and delays data.  Segments with data overtake each other,      *)
(* because the MultiQueue draws among the priorities of a flow that        *)
(* improve while it is sent; acknowledgements carry no tag and stay in     *)
(* order.  The repository's change is in SendDataPacket: the segment size  *)
(* moves while a flow is sent, so the items of the scoreboard differ in    *)
(* size.                                                                   *)
(*                                                                         *)
(* The application has filled the buffer with the Data bytes of the flow   *)
(* (see MtuBulkSend); connection and close are in TcpConnection.           *)
(* Abstracted: the receiver's window (128 MB), Nagle's algorithm (off by   *)
(* default), the growth in congestion avoidance (TcpCubic), time: the      *)
(* retransmission timer may fire early in some scenarios, else only when   *)
(* nothing is on its way.  The delayed acknowledgement is never on its     *)
(* way: its 200 ms are longer than the retransmission timeout.             *)
(***************************************************************************)
EXTENDS TcpTxBuffer

CONSTANTS
  Data,         \* bytes of the flow
  SendSize,     \* the segment size the application sets
  Sizes,        \* the segment sizes FindBestMtu may choose
  DataRetries,  \* m_dataRetries
  DelAckMax,    \* m_delAckMaxCount
  Unbounded,    \* the initial slow start threshold
  Scenarios     \* see Scenario

\* segments: the window before the flow; losses: packets the network may still
\* lose; early: timeouts that may still fire while something is on its way;
\* updates: how often the segment size may still change; reliable: there was
\* never a loss or an early timeout to come; steady: nor a change of the size.
Scenario ==
  [segments : Nat \ {0}, losses : Nat, early : Nat, updates : Nat,
   reliable : BOOLEAN, steady : BOOLEAN]

ASSUME TcpRecoveryAssumption ==
  /\ {Data, SendSize, DataRetries, DelAckMax, Unbounded} \subseteq Nat \ {0}
  /\ Sizes \subseteq Nat \ {0}
  /\ Scenarios \subseteq Scenario
  /\ \A s \in Scenarios : /\ s.reliable <=> s.losses + s.early = 0
                          /\ s.steady <=> s.updates = 0

VARIABLES
  snd,       \* the socket of the client
  rcv,       \* the socket of the sink
  data,      \* segments on their way to the sink: a bag, they overtake
  acks,      \* acknowledgements on their way back, oldest first
  scenario   \* what may still happen

vars == <<snd, rcv, data, acks, scenario>>

RetxThresh == 3

Segment == [seq : 1..Data, len : 1..Data]
Block == [first : 1..Data, second : 1..(Data + 1)]
Ack == [ack : 1..(Data + 1), sacks : Seq(Block)]

Sender ==
  [buf : Buffer,
   segmentSize : Sizes \cup {SendSize},
   cWnd : Nat \ {0}, ssThresh : Nat \ {0},
   carry : Nat,                    \* m_bytesAckedNotProcessed
   highTx : 1..(Data + 1),         \* m_highTxMark
   recover : 0..(Data + 1),        \* m_recover
   congState : {"OPEN", "DISORDER", "RECOVERY", "LOSS"},
   dupAcks : 0..RetxThresh,        \* m_dupAckCount
   firstPartial : BOOLEAN,         \* m_isFirstPartialAck
   timer : BOOLEAN,                \* m_retxEvent is pending
   retries : 0..DataRetries,       \* m_dataRetrCount
   gaveUp : BOOLEAN,               \* the end point is gone
   out : Seq(Segment)]             \* what the current event has sent

Receiver ==
  [next : 1..(Data + 1),           \* NextRxSequence
   early : SUBSET (1..Data),       \* bytes beyond a gap
   sacks : Seq(Block),             \* m_sackList
   delAck : 0..(DelAckMax - 1),    \* m_delAckCount; its event is pending if > 0
   out : Seq(Ack)]

TypeOK ==
  /\ snd \in Sender
  /\ rcv \in Receiver
  /\ IsABag(data) /\ BagToSet(data) \subseteq Segment
  /\ acks \in Seq(Ack)
  /\ scenario \in Scenario

Init ==
  /\ scenario \in Scenarios
  /\ snd = [buf |-> NewBuffer(Data), segmentSize |-> SendSize,
            cWnd |-> scenario.segments * SendSize, ssThresh |-> Unbounded, carry |-> 0,
            highTx |-> 1, recover |-> 0, congState |-> "OPEN", dupAcks |-> 0,
            firstPartial |-> TRUE, timer |-> FALSE, retries |-> DataRetries,
            gaveUp |-> FALSE, out |-> <<>>]
  /\ rcv = [next |-> 1, early |-> {}, sacks |-> <<>>, delAck |-> 0, out |-> <<>>]
  /\ data = EmptyBag
  /\ acks = <<>>
-----------------------------------------------------------------------------
\* The sender.  Every event runs to its end before the next one: what
\* SendPendingData sends after it is the action Send, and no other action is
\* possible while CanSend holds.

AvailableWindow(s) == Larger(s.cWnd - BytesInFlight(s.buf), 0)

NextToSend(s) == NextSeg(s.buf, s.congState = "RECOVERY")

Running(s) == ~s.gaveUp /\ s.buf.failed = {}

\* The loop of SendPendingData goes on: there is a window and data, and the
\* window takes a segment or all the data.
CanSend ==
  /\ Running(snd)
  /\ AvailableWindow(snd) > 0
  /\ NextToSend(snd) # NoSeq
  /\ \/ AvailableWindow(snd) >= snd.segmentSize
     \/ AvailableWindow(snd) >= SizeFromSequence(snd.buf, NextToSend(snd))

\* Faulty form: a retransmission does not start the timer.
SendDataPacketNoTimer(s, seq, n, size) ==
  Then(PacketSize(s.buf, n, seq),
       LAMBDA len : [s EXCEPT !.buf = CopyFromSequence(@, n, seq),
                              !.segmentSize = size,
                              !.timer = @ \/ seq + len > s.highTx,
                              !.highTx = Larger(@, seq + len),
                              !.out = Append(@, [seq |-> seq, len |-> len])])

\* The packet is cut before the segment size becomes the one FindBestMtu chose.
SendDataPacket(s, seq, n, size) ==
  Then(PacketSize(s.buf, n, seq),
       LAMBDA len : [s EXCEPT !.buf = CopyFromSequence(@, n, seq),
                              !.segmentSize = size,
                              !.timer = TRUE,
                              !.highTx = Larger(@, seq + len),
                              !.out = Append(@, [seq |-> seq, len |-> len])])

\* The first lost byte, else new data, else the head, whatever the window says.
DoRetransmit(s, size) ==
  Then(NextSeg(s.buf, FALSE),
       LAMBDA next : SendDataPacket(s, IF next = NoSeq THEN s.buf.first ELSE next,
                                    s.segmentSize, size))

\* TcpCubic::GetSsThresh
GetSsThresh(s, inFlight) ==
  Larger(((inFlight \div s.segmentSize) * 7) \div 10, 2) * s.segmentSize

EnterRecovery(s, size) ==
  Then(IF IsLost(s.buf, s.buf.first) THEN s.buf ELSE MarkHeadAsLost(s.buf),
       LAMBDA b : Then([s EXCEPT !.buf = b, !.recover = s.highTx, !.congState = "RECOVERY",
                                 !.ssThresh = GetSsThresh(s, BytesInFlight(b)),
                                 !.cWnd = GetSsThresh(s, BytesInFlight(b))],
                       LAMBDA t : DoRetransmit(t, size)))

\* Faulty form: duplicates count in a recovery too.
DupAckInRecovery(s, size) ==
  IF s.congState = "LOSS" THEN s
  ELSE Then([s EXCEPT !.dupAcks = @ + 1,
                      !.congState = IF @ = "OPEN" THEN "DISORDER" ELSE @],
            LAMBDA t : IF /\ t.congState = "DISORDER"
                          /\ \/ t.dupAcks = RetxThresh /\ s.buf.first >= s.recover
                             \/ IsLost(s.buf, s.buf.first + s.segmentSize)
                       THEN EnterRecovery(t, size)
                       ELSE t)

\* Duplicates count outside a recovery; after a timeout they are ignored.
DupAck(s, size) ==
  IF s.congState \in {"LOSS", "RECOVERY"} THEN s
  ELSE Then([s EXCEPT !.dupAcks = @ + 1, !.congState = "DISORDER"],
            LAMBDA t : IF \/ t.dupAcks = RetxThresh /\ s.buf.first >= s.recover
                          \/ IsLost(s.buf, s.buf.first + s.segmentSize)
                       THEN EnterRecovery(t, size)
                       ELSE t)

\* TcpCubic::IncreaseWindow; grows: congestion avoidance adds a segment.
IncreaseWindow(s, segments, grows) ==
  [s EXCEPT !.cWnd = @ + IF s.cWnd < s.ssThresh THEN segments * s.segmentSize
                         ELSE IF segments > 0 /\ grows THEN s.segmentSize ELSE 0]

\* Faulty form: the retries are not restored.
NewAckKeepsRetries(s, resetRTO) ==
  [s EXCEPT !.timer = (@ \/ resetRTO) /\ Size(s.buf) > 0]

NewAck(s, resetRTO) ==
  [s EXCEPT !.retries = DataRetries,
            !.timer = (@ \/ resetRTO) /\ Size(s.buf) > 0]

\* An acknowledgement below the recovery point keeps the sender in its state.
PartialAck(s, size) ==
  Then([s EXCEPT !.buf = DeleteRetransmittedFlagFromHead(@)],
       LAMBDA t : Then(DoRetransmit(t, size),
                       LAMBDA u : [NewAck(u, s.firstPartial) EXCEPT !.firstPartial = FALSE]))

\* Any other acknowledgement of new data; segments: how many it counts for.
\* It ends a recovery and a time of loss, and a disorder unless it is a duplicate.
FullAck(s, ack, segments, isDupack, grows) ==
  LET counted == CASE s.congState = "RECOVERY" -> 0
                   [] s.congState = "LOSS" -> (ack - s.recover) \div s.segmentSize
                   [] OTHER -> segments
      recovering == s.congState \in {"RECOVERY", "LOSS"}
  IN  Then([IncreaseWindow(s, counted, grows) EXCEPT
              !.congState = IF @ = "DISORDER" /\ isDupack THEN @ ELSE "OPEN",
              !.firstPartial = @ \/ recovering,
              !.dupAcks = IF s.congState = "RECOVERY" THEN 0 ELSE @],
           LAMBDA t : NewAck(t, TRUE))

\* New data is acknowledged: whole segments count, the rest is carried.
CumulativeAck(s, ack, bytes, isDupack, size, grows) ==
  LET rest == s.carry + (bytes % s.segmentSize)
      segments == (bytes \div s.segmentSize) + IF rest >= s.segmentSize THEN 1 ELSE 0
  IN  Then([s EXCEPT !.carry = IF rest >= s.segmentSize THEN rest - s.segmentSize ELSE rest,
                     !.dupAcks = IF isDupack THEN @ ELSE 0],
           LAMBDA t :
             CASE ack < s.recover /\ s.congState = "RECOVERY" -> PartialAck(t, size)
               [] ack < s.recover /\ s.congState = "LOSS" ->
                    Then(IncreaseWindow(t, segments, grows), LAMBDA u : NewAck(u, TRUE))
               [] OTHER -> FullAck(t, ack, segments, isDupack, grows))

ProcessAck(s, ack, oldHead, isDupack, size, grows) ==
  Then(IF isDupack THEN DupAck(s, size) ELSE s,
       LAMBDA t : IF ack = oldHead THEN t
                  ELSE CumulativeAck(t, ack, ack - oldHead, isDupack, size, grows))

\* The scoreboard first, then the bytes that are done, then the state.
ReceivedAck(s, m, size, grows) ==
  Then(Update(s.buf, m.sacks, RetxThresh),
       LAMBDA b : Then([s EXCEPT !.buf = DiscardUpTo(b, m.ack)],
                       LAMBDA t : ProcessAck(t, m.ack, s.buf.first,
                                             Modifies(s.buf, m.sacks), size, grows)))

\* All that is not sacked is lost; the threshold follows the bytes in flight
\* before.  SendPendingData then starts from the head.
ReTxTimeout(s) ==
  [s EXCEPT !.buf = SetSentListLost(@),
            !.retries = @ - 1,
            !.dupAcks = 0,
            !.recover = s.highTx,
            !.ssThresh = GetSsThresh(s, BytesInFlight(s.buf)),
            !.cWnd = s.segmentSize,
            !.congState = "LOSS",
            !.timer = FALSE]
-----------------------------------------------------------------------------
\* The receiver.

\* The elements of sacks at the places S.
Select(sacks, S) ==
  LET kept[k \in 0..Len(sacks)] ==
        IF k = 0 THEN <<>>
        ELSE IF k \in S THEN Append(kept[k - 1], sacks[k]) ELSE kept[k - 1]
  IN  kept[Len(sacks)]

\* UpdateSackList: the newest block comes first, joined with its neighbours.
UpdateSackList(sacks, head, tail) ==
  LET left == {k \in DOMAIN sacks : sacks[k].second = head}
      right == {k \in DOMAIN sacks : sacks[k].first = tail}
  IN  <<[first |-> IF left = {} THEN head ELSE sacks[Min(left)].first,
         second |-> IF right = {} THEN tail ELSE sacks[Min(right)].second]>>
      \o Select(sacks, DOMAIN sacks \ (left \cup right))

\* TcpRxBuffer::Add; the sink reads at once what is in order.
Add(r, bytes) ==
  LET have == r.early \cup bytes
      next == CHOOSE q \in r.next..(Data + 1) : q \notin have /\ r.next..(q - 1) \subseteq have
      sacks == IF Min(bytes) > r.next
               THEN UpdateSackList(r.sacks, Min(bytes), Max(bytes) + 1)
               ELSE r.sacks
  IN  [r EXCEPT !.early = {q \in have : q > next},
                !.next = next,
                !.sacks = Select(sacks, {k \in DOMAIN sacks : sacks[k].second > next})]

SendEmptyAck(r) ==
  [r EXCEPT !.delAck = 0, !.out = <<[ack |-> r.next, sacks |-> r.sacks]>>]

\* At once when there is a gap or a gap was filled, else every DelAckMax segments.
Answer(r, s, m) ==
  IF s.early # {} \/ s.next > r.next + m.len \/ s.delAck + 1 >= DelAckMax THEN SendEmptyAck(s)
  ELSE [s EXCEPT !.delAck = @ + 1]

\* A segment that brings nothing new is answered at once.
ReceivedData(r, m) ==
  Then({q \in m.seq..(m.seq + m.len - 1) : q >= r.next /\ q \notin r.early},
       LAMBDA bytes : IF bytes = {} THEN SendEmptyAck(r)
                      ELSE Then(Add(r, bytes), LAMBDA s : Answer(r, s, m)))
-----------------------------------------------------------------------------
\* Steps of the whole.

\* The segment size after a packet of this event.
NewSizes == {snd.segmentSize} \cup IF scenario.updates > 0 THEN Sizes ELSE {}
Updates(size) ==
  scenario' = [scenario EXCEPT !.updates = @ - IF size = snd.segmentSize THEN 0 ELSE 1]

\* What s has sent is on its way.
Transmit(s) ==
  /\ snd' = [s EXCEPT !.out = <<>>]
  /\ data' = data (+) [m \in ToSet(s.out) |-> Cardinality({k \in DOMAIN s.out : s.out[k] = m})]

Send ==
  /\ CanSend
  /\ \E size \in NewSizes, seq \in {NextToSend(snd)},
        n \in {Smaller(AvailableWindow(snd), snd.segmentSize)} :
       /\ \E s \in {SendDataPacket(snd, seq, n, size)} : Transmit(s)
       /\ Updates(size)
  /\ UNCHANGED <<rcv, acks>>

\* An acknowledgement below the head changes nothing.
AckArrives ==
  /\ ~CanSend /\ acks # <<>>
  /\ acks' = Tail(acks)
  /\ LET m == Head(acks)
     IN  IF ~Running(snd) \/ m.ack < snd.buf.first
         THEN UNCHANGED <<snd, data, scenario>>
         ELSE \E size \in NewSizes, grows \in BOOLEAN :
                /\ \E s \in {ReceivedAck(snd, m, size, grows)} :
                     /\ Transmit(s)
                     /\ s.segmentSize = size
                /\ Updates(size)
  /\ UNCHANGED rcv

\* The timer is due: nothing comes any more, or too late.
TimerFires ==
  /\ ~CanSend /\ Running(snd) /\ snd.timer
  /\ \/ /\ data = EmptyBag /\ acks = <<>>
        /\ UNCHANGED scenario
     \/ /\ scenario.early > 0
        /\ ~(data = EmptyBag /\ acks = <<>>)
        /\ scenario' = [scenario EXCEPT !.early = @ - 1]

Timeout ==
  /\ TimerFires /\ snd.retries > 0
  /\ snd' = ReTxTimeout(snd)
  /\ UNCHANGED <<rcv, data, acks>>

GiveUp ==
  /\ TimerFires /\ snd.retries = 0
  /\ snd' = [snd EXCEPT !.gaveUp = TRUE, !.timer = FALSE]
  /\ UNCHANGED <<rcv, data, acks>>

Reply(r) ==
  /\ rcv' = [r EXCEPT !.out = <<>>]
  /\ acks' = acks \o r.out

DataArrives ==
  /\ ~CanSend
  /\ \E m \in BagToSet(data) :
       /\ data' = data (-) SetToBag({m})
       /\ \E r \in {ReceivedData(rcv, m)} : Reply(r)
  /\ UNCHANGED <<snd, scenario>>

DelAckTimeout ==
  /\ ~CanSend /\ rcv.delAck > 0
  /\ Reply(SendEmptyAck(rcv))
  /\ UNCHANGED <<snd, data, scenario>>

Lose ==
  /\ ~CanSend /\ scenario.losses > 0
  /\ scenario' = [scenario EXCEPT !.losses = @ - 1]
  /\ \/ \E m \in BagToSet(data) : data' = data (-) SetToBag({m}) /\ UNCHANGED acks
     \/ \E k \in DOMAIN acks : acks' = RemoveAt(acks, k) /\ UNCHANGED data
  /\ UNCHANGED <<snd, rcv>>

Next == Send \/ AckArrives \/ Timeout \/ GiveUp \/ DataArrives \/ DelAckTimeout \/ Lose

Fairness ==
  /\ WF_vars(Send) /\ WF_vars(AckArrives) /\ WF_vars(DataArrives)
  /\ WF_vars(Timeout \/ GiveUp) /\ WF_vars(DelAckTimeout)

Spec == Init /\ [][Next]_vars /\ Fairness
-----------------------------------------------------------------------------
(* The counters of the scoreboard are the sums over its items: what        *)
(* ConsistencyCheck would find if it were switched on.  The window is      *)
(* computed from the counters, so a byte counted twice or left in them     *)
(* makes the sender too quick or silent for the rest of the flow.          *)
CountersMatch == snd.buf.failed = {} => Consistent(snd.buf)

(* What the sender takes as sacked, and will not send again after a        *)
(* timeout, the sink has, whatever was cut, merged and reordered between.  *)
SackedIsReceived ==
  \A i \in Indices(snd.buf) :
    snd.buf.sent[i].sacked =>
      snd.buf.sent[i].start..(End(snd.buf.sent[i]) - 1) \subseteq rcv.early \cup 1..(rcv.next - 1)

(* No assertion of the scoreboard fails in a flow whose segment size never *)
(* changes, and if it changes, the only one that may is that of MergeItems. *)
AssertionsHold ==
  /\ snd.buf.failed \subseteq {"merge lost"}
  /\ scenario.steady => snd.buf.failed = {}

(* An item is taken as lost only after all before it that are not sacked:  *)
(* the next bytes to send again are always those the sink waits for.       *)
LostFromTheHead ==
  \A i, j \in Indices(snd.buf) :
    i < j /\ snd.buf.sent[j].lost => snd.buf.sent[i].lost \/ snd.buf.sent[i].sacked

(* The sender is never silent: while bytes of the flow are unacknowledged  *)
(* and it cannot send, its timer runs, also after a second partial         *)
(* acknowledgement, which does not start it again, and when a new segment  *)
(* size above the window blocks it with nothing in flight.                 *)
NeverSilent == (Running(snd) /\ Size(snd.buf) > 0 /\ ~CanSend) => snd.timer

(* A reliable network never makes the sender give up, however often the    *)
(* segment size blocks it and whatever is sent twice because of            *)
(* reordering: a timeout sends a segment, a second one before its delayed  *)
(* acknowledgement makes the sink answer at once, and the answer restores  *)
(* the retries.                                                            *)
BlockedNotDead == scenario.reliable => snd.retries >= DataRetries - 2 /\ ~snd.gaveUp

(* Every flow ends: all is acknowledged, or the retries are used up, or    *)
(* the program stops at an assertion.                                      *)
FlowEnds == <>(Size(snd.buf) = 0 \/ ~Running(snd))

(* The assertion of MergeItems: "Merging one lost and another not lost.    *)
(* Impossible".                                                            *)
MergesAgree == "merge lost" \notin snd.buf.failed

=============================================================================
