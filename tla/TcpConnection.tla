---------------------------- MODULE TcpConnection ----------------------------
(***************************************************************************)
(* One TCP connection of a flow, both ends of it: the client socket that   *)
(* MtuBulkSendApplication opens, fills and closes, and the socket that the *)
(* listening socket of a PacketSink forks for it.  Both run the same code, *)
(* TcpSocketBase: each function of it is an operator from a socket (a      *)
(* record) and a segment to the socket after it, which carries in out the  *)
(* segments it has sent.                                                   *)
(*                                                                         *)
(* A segment of data has length 1 and the initial sequence numbers are 0:  *)
(* SYN is 0, data are 1..size, the FIN of the client is size + 1.  With at *)
(* most two segments there is no fast retransmission (m_retxThresh is 3),  *)
(* and a selective acknowledgement can only name the second one, which the *)
(* cumulative acknowledgement of the first then covers.  The window holds  *)
(* the whole flow but after a timeout, when it is one segment until the    *)
(* next acknowledgement or SYN|ACK.  The receive window never fills: the   *)
(* sink reads at once what arrives in order.                               *)
(*                                                                         *)
(* The network may lose segments up to a budget, and let a segment without *)
(* data overtake data, as an untagged packet does in a MultiQueue.         *)
(***************************************************************************)
EXTENDS Integers, FiniteSets, SequencesExt

CONSTANTS
  N,            \* bound on the segments of the flow
  SynRetries,   \* m_synRetries
  DataRetries,  \* m_dataRetries
  DelAckMax,    \* m_delAckMaxCount
  Capacity,     \* bound on the segments on their way to one end
  Scenarios     \* what may happen: see Scenario

\* size: segments of the flow; patient: the long timers (retransmission, last
\* acknowledgement, TIME_WAIT) wait until the network is empty and the events of
\* the current moment are over; losses: how many segments it may lose; stops: the
\* sink may stop.
Scenario == [size : 1..N, patient : BOOLEAN, losses : Nat, stops : BOOLEAN]

ASSUME TcpConnectionAssumption ==
  /\ N \in 1..2
  /\ {SynRetries, DataRetries, DelAckMax, Capacity} \subseteq Nat \ {0}
  /\ Scenarios \subseteq Scenario

VARIABLES
  sock,       \* sock[p]: the socket of end p
  net,        \* net[p]: segments on their way to p, oldest first
  listening,  \* the listening socket of the sink is open
  scenario    \* the scenario of this run, with the losses it has left

vars == <<sock, net, listening, scenario>>

End == {"client", "server"}
Peer(p) == IF p = "client" THEN "server" ELSE "client"
Larger(a, b) == IF a > b THEN a ELSE b
Smaller(a, b) == IF a < b THEN a ELSE b
\* The least of a set of numbers.
Least(S) == CHOOSE a \in S : \A b \in S : a <= b
\* F(s), for a call of F after the one that made s: TLC evaluates s only once.
Then(s, F(_)) == CHOOSE r \in {F(x) : x \in {s}} : TRUE

NoFlag == {}
SYN == {"SYN"}
ACK == {"ACK"}
RST == {"RST"}
FIN == {"FIN"}
SYNACK == {"SYN", "ACK"}
FINACK == {"FIN", "ACK"}
RTO == {"RTO"}   \* in retx: the event is ReTxTimeout
NoFin == -1

State == {"CLOSED", "SYN_SENT", "SYN_RCVD", "ESTABLISHED", "CLOSE_WAIT",
          "LAST_ACK", "FIN_WAIT_1", "FIN_WAIT_2", "CLOSING", "TIME_WAIT"}
Segment == [flags : {SYN, ACK, RST, SYNACK, FINACK, RST \cup ACK},
            seq : 0..(N + 3), ack : 0..(N + 3), len : {0, 1}]

Socket ==
  [state : State,
   open : BOOLEAN,                    \* m_endPoint is there
   nextTx : 0..(N + 2),               \* m_nextTxSequence
   highTx : 0..(N + 1),               \* m_highTxMark
   head : 0..(N + 2),                 \* first byte of m_txBuffer
   txEnd : 0..(N + 1),                \* one past the last byte of m_txBuffer
   unsent : SUBSET (1..N),            \* what NextSeg may return: new or lost
   window : {1, N},                   \* segments m_cWnd allows
   recover : 0..(N + 1),              \* m_recover in CA_LOSS, 0 in CA_OPEN
   retx : {NoFlag, RTO, SYN, SYNACK, FINACK},  \* m_retxEvent: what it sends
   synCount : 0..SynRetries,          \* m_synCount
   dataRetr : 0..DataRetries,         \* m_dataRetrCount
   rxNext : 0..(N + 2),               \* NextRxSequence of m_rxBuffer
   early : SUBSET (1..N),             \* data in m_rxBuffer beyond a gap
   fin : (0..(N + 2)) \cup {NoFin},   \* m_finSeq of m_rxBuffer
   delAck : 0..DelAckMax,             \* m_delAckCount
   delAckEvent : BOOLEAN,             \* m_delAckEvent
   lastAckEvent : BOOLEAN,            \* m_lastAckEvent
   timeWaitEvent : BOOLEAN,           \* m_timewaitEvent
   pendingEvent : BOOLEAN,            \* m_sendPendingDataEvent
   closeOnEmpty : BOOLEAN,            \* m_closeOnEmpty
   shutdownSend : BOOLEAN,            \* m_shutdownSend
   told : SUBSET {"normal", "error", "failed"},  \* callbacks that were called
   accepted : 0..2,                   \* connections the sink accepted (bound 2)
   read : 0..(2 * N),                 \* m_totalRx of the sink, in segments
   out : Seq(Segment)]                \* segments sent by the current step

Unused ==
  [state |-> "CLOSED", open |-> FALSE, nextTx |-> 0, highTx |-> 0, head |-> 0,
   txEnd |-> 0, unsent |-> {}, window |-> N, recover |-> 0, retx |-> NoFlag,
   synCount |-> SynRetries, dataRetr |-> DataRetries, rxNext |-> 0, early |-> {},
   fin |-> NoFin, delAck |-> 0, delAckEvent |-> FALSE, lastAckEvent |-> FALSE,
   timeWaitEvent |-> FALSE, pendingEvent |-> FALSE, closeOnEmpty |-> FALSE,
   shutdownSend |-> FALSE, told |-> {}, accepted |-> 0, read |-> 0, out |-> <<>>]

TypeOK ==
  /\ sock \in [End -> Socket]
  /\ net \in [End -> Seq(Segment)]
  /\ listening \in BOOLEAN
  /\ scenario \in Scenario

-----------------------------------------------------------------------------
\* The two buffers.

\* Size of the transmission buffer; it has nothing before its head.
TxSize(s) == Larger(s.txEnd - s.head, 0)
InFlight(s) == Cardinality((s.head..(s.txEnd - 1)) \ s.unsent)

DiscardUpTo(s, seq) ==
  [s EXCEPT !.head = Larger(@, seq), !.unsent = {q \in @ : q >= seq}]

SetHeadSequence(s, seq) == [s EXCEPT !.head = seq, !.txEnd = seq]

Finished(s) == s.fin # NoFin /\ s.fin < s.rxNext

\* Faulty form: the FIN closes the gap before it.
SetFinSequenceAnywhere(s, seq) == [s EXCEPT !.fin = seq, !.rxNext = seq + 1]

SetFinSequence(s, seq) ==
  [s EXCEPT !.fin = seq, !.rxNext = IF @ = seq THEN seq + 1 ELSE @]

\* Nothing of the segment is new.
NothingToBuffer(s, m) == m.len = 0 \/ m.seq < s.rxNext \/ m.seq \in s.early

\* Faulty form: what was read stays in the buffer.
BufferedKeepsRead(s, m) ==
  LET have == s.early \cup {m.seq}
      next == CHOOSE q \in s.rxNext..(N + 2) : q \notin have /\ (s.rxNext..(q - 1)) \subseteq have
  IN  [s EXCEPT !.early = have, !.rxNext = IF next = s.fin THEN next + 1 ELSE next,
                !.read = @ + Cardinality({q \in have : q < next})]

\* The sink reads all that is in order; the FIN is passed with the last of it.
Buffered(s, m) ==
  LET have == s.early \cup {m.seq}
      next == CHOOSE q \in s.rxNext..(N + 2) : q \notin have /\ (s.rxNext..(q - 1)) \subseteq have
  IN  [s EXCEPT !.early = {q \in have : q > next},
                !.rxNext = IF next = s.fin THEN next + 1 ELSE next,
                !.read = @ + (next - s.rxNext)]

\* No data beyond the FIN; in the states that only wait for an
\* acknowledgement the segment must be the next one.
OutOfRange(s, m) ==
  CASE s.state \in {"SYN_SENT", "SYN_RCVD"} -> FALSE
    [] s.state \in {"LAST_ACK", "CLOSING", "CLOSE_WAIT"} -> m.seq # s.rxNext
    [] OTHER -> m.seq + m.len < s.rxNext \/ (s.fin # NoFin /\ s.fin <= m.seq)

-----------------------------------------------------------------------------
\* Sending, and the end of a socket.

Emit(s, flags, seq, len) ==
  [s EXCEPT !.out = Append(@, [flags |-> flags, seq |-> seq, ack |-> s.rxNext, len |-> len])]

CancelAllTimers(s) ==
  [s EXCEPT !.retx = NoFlag, !.delAckEvent = FALSE, !.lastAckEvent = FALSE,
            !.timeWaitEvent = FALSE, !.pendingEvent = FALSE]

DeallocateEndPoint(s) == IF s.open THEN [CancelAllTimers(s) EXCEPT !.open = FALSE] ELSE s

CloseAndNotify(s) ==
  DeallocateEndPoint([s EXCEPT !.state = "CLOSED", !.told = @ \cup {"normal"}])

\* Faulty form: no timer.
SendEmptyPacketOnce(s, f) ==
  IF ~s.open THEN s
  ELSE [Emit(s, IF "FIN" \in f THEN f \cup ACK ELSE f, s.nextTx, 0) EXCEPT
          !.delAck = 0, !.delAckEvent = FALSE]

\* A FIN always carries an ACK.  Only a SYN or a FIN is sent again, by an
\* event that calls this function with the same flags.
SendEmptyPacket(s, f) ==
  LET flags == IF "FIN" \in f THEN f \cup ACK ELSE f
      pastFin == s.state \in {"FIN_WAIT_1", "LAST_ACK", "CLOSING"} /\ "FIN" \notin f
      sent == Emit(s, flags, IF pastFin THEN s.nextTx + 1 ELSE s.nextTx, 0)
      again == flags \cap {"SYN", "FIN"} # {}
  IN  IF ~s.open THEN s
      ELSE IF "SYN" \in f /\ s.synCount = 0 THEN CloseAndNotify(s)
      ELSE [sent EXCEPT
              !.synCount = IF "SYN" \in f THEN @ - 1 ELSE @,
              !.delAck = IF "ACK" \in flags THEN 0 ELSE @,
              !.delAckEvent = IF "ACK" \in flags THEN FALSE ELSE @,
              !.retx = IF again /\ @ = NoFlag THEN flags ELSE @]

SendRST(s) == DeallocateEndPoint([SendEmptyPacket(s, RST) EXCEPT !.told = @ \cup {"error"}])

\* The segment is refused: with a reset, unless it is one.
Refuse(s, m) == CloseAndNotify(IF m.flags = RST THEN s ELSE SendRST(s))

TimeWait(s) ==
  [CancelAllTimers(s) EXCEPT !.state = "TIME_WAIT", !.told = @ \cup {"normal"},
                             !.timeWaitEvent = TRUE]

\* The FIN rides on the last segment of data, every time that is sent.
SendDataPacket(s, seq) ==
  LET fin == s.closeOnEmpty /\ seq + 1 >= s.txEnd
      moved == [s EXCEPT !.state = CASE fin /\ @ = "ESTABLISHED" -> "FIN_WAIT_1"
                                     [] fin /\ @ = "CLOSE_WAIT" -> "LAST_ACK"
                                     [] OTHER -> @]
  IN  [Emit(moved, IF fin THEN FINACK ELSE ACK, seq, 1) EXCEPT
         !.delAck = 0, !.delAckEvent = FALSE,
         !.retx = IF @ = NoFlag THEN RTO ELSE @,
         !.unsent = @ \ {seq}, !.nextTx = seq + 1, !.highTx = Larger(@, seq + 1)]

\* One turn of the loop of SendPendingData.
SendNext(s) ==
  LET finWait == s.recover = 0 /\ s.state = "FIN_WAIT_1"
  IN  IF finWait \/ s.unsent = {} \/ InFlight(s) >= s.window THEN s
      ELSE SendDataPacket(s, Least(s.unsent))

\* Two turns, for a flow has at most two segments.
SendPendingData(s) ==
  IF TxSize(s) = 0 \/ ~s.open THEN s ELSE Then(SendNext(s), SendNext)

-----------------------------------------------------------------------------
\* Closing.

DoClose(s) ==
  CASE s.state \in {"SYN_RCVD", "ESTABLISHED"} ->
         [SendEmptyPacket(s, FIN) EXCEPT !.state = "FIN_WAIT_1"]
    [] s.state = "CLOSE_WAIT" -> [SendEmptyPacket(s, FINACK) EXCEPT !.state = "LAST_ACK"]
    [] s.state \in {"SYN_SENT", "CLOSING"} -> CloseAndNotify(SendRST(s))
    [] s.state = "LAST_ACK" -> CloseAndNotify(s)
    [] OTHER -> s

\* Data nobody has read reset the connection, which keeps its state; data that
\* were never sent put the close off.
Close(s) ==
  IF s.early # {} THEN SendRST(s)
  ELSE IF s.txEnd > s.nextTx THEN [s EXCEPT !.closeOnEmpty = TRUE]
  ELSE DoClose(s)

\* An end that shut its sending down answers the FIN with its own, and gives
\* the peer one timeout to acknowledge it.
DoPeerClose(s) ==
  LET waits == [s EXCEPT !.state = "CLOSE_WAIT", !.told = @ \cup {"normal"}]
      answer == IF s.shutdownSend THEN Close(waits) ELSE SendEmptyPacket(waits, ACK)
  IN  [answer EXCEPT !.lastAckEvent = @ \/ answer.state = "LAST_ACK"]

-----------------------------------------------------------------------------
\* Receiving.

ReceivedData(s, m) ==
  LET r == Buffered(s, m)
  IN  IF NothingToBuffer(s, m) THEN SendEmptyPacket(s, ACK)
      ELSE IF r.rxNext > s.rxNext /\ Finished(r) /\ "FIN" \notin m.flags THEN DoPeerClose(r)
      ELSE IF r.early # {} \/ r.rxNext > s.rxNext + m.len \/ r.delAck + 1 >= DelAckMax
           THEN SendEmptyPacket(r, ACK)
      ELSE [r EXCEPT !.delAck = @ + 1, !.delAckEvent = TRUE]

NewAck(s, ack) ==
  LET restarted == IF s.state = "SYN_RCVD" THEN s.retx ELSE RTO
      idle == TxSize(s) = 0 /\ s.state \notin {"FIN_WAIT_1", "CLOSING"}
  IN  [s EXCEPT !.dataRetr = DataRetries, !.nextTx = Larger(@, ack),
                !.retx = IF idle THEN NoFlag ELSE restarted,
                !.window = N, !.recover = IF ack < @ THEN @ ELSE 0]

\* old is the head of the buffer before the acknowledgement.
ProcessAck(s, ack, old) ==
  IF ack > old THEN NewAck(s, ack)
  ELSE IF ack = old /\ ack > s.highTx THEN [s EXCEPT !.nextTx = ack]
  ELSE s

ReceivedAck(s, m) ==
  LET acked == Then(DiscardUpTo(s, m.ack), LAMBDA d : ProcessAck(d, m.ack, s.head))
  IN  Then(IF m.len > 0 THEN Then(acked, LAMBDA a : ReceivedData(a, m)) ELSE acked,
           SendPendingData)

PeerClose(s, m) ==
  LET marked == SetFinSequence(s, m.seq + m.len)
      filled == IF m.len > 0 THEN ReceivedData(marked, m) ELSE marked
  IN  IF m.seq < s.rxNext \/ (s.fin # NoFin /\ m.seq > s.fin) THEN s
      ELSE IF ~Finished(filled) THEN filled
      ELSE IF filled.state = "FIN_WAIT_1" THEN [filled EXCEPT !.state = "CLOSING"]
      ELSE DoPeerClose(filled)

-----------------------------------------------------------------------------
\* The state machine.  Every segment but the first SYN and a reset carries an
\* ACK; a segment without flags is only a window probe, which never happens.

\* The application of the client answers ConnectionSucceeded by writing the
\* whole flow and closing, before anything of it is sent.
ProcessSynSent(s, m) ==
  LET up == SetHeadSequence([s EXCEPT !.state = "ESTABLISHED", !.retx = NoFlag,
                                      !.rxNext = m.seq + 1, !.nextTx = @ + 1,
                                      !.highTx = s.nextTx + 1], s.nextTx + 1)
  IN  CASE m.flags = ACK -> s
        [] m.flags = SYN ->
             SendEmptyPacket([s EXCEPT !.state = "SYN_RCVD", !.synCount = SynRetries,
                                       !.rxNext = m.seq + 1], SYNACK)
        [] m.flags = SYNACK /\ m.ack = s.nextTx + 1 ->
             [SendEmptyPacket(up, ACK) EXCEPT
                !.txEnd = scenario.size + 1, !.unsent = 1..scenario.size, !.closeOnEmpty = TRUE,
                !.pendingEvent = TRUE, !.delAck = DelAckMax]
        [] OTHER -> Refuse(s, m)

ProcessSynRcvd(s, m) ==
  LET up == SetHeadSequence([s EXCEPT !.retx = NoFlag, !.nextTx = @ + 1,
                                      !.highTx = s.nextTx + 1, !.accepted = @ + 1], s.nextTx + 1)
  IN  CASE m.flags = ACK /\ m.ack = s.nextTx + 1 ->
             ReceivedAck([up EXCEPT !.state = "ESTABLISHED", !.delAck = DelAckMax], m)
        [] m.flags = SYN -> SendEmptyPacket([s EXCEPT !.rxNext = m.seq + 1], SYNACK)
        [] m.flags = FINACK -> IF m.seq = s.rxNext THEN PeerClose(up, m) ELSE s
        [] OTHER -> Refuse(s, m)

\* Faulty form: a second SYN|ACK is an illegal flag.
ProcessEstablishedRefusesSyn(s, m) ==
  CASE m.flags = ACK -> IF m.ack < s.head THEN s
                        ELSE IF m.ack > s.highTx THEN SendEmptyPacket(s, ACK)
                        ELSE ReceivedAck(s, m)
    [] m.flags = FINACK -> PeerClose(s, m)
    [] OTHER -> Refuse(s, m)

ProcessEstablished(s, m) ==
  CASE m.flags = ACK -> IF m.ack < s.head THEN s
                        ELSE IF m.ack > s.highTx THEN SendEmptyPacket(s, ACK)
                        ELSE ReceivedAck(s, m)
    [] m.flags \in {SYN, SYNACK} -> s
    [] m.flags = FINACK -> PeerClose(s, m)
    [] OTHER -> Refuse(s, m)

\* FIN_WAIT_1, FIN_WAIT_2, CLOSE_WAIT: what the segment itself does ...
Waited(s, m) ==
  Then(ReceivedAck(s, m),
       LAMBDA r : IF m.flags = FINACK THEN SetFinSequence(r, m.seq)
                  ELSE IF r.state = "FIN_WAIT_1" /\ TxSize(r) = 0 /\ m.ack = r.highTx + 1
                       THEN [r EXCEPT !.state = "FIN_WAIT_2"]
                  ELSE r)

\* ... and then whether the FIN of the peer is complete.
FinComplete(r, m) ==
  LET acked == TxSize(r) = 0 /\ m.ack = r.highTx + 1
      next == IF r.state = "FIN_WAIT_1" /\ ~acked THEN [r EXCEPT !.state = "CLOSING"]
              ELSE TimeWait(r)
  IN  IF r.state \in {"FIN_WAIT_1", "FIN_WAIT_2"} /\ Finished(r)
      THEN SendEmptyPacket(next, ACK) ELSE r

ProcessWait(s, m) ==
  CASE m.flags \in {SYN, SYNACK} -> s
    [] m.flags \in {ACK, FINACK} -> Then(Waited(s, m), LAMBDA r : FinComplete(r, m))
    [] OTHER -> Refuse(s, m)

ProcessClosing(s, m) ==
  CASE m.flags = ACK -> IF m.seq = s.rxNext THEN TimeWait(s) ELSE s
    [] m.flags = FINACK -> CloseAndNotify(SendEmptyPacket(s, ACK))
    [] OTHER -> Refuse(s, m)

ProcessLastAck(s, m) ==
  CASE m.flags = ACK -> IF m.seq = s.rxNext THEN CloseAndNotify(s) ELSE s
    [] m.flags = FINACK -> CloseAndNotify(s)
    [] OTHER -> Refuse(s, m)

ProcessInState(s, m) ==
  CASE s.state = "SYN_SENT" -> ProcessSynSent(s, m)
    [] s.state = "SYN_RCVD" -> ProcessSynRcvd(s, m)
    [] s.state = "ESTABLISHED" -> ProcessEstablished(s, m)
    [] s.state \in {"FIN_WAIT_1", "FIN_WAIT_2", "CLOSE_WAIT"} -> ProcessWait(s, m)
    [] s.state = "CLOSING" -> ProcessClosing(s, m)
    [] s.state = "LAST_ACK" -> ProcessLastAck(s, m)
    [] OTHER -> s

\* A SYN sets the window to its initial size whatever the state.
NewWindow(s, m) == IF "SYN" \in m.flags THEN [s EXCEPT !.window = N] ELSE s

DoForwardUp(s, m) ==
  IF m.len > 0 /\ OutOfRange(s, m)
  THEN IF s.state = "ESTABLISHED" THEN SendEmptyPacket(s, ACK) ELSE s
  ELSE ProcessInState(NewWindow(s, m), m)

\* A SYN that finds only the listening socket forks a new one, which starts
\* with the flags PacketSink set on the listening one by ShutdownSend.
ProcessListen(s, m) ==
  IF m.flags # SYN THEN s
  ELSE SendEmptyPacket([Unused EXCEPT !.state = "SYN_RCVD", !.open = TRUE,
                          !.rxNext = m.seq + 1, !.closeOnEmpty = TRUE,
                          !.shutdownSend = TRUE, !.accepted = s.accepted,
                          !.read = s.read], SYNACK)

\* TcpL4Protocol answers a segment nobody waits for with a reset.
NoEndPointsFound(s, m) ==
  LET reset == IF "ACK" \in m.flags
               THEN [flags |-> RST, seq |-> m.ack, ack |-> 0, len |-> 0]
               ELSE [flags |-> RST \cup ACK, seq |-> 0, ack |-> m.seq + 1, len |-> 0]
  IN  IF "RST" \in m.flags THEN s ELSE [s EXCEPT !.out = <<reset>>]

Receive(p, s, m) ==
  IF s.open THEN DoForwardUp(s, m)
  ELSE IF p = "server" /\ listening THEN ProcessListen(s, m)
  ELSE NoEndPointsFound(s, m)

-----------------------------------------------------------------------------
\* Timers.

\* Faulty forms: the retries are not limited; nothing is marked as lost; the
\* socket stays when they are used up.
ReTxTimeoutForEver(s) ==
  IF TxSize(s) > 0
  THEN SendPendingData([s EXCEPT !.dataRetr = @ - 1, !.unsent = s.head..(s.txEnd - 1),
                                 !.window = 1, !.recover = s.highTx])
  ELSE IF s.state \in {"FIN_WAIT_1", "CLOSING"} THEN SendEmptyPacket(s, FIN) ELSE s
ReTxTimeoutMarksNothing(s) ==
  IF TxSize(s) = 0
  THEN IF s.state \in {"FIN_WAIT_1", "CLOSING"} THEN SendEmptyPacket(s, FIN) ELSE s
  ELSE IF s.dataRetr = 0 THEN DeallocateEndPoint([s EXCEPT !.told = @ \cup {"error"}])
  ELSE SendPendingData([s EXCEPT !.dataRetr = @ - 1, !.window = 1, !.recover = s.highTx])
ReTxTimeoutReturns(s) ==
  IF TxSize(s) = 0
  THEN IF s.state \in {"FIN_WAIT_1", "CLOSING"} THEN SendEmptyPacket(s, FIN) ELSE s
  ELSE IF s.dataRetr = 0 THEN s
  ELSE SendPendingData([s EXCEPT !.dataRetr = @ - 1, !.unsent = s.head..(s.txEnd - 1),
                                 !.window = 1, !.recover = s.highTx])

ReTxTimeout(s) ==
  LET backOff == [s EXCEPT !.dataRetr = @ - 1, !.unsent = s.head..(s.txEnd - 1),
                           !.window = 1, !.recover = s.highTx]
  IN  IF s.state \in {"CLOSED", "TIME_WAIT"} THEN s
      ELSE IF s.state = "SYN_SENT"
           THEN IF s.synCount > 0 THEN SendEmptyPacket(s, SYN)
                ELSE [s EXCEPT !.told = @ \cup {"failed"}]
      ELSE IF TxSize(s) = 0
           THEN IF s.state \in {"FIN_WAIT_1", "CLOSING"} THEN SendEmptyPacket(s, FIN) ELSE s
      ELSE IF s.dataRetr = 0 THEN DeallocateEndPoint([s EXCEPT !.told = @ \cup {"error"}])
      ELSE SendPendingData(backOff)

FireRetx(s) ==
  LET fired == [s EXCEPT !.retx = NoFlag]
  IN  IF s.retx = RTO THEN ReTxTimeout(fired) ELSE SendEmptyPacket(fired, s.retx)

DelAckTimeout(s) == SendEmptyPacket([s EXCEPT !.delAck = 0, !.delAckEvent = FALSE], ACK)

LastAckTimeout(s) ==
  LET fired == [s EXCEPT !.lastAckEvent = FALSE]
  IN  IF s.state = "LAST_ACK" THEN CloseAndNotify(fired)
      ELSE fired

-----------------------------------------------------------------------------
\* The system.

Connect == SendEmptyPacket([Unused EXCEPT !.open = TRUE], SYN)

Init ==
  LET c == [Connect EXCEPT !.state = "SYN_SENT"]
  IN  /\ sock = [client |-> [c EXCEPT !.out = <<>>], server |-> Unused]
      /\ net = [client |-> <<>>, server |-> c.out]
      /\ listening = TRUE
      /\ scenario \in Scenarios

\* End p becomes x and what it sent is on its way; a full network loses the rest.
Becomes(p, x, n) ==
  \E s \in {x} :
    LET all == n[Peer(p)] \o s.out
    IN  /\ sock' = [sock EXCEPT ![p] = [s EXCEPT !.out = <<>>]]
        /\ net' = [n EXCEPT ![Peer(p)] = SubSeq(all, 1, Smaller(Capacity, Len(all)))]

\* The oldest segment, or the oldest without data if those before it have some.
Deliverable(q) == {i \in DOMAIN q : \A j \in 1..(i - 1) : q[j].len = 1 /\ q[i].len = 0}

Deliver(p) ==
  \E i \in Deliverable(net[p]) :
    /\ Becomes(p, Receive(p, sock[p], net[p][i]), [net EXCEPT ![p] = RemoveAt(@, i)])
    /\ UNCHANGED <<listening, scenario>>

Lose(p) ==
  /\ scenario.losses > 0
  /\ \E i \in DOMAIN net[p] : net' = [net EXCEPT ![p] = RemoveAt(@, i)]
  /\ scenario' = [scenario EXCEPT !.losses = @ - 1]
  /\ UNCHANGED <<sock, listening>>

\* A timer of p may run out.
MayExpire == scenario.patient => \A p \in End : net[p] = <<>> /\ ~sock[p].pendingEvent

\* The timer of a SYN (ConnTimeout, 3 s, doubled each time) is longer than that of data.
Soonest(p) == scenario.patient /\ "SYN" \in sock[p].retx => sock[Peer(p)].retx # RTO

RetxTimeout(p) ==
  /\ sock[p].retx # NoFlag /\ MayExpire /\ Soonest(p)
  /\ Becomes(p, FireRetx(sock[p]), net)
  /\ UNCHANGED <<listening, scenario>>

DelayedAck(p) ==
  /\ sock[p].delAckEvent
  /\ Becomes(p, DelAckTimeout(sock[p]), net)
  /\ UNCHANGED <<listening, scenario>>

LastAck(p) ==
  /\ sock[p].lastAckEvent /\ MayExpire
  /\ Becomes(p, LastAckTimeout(sock[p]), net)
  /\ UNCHANGED <<listening, scenario>>

TimeWaitOver(p) ==
  /\ sock[p].timeWaitEvent /\ MayExpire
  /\ Becomes(p, CloseAndNotify(sock[p]), net)
  /\ UNCHANGED <<listening, scenario>>

\* The event Send schedules one time step after the application wrote.
SendPending(p) ==
  /\ sock[p].pendingEvent
  /\ Becomes(p, SendPendingData([sock[p] EXCEPT !.pendingEvent = FALSE]), net)
  /\ UNCHANGED <<listening, scenario>>

\* PacketSink::StopApplication closes the accepted socket and the listening one.
SinkStop ==
  LET s == sock["server"]
  IN  /\ scenario.stops /\ listening
      /\ listening' = FALSE
      /\ Becomes("server", IF s.accepted > 0 /\ s.state # "SYN_RCVD" THEN Close(s) ELSE s, net)
      /\ UNCHANGED scenario

Next ==
  \/ \E p \in End : Deliver(p) \/ Lose(p) \/ RetxTimeout(p) \/ DelayedAck(p)
                    \/ LastAck(p) \/ TimeWaitOver(p) \/ SendPending(p)
  \/ SinkStop

\* Every scheduled event runs: the simulator runs events in the order of their
\* times.  The network delivers what it does not lose.
Fairness ==
  \A p \in End : /\ WF_vars(Deliver(p)) /\ WF_vars(RetxTimeout(p)) /\ WF_vars(DelayedAck(p))
                 /\ WF_vars(LastAck(p)) /\ WF_vars(TimeWaitOver(p)) /\ WF_vars(SendPending(p))

Spec == Init /\ [][Next]_vars /\ Fairness

-----------------------------------------------------------------------------
Client == sock["client"]
Server == sock["server"]

\* What a FIN promises: an end that has seen its own FIN acknowledged, or the
\* FIN of its peer, has not left data of the flow behind, whatever was lost,
\* overtaken or sent twice (SetFinSequence, PeerClose, ProcessWait).  For the
\* client it needs a sink that has not closed first: in CLOSING any
\* acknowledgement in order is taken for that of the FIN (ProcessClosing).
FinishedMeansDelivered ==
  /\ listening /\ Client.state \in {"FIN_WAIT_2", "TIME_WAIT"} => Server.read = scenario.size
  /\ Server.state \in {"LAST_ACK", "CLOSING", "TIME_WAIT"} => Server.read = scenario.size

\* A flow reaches its sink as one connection and every byte of it at most
\* once, although SYNs and data are repeated and the socket of the connection
\* may be gone before the last repetition comes (ProcessListen, TcpRxBuffer::Add).
DeliveredOnce == Server.accepted <= 1 /\ Server.read <= scenario.size

Quiet ==
  \A p \in End :
    /\ net[p] = <<>> /\ sock[p].retx = NoFlag
    /\ ~sock[p].delAckEvent /\ ~sock[p].lastAckEvent
    /\ ~sock[p].timeWaitEvent /\ ~sock[p].pendingEvent

\* With no segment on its way and no event scheduled nothing will ever happen
\* again.  The only state a client is left in for ever is FIN_WAIT_2: no path
\* through timers and acknowledgements stops the last timer of an unfinished
\* flow (NewAck, ReTxTimeout, DeallocateEndPoint).
OnlyFinWait2Hangs == Quiet /\ Client.open => Client.state = "FIN_WAIT_2"

\* Nobody resets a connection that works: a reset is on its way only if the
\* client has given up or the sink has stopped.  Late and repeated SYNs,
\* SYN|ACKs and FINs find a socket that ignores them, or the listening one
\* (the refusals of ProcessSynSent ... ProcessLastAck, and TcpL4Protocol).
ResetOnlyAfterGivingUp ==
  listening =>
    /\ \A p \in End : ~({"error", "normal"} \subseteq sock[p].told)
    /\ (\E p \in End : \E m \in ToSet(net[p]) : "RST" \in m.flags) => ~Client.open

\* The sink gets the whole flow or the client gives up, whatever is lost and
\* however early the timers run out (ReTxTimeout, SendEmptyPacket).
DeliveredOrGivenUp == <>(Server.read = scenario.size \/ ~Client.open)

\* Nobody gives up too soon: as long as fewer segments are lost than either
\* limit of retries, and no timer runs out early, the sink gets the whole flow.
\* SYN|ACKs are repeated by a timer and by SYNs, and data by a timer that NewAck
\* winds up; no path through them uses up the retries for what was not lost.
DeliveredInTheEnd ==
  scenario.patient /\ ~scenario.stops /\ scenario.losses < Smaller(SynRetries, DataRetries)
    => <>(Server.read = scenario.size)

=============================================================================
