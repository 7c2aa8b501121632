------------------------ MODULE TcpConnection_proofs ------------------------
(***************************************************************************)
(* Both ends of a connection, for any number of retries and of delayed     *)
(* acknowledgements, any capacity of the network and any number of losses. *)
(***************************************************************************)
EXTENDS TcpConnection, FiniteSetTheorems, SequenceTheorems, TLAPS

Flags == {SYN, ACK, RST, SYNACK, FINACK, RST \cup ACK}

Cargo(z) ==
  {m \in [flags : Flags, seq : Nat, ack : Nat, len : {0, 1}] : m.len = 1 => m.seq \in 1..z}

Pieces(z) == SUBSET (1..z)
Events == {NoFlag, RTO, SYN, SYNACK, FINACK}
Calls == SUBSET {"normal", "error", "failed"}
Sent(z) == Seq(Cargo(z))
Upto(z) == 0..z

Loose(z) ==
  [state : State, open : BOOLEAN, nextTx : Nat, highTx : Nat, head : Nat, txEnd : Nat,
   unsent : Pieces(z), window : Nat, recover : Nat,
   retx : Events, synCount : Int, dataRetr : Int,
   rxNext : Nat, early : Pieces(z), fin : Int, delAck : Int, delAckEvent : BOOLEAN,
   lastAckEvent : BOOLEAN, timeWaitEvent : BOOLEAN, pendingEvent : BOOLEAN,
   closeOnEmpty : BOOLEAN, shutdownSend : BOOLEAN,
   told : Calls, accepted : {0, 1}, read : Upto(z),
   out : Sent(z)]

\* What this socket sends is not a SYN, and acknowledges no more than it has.
Clean(s) ==
  \A k \in DOMAIN s.out :
    s.out[k].flags # SYN /\ ("RST" \in s.out[k].flags \/ s.out[k].ack <= s.rxNext)

Fits(s, z) ==
  /\ s \in Loose(z)
  /\ s.head..(s.txEnd - 1) \subseteq 1..z
  /\ s.read = 0 \/ s.read < s.rxNext
  /\ Clean(s)

Calm(s) == s.state # "SYN_SENT" /\ s.retx # SYN

\* The states after the FIN of the peer.
Late == {"CLOSE_WAIT", "LAST_ACK", "CLOSING", "TIME_WAIT"}

\* t has received what s had, and has not taken a FIN of the peer.
Kept(s, t) ==
  /\ t.accepted = s.accepted /\ t.read = s.read /\ t.early = s.early
  /\ t.fin = s.fin /\ t.rxNext = s.rxNext
  /\ t.txEnd = s.txEnd /\ t.shutdownSend = s.shutdownSend
  /\ t.state = "SYN_RCVD" => s.state = "SYN_RCVD"
  /\ t.state \in Late => s.state \in Late

\* A socket the sink has not accepted yet.
Forked(s) == s.accepted = 0 /\ s.read = 0 /\ s.early = {} /\ s.fin = NoFin

\* A socket that waits for the answer to its SYN.
Calling(s) ==
  /\ s.state = "SYN_SENT" /\ s.open /\ s.nextTx = 0 /\ s.read = 0 /\ s.retx \in {NoFlag, SYN}
  /\ ~s.delAckEvent /\ ~s.lastAckEvent /\ ~s.timeWaitEvent /\ ~s.pendingEvent

\* t is a socket that fits and has received what s had.
Retains(s, t, z) == Fits(t, z) /\ Kept(s, t) /\ (Calm(s) => Calm(t))

-----------------------------------------------------------------------------
\* A SYN sets the window, whatever else becomes of it.  Handled and Taken are
\* DoForwardUp and Receive without that.

Handled(s, m) ==
  IF m.len > 0 /\ OutOfRange(s, m)
  THEN IF s.state = "ESTABLISHED" THEN SendEmptyPacket(s, ACK) ELSE s
  ELSE ProcessInState(s, m)

Taken(p, s, m) ==
  IF s.open THEN Handled(s, m)
  ELSE IF p = "server" /\ listening THEN ProcessListen(s, m)
  ELSE NoEndPointsFound(s, m)

Windowed(s) == {s, [s EXCEPT !.window = N]}

LEMMA WindowedFacts ==
  ASSUME NEW z, NEW s \in Loose(z), NEW r \in Windowed(s)
  PROVE  /\ r \in Loose(z) /\ (r = s \/ r.window = N)
         /\ r.state = s.state /\ r.open = s.open /\ r.nextTx = s.nextTx /\ r.highTx = s.highTx
         /\ r.head = s.head /\ r.txEnd = s.txEnd /\ r.unsent = s.unsent /\ r.recover = s.recover
         /\ r.retx = s.retx /\ r.synCount = s.synCount /\ r.dataRetr = s.dataRetr /\ r.rxNext = s.rxNext
         /\ r.early = s.early /\ r.fin = s.fin /\ r.delAck = s.delAck /\ r.delAckEvent = s.delAckEvent
         /\ r.lastAckEvent = s.lastAckEvent /\ r.timeWaitEvent = s.timeWaitEvent /\ r.pendingEvent = s.pendingEvent /\ r.closeOnEmpty = s.closeOnEmpty
         /\ r.shutdownSend = s.shutdownSend /\ r.told = s.told /\ r.accepted = s.accepted /\ r.read = s.read
         /\ r.out = s.out
<1>1. N \in Nat BY TcpConnectionAssumption
<1> QED BY <1>1 DEF Windowed, Loose

LEMMA DoForwardUpHandled ==
  ASSUME NEW z, NEW s \in Loose(z), NEW m
  PROVE  /\ \E r \in Windowed(s) : DoForwardUp(s, m) = Handled(r, m)
         /\ "SYN" \notin m.flags => DoForwardUp(s, m) = Handled(s, m)
<1> DEFINE w == [s EXCEPT !.window = N]
<1>1. s \in Windowed(s) /\ w \in Windowed(s) BY DEF Windowed
<1>2. NewWindow(s, m) = IF "SYN" \in m.flags THEN w ELSE s BY DEF NewWindow
<1>3. OutOfRange(w, m) = OutOfRange(s, m) BY <1>1, WindowedFacts DEF OutOfRange
<1> HIDE DEF w
<1> QED BY <1>1, <1>2, <1>3 DEF DoForwardUp, Handled

LEMMA ReceiveTaken ==
  ASSUME NEW z, NEW s \in Loose(z), NEW m, NEW p
  PROVE  \E r \in Windowed(s) : Receive(p, s, m) = Taken(p, r, m)
<1>1. s \in Windowed(s) BY DEF Windowed
<1>2. PICK r \in Windowed(s) : DoForwardUp(s, m) = Handled(r, m) BY DoForwardUpHandled
<1>3. r.open = s.open BY <1>2, WindowedFacts
<1>4. CASE s.open BY <1>2, <1>3, <1>4 DEF Receive, Taken
<1>5. CASE ~s.open BY <1>1, <1>5 DEF Receive, Taken
<1> QED BY <1>4, <1>5

LEMMA WindowedFits ==
  ASSUME NEW z, NEW s, Fits(s, z), NEW r \in Windowed(s)
  PROVE  /\ Fits(r, z) /\ (Calm(s) => Calm(r)) /\ (Forked(s) => Forked(r))
         /\ Calling(s) => Calling(r)
BY WindowedFacts DEF Fits, Clean, Calm, Forked, Calling

-----------------------------------------------------------------------------
LEMMA RetainsTrans ==
  ASSUME NEW z, NEW s, NEW t, NEW u, Retains(s, t, z), Retains(t, u, z)
  PROVE  Retains(s, u, z)
BY DEF Retains, Kept

LEMMA RetainsSelf == ASSUME NEW z, NEW s, Fits(s, z) PROVE Retains(s, s, z)
BY DEF Retains, Kept

LEMMA EmitFits ==
  ASSUME NEW z \in 1..N, NEW s, Fits(s, z),
         NEW f \in Flags, f # SYN, NEW q \in Nat, NEW l \in {0, 1}, l = 1 => q \in 1..z
  PROVE  Retains(s, Emit(s, f, q, l), z)
<1>1. [flags |-> f, seq |-> q, ack |-> s.rxNext, len |-> l] \in Cargo(z)
  BY DEF Cargo, Fits, Loose
<1>2. Append(s.out, [flags |-> f, seq |-> q, ack |-> s.rxNext, len |-> l]) \in Sent(z)
  BY <1>1 DEF Fits, Loose, Sent
<1>3. Emit(s, f, q, l) \in Loose(z)
  BY <1>2 DEF Emit, Fits, Loose
<1>4. Clean(Emit(s, f, q, l))
  BY SMTT(30), <1>2 DEF Emit, Fits, Loose, Clean
<1> QED BY <1>3, <1>4 DEF Fits, Emit, Loose, Retains, Kept, Calm, Late

LEMMA CancelFits ==
  ASSUME NEW z \in 1..N, NEW s, Fits(s, z)
  PROVE  Retains(s, CancelAllTimers(s), z) /\ CancelAllTimers(s).retx = NoFlag
BY ZenonT(60) DEF CancelAllTimers, Fits, Loose, Clean, Retains, Kept, Calm, Late, Events, NoFlag, SYN

LEMMA DeallocateFits ==
  ASSUME NEW z \in 1..N, NEW s, Fits(s, z)
  PROVE  Retains(s, DeallocateEndPoint(s), z)
<1>1. ASSUME NEW c, Fits(c, z) PROVE Retains(c, [c EXCEPT !.open = FALSE], z)
  BY <1>1 DEF Fits, Loose, Clean, Retains, Kept, Calm, Late
<1> QED BY <1>1, CancelFits, RetainsTrans, RetainsSelf DEF DeallocateEndPoint, Retains

LEMMA CloseAndNotifyFits ==
  ASSUME NEW z \in 1..N, NEW s, Fits(s, z)
  PROVE  Retains(s, CloseAndNotify(s), z)
<1> DEFINE c == [s EXCEPT !.state = "CLOSED", !.told = @ \cup {"normal"}]
<1>1. Retains(s, c, z)
  <2>1. s.told \cup {"normal"} \in Calls BY DEF Fits, Loose, Calls
  <2>2. ASSUME NEW w \in Calls PROVE Retains(s, [s EXCEPT !.state = "CLOSED", !.told = w], z)
    BY ZenonT(60) DEF Fits, Loose, Clean, Retains, Kept, Calm, Late, State
  <2> QED BY <2>1, <2>2
<1>2. CloseAndNotify(s) = DeallocateEndPoint(c) BY DEF CloseAndNotify
<1> HIDE DEF c
<1> QED BY <1>1, <1>2, DeallocateFits, RetainsTrans DEF Retains

LEMMA FlagsType ==
  /\ NoFlag = {} /\ {SYN, ACK, RST, SYNACK, FINACK, RST \cup ACK} = Flags
  /\ FIN \cup ACK = FINACK /\ FINACK \cup ACK = FINACK
  /\ \A f \in {ACK, RST, FIN, FINACK, SYNACK} : f # SYN
  /\ "FIN" \in FIN /\ "FIN" \in FINACK
  /\ "FIN" \notin ACK /\ "FIN" \notin RST /\ "FIN" \notin SYNACK /\ "FIN" \notin SYN
  /\ "SYN" \in SYN /\ "SYN" \in SYNACK
  /\ "SYN" \notin ACK /\ "SYN" \notin RST /\ "SYN" \notin FIN /\ "SYN" \notin FINACK
BY DEF NoFlag, Flags, SYN, ACK, RST, SYNACK, FINACK, FIN

LEMMA SendEmptyPacketFits ==
  ASSUME NEW z \in 1..N, NEW s, Fits(s, z), NEW f \in {ACK, RST, FIN, FINACK, SYNACK}
  PROVE  Retains(s, SendEmptyPacket(s, f), z)
<1> DEFINE flags == IF "FIN" \in f THEN f \cup ACK ELSE f
           pastFin == s.state \in {"FIN_WAIT_1", "LAST_ACK", "CLOSING"} /\ "FIN" \notin f
           seq == IF pastFin THEN s.nextTx + 1 ELSE s.nextTx
           e == Emit(s, flags, seq, 0)
           again == flags \cap {"SYN", "FIN"} # {}
           t == [e EXCEPT
                   !.synCount = IF "SYN" \in f THEN @ - 1 ELSE @,
                   !.delAck = IF "ACK" \in flags THEN 0 ELSE @,
                   !.delAckEvent = IF "ACK" \in flags THEN FALSE ELSE @,
                   !.retx = IF again /\ @ = NoFlag THEN flags ELSE @]
<1>1. flags \in Flags \ {SYN} BY FlagsType DEF Flags
<1>2. again => flags \in {SYNACK, FINACK} BY FlagsType DEF ACK, RST
<1>3. seq \in Nat BY DEF Fits, Loose
<1>4. Retains(s, e, z)
  <2> HIDE DEF flags, seq
  <2> QED BY <1>1, <1>3, EmitFits
<1>5. Retains(e, t, z)
  <2> HIDE DEF flags, seq, e, again
  <2>1. Fits(e, z) BY <1>4 DEF Retains
  <2>2. ASSUME NEW a \in Int, NEW b \in Int, NEW c \in BOOLEAN,
               NEW d \in Events, e.retx # SYN => d # SYN
        PROVE  Retains(e, [e EXCEPT !.synCount = a, !.delAck = b, !.delAckEvent = c,
                                    !.retx = d], z)
    BY ZenonT(60), <2>1, <2>2 DEF Fits, Loose, Clean, Retains, Kept, Calm, Late
  <2>3. e.synCount \in Int /\ e.delAck \in Int /\ e.delAckEvent \in BOOLEAN
           /\ e.retx \in Events
    BY <2>1 DEF Fits, Loose
  <2>4. flags \in Flags \ {SYN} /\ (again => flags \in {SYNACK, FINACK}) BY <1>1, <1>2
  <2> DEFINE a == IF "SYN" \in f THEN e.synCount - 1 ELSE e.synCount
             b == IF "ACK" \in flags THEN 0 ELSE e.delAck
             c == IF "ACK" \in flags THEN FALSE ELSE e.delAckEvent
             d == IF again /\ e.retx = NoFlag THEN flags ELSE e.retx
  <2>5. a \in Int /\ b \in Int BY <2>3
  <2>6. c \in BOOLEAN BY <2>3, Zenon
  <2>7. d \in Events /\ (e.retx # SYN => d # SYN)
    BY <2>3, <2>4 DEF Events
  <2>8. t = [e EXCEPT !.synCount = a, !.delAck = b, !.delAckEvent = c, !.retx = d]
    OBVIOUS
  <2> HIDE DEF a, b, c, d, t
  <2> QED BY <2>2, <2>5, <2>7, <2>8, <2>6
<1>6. SendEmptyPacket(s, f) = IF ~s.open THEN s
         ELSE IF "SYN" \in f /\ s.synCount = 0 THEN CloseAndNotify(s) ELSE t
  BY DEF SendEmptyPacket
<1> HIDE DEF t, e
<1> QED BY <1>4, <1>5, <1>6, RetainsTrans, RetainsSelf, CloseAndNotifyFits

LEMMA SendRSTFits ==
  ASSUME NEW z \in 1..N, NEW s, Fits(s, z)
  PROVE  Retains(s, SendRST(s), z)
<1> DEFINE t == SendEmptyPacket(s, RST)
           u == [t EXCEPT !.told = @ \cup {"error"}]
<1>1. Retains(s, t, z) BY SendEmptyPacketFits
<1>2. SendRST(s) = DeallocateEndPoint(u) BY DEF SendRST
<1> HIDE DEF t
<1>3. Retains(t, u, z)
  <2>1. t.told \cup {"error"} \in Calls BY <1>1 DEF Retains, Fits, Loose, Calls
  <2>2. ASSUME NEW w \in Calls PROVE Retains(t, [t EXCEPT !.told = w], z)
    BY <1>1 DEF Retains, Fits, Loose, Clean, Kept, Calm, Late
  <2> QED BY <2>1, <2>2
<1> HIDE DEF u
<1> QED BY <1>1, <1>2, <1>3, DeallocateFits, RetainsTrans DEF Retains

LEMMA RefuseFits ==
  ASSUME NEW z \in 1..N, NEW s, NEW m, Fits(s, z)
  PROVE  Retains(s, Refuse(s, m), z)
<1>1. Fits(SendRST(s), z) BY SendRSTFits DEF Retains
<1>2. Retains(s, CloseAndNotify(SendRST(s)), z)
  BY <1>1, SendRSTFits, CloseAndNotifyFits, RetainsTrans
<1> QED BY <1>2, CloseAndNotifyFits DEF Refuse

LEMMA TurnFits ==
  ASSUME NEW z \in 1..N, NEW s, Fits(s, z), NEW x \in State \ {"SYN_SENT"}
  PROVE  /\ Fits([s EXCEPT !.state = x], z)
         /\ Calm(s) => Calm([s EXCEPT !.state = x])
BY DEF Fits, Loose, Clean, Calm

LEMMA TimeWaitFits ==
  ASSUME NEW z \in 1..N, NEW s, Fits(s, z)
  PROVE  Retains([s EXCEPT !.state = "TIME_WAIT"], TimeWait(s), z)
<1> DEFINE c == CancelAllTimers(s)
<1>1. Fits(c, z) /\ c.retx = NoFlag BY CancelFits DEF Retains
<1>2. Kept(s, c) BY CancelFits DEF Retains
<1>3. TimeWait(s) = [c EXCEPT !.state = "TIME_WAIT", !.told = @ \cup {"normal"},
                              !.timeWaitEvent = TRUE]
  BY DEF TimeWait
<1> HIDE DEF c
<1> DEFINE told == c.told \cup {"normal"}
<1>4. told \in Calls BY <1>1 DEF Fits, Loose, Calls
<1>5. ASSUME NEW w \in Calls
      PROVE  Fits([c EXCEPT !.state = "TIME_WAIT", !.told = w, !.timeWaitEvent = TRUE], z)
  BY Zenon, <1>1 DEF Fits, Loose, Clean, State
<1>6. Fits(TimeWait(s), z)
  <2> HIDE DEF told
  <2>1. TimeWait(s) = [c EXCEPT !.state = "TIME_WAIT", !.told = told, !.timeWaitEvent = TRUE]
    BY <1>3 DEF told
  <2> QED BY <1>4, <1>5, <2>1
<1>7. Calm(TimeWait(s)) BY <1>1, <1>3 DEF Fits, Loose, Calm, NoFlag, SYN
<1>8. Kept([s EXCEPT !.state = "TIME_WAIT"], TimeWait(s))
  BY <1>1, <1>2, <1>3 DEF Fits, Loose, Kept, Late
<1> QED BY <1>6, <1>7, <1>8 DEF Retains

LEMMA LeastFits ==
  ASSUME NEW z \in 1..N, NEW S \in SUBSET (1..z), S # {}
  PROVE  Least(S) \in S /\ Least(S) \in 1..z
<1>1. \E a \in S : \A b \in S : a <= b
  <2>1. N \in 1..2 BY TcpConnectionAssumption
  <2>2. CASE 1 \in S BY <2>1, <2>2
  <2>3. CASE 1 \notin S
    <3>1. \A b \in S : b = 2 BY <2>1, <2>3
    <3>2. PICK a \in S : TRUE OBVIOUS
    <3> QED BY <3>1, <3>2
  <2> QED BY <2>2, <2>3
<1> QED BY <1>1 DEF Least

LEMMA SendDataPacketFits ==
  ASSUME NEW z \in 1..N, NEW s, Fits(s, z), NEW q \in 1..z
  PROVE  Retains(s, SendDataPacket(s, q), z)
<1> DEFINE fin == s.closeOnEmpty /\ q + 1 >= s.txEnd
           x == CASE fin /\ s.state = "ESTABLISHED" -> "FIN_WAIT_1"
                  [] fin /\ s.state = "CLOSE_WAIT" -> "LAST_ACK"
                  [] OTHER -> s.state
           moved == [s EXCEPT !.state = x]
           flags == IF fin THEN FINACK ELSE ACK
           e == Emit(moved, flags, q, 1)
           r == IF e.retx = NoFlag THEN RTO ELSE e.retx
           u == e.unsent \ {q}
           h == Larger(e.highTx, q + 1)
           t == [e EXCEPT !.delAck = 0, !.delAckEvent = FALSE, !.retx = r,
                          !.unsent = u, !.nextTx = q + 1, !.highTx = h]
<1>1. SendDataPacket(s, q) = t BY DEF SendDataPacket
<1>2. x \in State \ {"SYN_SENT"} \/ x = s.state BY DEF State
<1>3. (x = "SYN_RCVD" => s.state = "SYN_RCVD") /\ (x \in Late => s.state \in Late) BY DEF Late
<1>4. flags \in Flags \ {SYN} BY FlagsType DEF Flags
<1>5. Retains(s, moved, z)
  <2> HIDE DEF x
  <2> QED BY <1>2, <1>3 DEF Fits, Loose, Clean, Retains, Kept, Calm
<1>6. Retains(moved, e, z)
  <2> HIDE DEF moved, flags
  <2> QED BY <1>4, <1>5, EmitFits DEF Retains
<1>7. Fits(e, z) BY <1>6 DEF Retains
<1>8. r \in Events /\ (e.retx # SYN => r # SYN)
  <2> HIDE DEF e
  <2>1. e.retx \in Events BY <1>7 DEF Fits, Loose
  <2> QED BY <2>1 DEF Events, RTO, SYN
<1>9. u \in Pieces(z) /\ h \in Nat
  <2> HIDE DEF e
  <2> QED BY <1>7 DEF Fits, Loose, Larger, Pieces
<1>10. Retains(e, t, z)
  <2> HIDE DEF e, r, u, h
  <2> DEFINE n == q + 1
             none == 0
  <2>1. n \in Nat /\ none \in Int OBVIOUS
  <2>2. t = [e EXCEPT !.delAck = none, !.delAckEvent = FALSE, !.retx = r,
                      !.unsent = u, !.nextTx = n, !.highTx = h] OBVIOUS
  <2> HIDE DEF n, none
  <2> HIDE DEF t
  <2>3. t \in Loose(z) BY ZenonT(60), <1>7, <1>8, <1>9, <2>1, <2>2 DEF Fits, Loose
  <2>4. Clean(t) /\ t.head..(t.txEnd - 1) \subseteq 1..z /\ (t.read = 0 \/ t.read < t.rxNext)
    BY <1>7, <2>2 DEF Fits, Loose, Clean
  <2>5. Kept(e, t) /\ (Calm(e) => Calm(t)) BY <1>7, <1>8, <2>2 DEF Fits, Loose, Kept, Calm, Late
  <2> QED BY <2>3, <2>4, <2>5 DEF Fits, Retains
<1> HIDE DEF t, e, moved
<1> QED BY <1>1, <1>5, <1>6, <1>10, RetainsTrans

LEMMA SendNextFits ==
  ASSUME NEW z \in 1..N, NEW s, Fits(s, z)
  PROVE  Retains(s, SendNext(s), z)
<1>1. s.unsent \in SUBSET (1..z) BY DEF Fits, Loose, Pieces
<1>2. s.unsent # {} => Retains(s, SendDataPacket(s, Least(s.unsent)), z)
  BY <1>1, LeastFits, SendDataPacketFits
<1> QED BY <1>2, RetainsSelf DEF SendNext

LEMMA SendPendingDataFits ==
  ASSUME NEW z \in 1..N, NEW s, Fits(s, z)
  PROVE  Retains(s, SendPendingData(s), z)
<1>1. Retains(s, SendNext(SendNext(s)), z)
  BY SendNextFits, RetainsTrans DEF Retains
<1>2. Then(SendNext(s), SendNext) = SendNext(SendNext(s)) BY DEF Then
<1> QED BY <1>1, <1>2, RetainsSelf DEF SendPendingData

LEMMA DoCloseFits ==
  ASSUME NEW z \in 1..N, NEW s, Fits(s, z)
  PROVE  Retains(s, DoClose(s), z)
<1>1. CASE s.state \in {"SYN_RCVD", "ESTABLISHED"}
  <2> DEFINE t == SendEmptyPacket(s, FIN)
  <2>1. Retains(s, t, z) BY SendEmptyPacketFits
  <2>2. DoClose(s) = [t EXCEPT !.state = "FIN_WAIT_1"] BY <1>1 DEF DoClose
  <2> HIDE DEF t
  <2>3. Retains(t, [t EXCEPT !.state = "FIN_WAIT_1"], z)
    BY <2>1 DEF Retains, Fits, Loose, Clean, Kept, Calm, Late, State
  <2> QED BY <2>1, <2>2, <2>3, RetainsTrans
<1>2. CASE s.state = "CLOSE_WAIT"
  <2> DEFINE t == SendEmptyPacket(s, FINACK)
  <2>1. Retains(s, t, z) BY SendEmptyPacketFits
  <2>2. DoClose(s) = [t EXCEPT !.state = "LAST_ACK"] BY <1>2 DEF DoClose
  <2> HIDE DEF t
  <2>3. Fits([t EXCEPT !.state = "LAST_ACK"], z)
        /\ (Calm(s) => Calm([t EXCEPT !.state = "LAST_ACK"]))
    BY <2>1 DEF Retains, Fits, Loose, Clean, Calm, State
  <2>4. Kept(s, [t EXCEPT !.state = "LAST_ACK"])
    BY <1>2, <2>1 DEF Retains, Fits, Loose, Kept, Late
  <2> QED BY <2>2, <2>3, <2>4 DEF Retains
<1>3. CASE s.state \in {"SYN_SENT", "CLOSING"}
  <2>1. DoClose(s) = CloseAndNotify(SendRST(s)) BY <1>3 DEF DoClose
  <2> QED BY <2>1, SendRSTFits, CloseAndNotifyFits, RetainsTrans DEF Retains
<1>4. CASE s.state = "LAST_ACK"
  <2>1. DoClose(s) = CloseAndNotify(s) BY <1>4 DEF DoClose
  <2> QED BY <2>1, CloseAndNotifyFits
<1>5. CASE s.state \notin {"SYN_RCVD", "ESTABLISHED", "CLOSE_WAIT", "SYN_SENT",
                           "CLOSING", "LAST_ACK"}
  <2>1. DoClose(s) = s BY <1>5 DEF DoClose
  <2> QED BY <2>1, RetainsSelf
<1> QED BY <1>1, <1>2, <1>3, <1>4, <1>5

LEMMA CloseFits ==
  ASSUME NEW z \in 1..N, NEW s, Fits(s, z)
  PROVE  Retains(s, Close(s), z)
<1>1. Retains(s, [s EXCEPT !.closeOnEmpty = TRUE], z)
  BY DEF Retains, Fits, Loose, Clean, Kept, Calm, Late
<1> QED BY <1>1, SendRSTFits, DoCloseFits DEF Close

LEMMA DoPeerCloseFits ==
  ASSUME NEW z \in 1..N, NEW s, Fits(s, z)
  PROVE  Retains([s EXCEPT !.state = "CLOSE_WAIT"], DoPeerClose(s), z)
<1> DEFINE x == [s EXCEPT !.state = "CLOSE_WAIT"]
           w == x.told \cup {"normal"}
           waits == [s EXCEPT !.state = "CLOSE_WAIT", !.told = @ \cup {"normal"}]
           answer == IF s.shutdownSend THEN Close(waits) ELSE SendEmptyPacket(waits, ACK)
           late == answer.lastAckEvent \/ answer.state = "LAST_ACK"
<1>1. Fits(x, z) BY TurnFits DEF State
<1>2. Retains(x, waits, z)
  <2>1. w \in Calls BY <1>1 DEF Fits, Loose, Calls
  <2>2. waits = [x EXCEPT !.told = w] BY DEF Fits, Loose
  <2> HIDE DEF w, waits, x
  <2> QED BY <1>1, <2>1, <2>2 DEF Retains, Fits, Loose, Clean, Kept, Calm, Late
<1>3. Retains(waits, answer, z)
  <2> HIDE DEF waits
  <2> QED BY <1>2, CloseFits, SendEmptyPacketFits DEF Retains
<1>4. DoPeerClose(s) = [answer EXCEPT !.lastAckEvent = late] BY DEF DoPeerClose
<1>5. late \in BOOLEAN
  <2> HIDE DEF answer
  <2>1. answer.lastAckEvent \in BOOLEAN BY <1>3 DEF Retains, Fits, Loose
  <2> QED BY <2>1, Zenon
<1>6. Retains(answer, [answer EXCEPT !.lastAckEvent = late], z)
  <2> HIDE DEF answer, late
  <2> QED BY <1>3, <1>5 DEF Retains, Fits, Loose, Clean, Kept, Calm, Late
<1> HIDE DEF answer, waits, x, late
<1>7. Retains(x, [answer EXCEPT !.lastAckEvent = late], z)
  BY <1>2, <1>3, <1>6, RetainsTrans
<1> QED BY <1>4, <1>7 DEF x

LEMMA DiscardUpToFits ==
  ASSUME NEW z \in 1..N, NEW s, Fits(s, z), NEW a \in Nat
  PROVE  Retains(s, DiscardUpTo(s, a), z)
<1> DEFINE h == Larger(s.head, a)
           u == {q \in s.unsent : q >= a}
<1>1. h \in Nat /\ h >= s.head BY DEF Larger, Fits, Loose
<1>2. u \in Pieces(z) BY DEF Fits, Loose, Pieces
<1>3. DiscardUpTo(s, a) = [s EXCEPT !.head = h, !.unsent = u] BY DEF DiscardUpTo
<1> HIDE DEF h, u
<1>4. Retains(s, [s EXCEPT !.head = h, !.unsent = u], z)
  <2> DEFINE t == [s EXCEPT !.head = h, !.unsent = u]
  <2>1. t \in Loose(z) BY <1>1, <1>2 DEF Fits, Loose
  <2>2. t.head = h /\ t.txEnd = s.txEnd BY DEF Fits, Loose
  <2>3. Clean(t) /\ (t.read = 0 \/ t.read < t.rxNext) BY DEF Fits, Loose, Clean
  <2>4. Kept(s, t) /\ (Calm(s) => Calm(t)) BY DEF Fits, Loose, Kept, Calm, Late
  <2> HIDE DEF t
  <2>5. h..(s.txEnd - 1) \subseteq s.head..(s.txEnd - 1)
    BY <1>1 DEF Fits, Loose
  <2>6. t.head..(t.txEnd - 1) \subseteq 1..z BY <2>2, <2>5 DEF Fits
  <2> QED BY <2>1, <2>3, <2>4, <2>6 DEF Retains, Fits, t
<1> QED BY <1>3, <1>4

LEMMA NewAckFits ==
  ASSUME NEW z \in 1..N, NEW s, Fits(s, z), NEW a \in Nat
  PROVE  Retains(s, NewAck(s, a), z)
<1> DEFINE restarted == IF s.state = "SYN_RCVD" THEN s.retx ELSE RTO
           idle == TxSize(s) = 0 /\ s.state \notin {"FIN_WAIT_1", "CLOSING"}
           n == Larger(s.nextTx, a)
           r == IF idle THEN NoFlag ELSE restarted
           v == IF a < s.recover THEN s.recover ELSE 0
<1>1. r \in Events /\ (s.retx # SYN => r # SYN)
  BY DEF Fits, Loose, Events, NoFlag, RTO, SYN
<1>2. n \in Nat /\ v \in Nat BY DEF Fits, Loose, Larger
<1>3. DataRetries \in Int /\ N \in Nat BY TcpConnectionAssumption
<1>4. NewAck(s, a) = [s EXCEPT !.dataRetr = DataRetries, !.nextTx = n, !.retx = r,
                               !.window = N, !.recover = v]
  BY DEF NewAck
<1> HIDE DEF n, r, v
<1>5. Retains(s, [s EXCEPT !.dataRetr = DataRetries, !.nextTx = n, !.retx = r,
                           !.window = N, !.recover = v], z)
  BY <1>1, <1>2, <1>3 DEF Retains, Fits, Loose, Clean, Kept, Calm, Late
<1> QED BY <1>4, <1>5

LEMMA ProcessAckFits ==
  ASSUME NEW z \in 1..N, NEW s, Fits(s, z), NEW a \in Nat, NEW old
  PROVE  Retains(s, ProcessAck(s, a, old), z)
<1>1. Retains(s, [s EXCEPT !.nextTx = a], z)
  BY DEF Retains, Fits, Loose, Clean, Kept, Calm, Late
<1> QED BY <1>1, NewAckFits, RetainsSelf DEF ProcessAck

LEMMA ReTxTimeoutFits ==
  ASSUME NEW z \in 1..N, NEW s, Fits(s, z), s.state # "SYN_SENT"
  PROVE  Retains(s, ReTxTimeout(s), z)
<1> DEFINE w == s.told \cup {"error"}
           u == s.head..(s.txEnd - 1)
           one == 1
           d == s.dataRetr - 1
           backOff == [s EXCEPT !.dataRetr = @ - 1, !.unsent = s.head..(s.txEnd - 1),
                                !.window = 1, !.recover = s.highTx]
<1>1. Retains(s, [s EXCEPT !.told = w], z)
  <2>1. w \in Calls BY DEF Fits, Loose, Calls
  <2> HIDE DEF w
  <2> QED BY <2>1 DEF Retains, Fits, Loose, Clean, Kept, Calm, Late
<1>2. Retains(s, DeallocateEndPoint([s EXCEPT !.told = w]), z)
  <2> HIDE DEF w
  <2> QED BY <1>1, DeallocateFits, RetainsTrans DEF Retains
<1>3. Retains(s, backOff, z)
  <2>1. u \in Pieces(z) /\ one \in Nat /\ d \in Int /\ s.highTx \in Nat
    BY DEF Fits, Loose, Pieces
  <2>2. backOff = [s EXCEPT !.dataRetr = d, !.unsent = u, !.window = one,
                            !.recover = s.highTx]
    OBVIOUS
  <2> HIDE DEF u, one, d, backOff
  <2> QED BY Zenon, <2>1, <2>2 DEF Retains, Fits, Loose, Clean, Kept, Calm, Late
<1>4. Retains(s, SendPendingData(backOff), z)
  <2> HIDE DEF backOff
  <2> QED BY <1>3, SendPendingDataFits, RetainsTrans DEF Retains
<1>5. Retains(s, SendEmptyPacket(s, FIN), z) BY SendEmptyPacketFits
<1>6. ReTxTimeout(s) \in {s, SendEmptyPacket(s, FIN), SendPendingData(backOff),
                          DeallocateEndPoint([s EXCEPT !.told = w])}
  BY DEF ReTxTimeout
<1> HIDE DEF backOff, w
<1> QED BY <1>2, <1>4, <1>5, <1>6, RetainsSelf

LEMMA FireRetxFits ==
  ASSUME NEW z \in 1..N, NEW s, Fits(s, z), Calm(s), s.retx # NoFlag
  PROVE  Retains(s, FireRetx(s), z)
<1> DEFINE fired == [s EXCEPT !.retx = NoFlag]
<1>1. Retains(s, fired, z) /\ fired.state = s.state
  BY DEF Retains, Fits, Loose, Clean, Kept, Calm, Late, Events, NoFlag, SYN
<1>2. s.retx = RTO \/ s.retx \in {SYNACK, FINACK}
  BY DEF Fits, Loose, Events, Calm
<1>3. FireRetx(s) = IF s.retx = RTO THEN ReTxTimeout(fired) ELSE SendEmptyPacket(fired, s.retx)
  BY DEF FireRetx
<1> HIDE DEF fired
<1>4. Retains(s, ReTxTimeout(fired), z)
  BY <1>1, ReTxTimeoutFits, RetainsTrans DEF Retains, Calm
<1>5. s.retx # RTO => Retains(s, SendEmptyPacket(fired, s.retx), z)
  BY <1>1, <1>2, SendEmptyPacketFits, RetainsTrans DEF Retains
<1> QED BY <1>3, <1>4, <1>5

LEMMA DelAckTimeoutFits ==
  ASSUME NEW z \in 1..N, NEW s, Fits(s, z)
  PROVE  Retains(s, DelAckTimeout(s), z)
<1> DEFINE none == 0
           t == [s EXCEPT !.delAck = none, !.delAckEvent = FALSE]
<1>1. Retains(s, t, z)
  <2>1. none \in Int OBVIOUS
  <2> HIDE DEF none
  <2> QED BY <2>1 DEF Retains, Fits, Loose, Clean, Kept, Calm, Late
<1>2. DelAckTimeout(s) = SendEmptyPacket(t, ACK) BY DEF DelAckTimeout
<1> HIDE DEF t
<1> QED BY <1>1, <1>2, SendEmptyPacketFits, RetainsTrans DEF Retains

LEMMA LastAckTimeoutFits ==
  ASSUME NEW z \in 1..N, NEW s, Fits(s, z)
  PROVE  Retains(s, LastAckTimeout(s), z)
<1> DEFINE t == [s EXCEPT !.lastAckEvent = FALSE]
<1>1. Retains(s, t, z)
  BY DEF Retains, Fits, Loose, Clean, Kept, Calm, Late
<1>2. LastAckTimeout(s) = IF s.state = "LAST_ACK" THEN CloseAndNotify(t) ELSE t
  BY DEF LastAckTimeout
<1> HIDE DEF t
<1> QED BY <1>1, <1>2, CloseAndNotifyFits, RetainsTrans DEF Retains

LEMMA PendingFits ==
  ASSUME NEW z \in 1..N, NEW s, Fits(s, z)
  PROVE  Retains(s, SendPendingData([s EXCEPT !.pendingEvent = FALSE]), z)
<1> DEFINE t == [s EXCEPT !.pendingEvent = FALSE]
<1>1. Retains(s, t, z)
  BY DEF Retains, Fits, Loose, Clean, Kept, Calm, Late
<1> HIDE DEF t
<1>2. Retains(s, SendPendingData(t), z)
  BY <1>1, SendPendingDataFits, RetainsTrans DEF Retains
<1> QED BY <1>2 DEF t

\* t has received at least what s had.
Gains(s, t, z) ==
  /\ Fits(t, z)
  /\ Calm(s) => Calm(t)
  /\ t.accepted = s.accepted /\ t.txEnd = s.txEnd /\ t.shutdownSend = s.shutdownSend
  /\ t.rxNext >= s.rxNext /\ t.read >= s.read
  /\ t.state = "SYN_RCVD" => s.state = "SYN_RCVD"

LEMMA GainsTrans ==
  ASSUME NEW z, NEW s, NEW t, NEW u, Fits(s, z), Gains(s, t, z), Gains(t, u, z)
  PROVE  Gains(s, u, z)
BY DEF Gains, Fits, Loose, Upto

LEMMA RetainsGains ==
  ASSUME NEW z, NEW s, NEW t, Fits(s, z), Retains(s, t, z)
  PROVE  Gains(s, t, z)
BY DEF Gains, Retains, Kept, Fits, Loose, Upto

LEMMA GainsSelf == ASSUME NEW z, NEW s, Fits(s, z) PROVE Gains(s, s, z)
BY DEF Gains, Fits, Loose, Upto

\* The socket of the sink: it has read all that came in order, and waits for
\* no FIN that comes before the end of the flow.
Reader(s, z) ==
  /\ s.rxNext >= 1
  /\ s.rxNext \notin s.early
  /\ s.rxNext <= z => s.read = s.rxNext - 1
  /\ s.rxNext > z => s.read = z
  /\ s.fin = NoFin \/ s.fin > z \/ (s.fin = z /\ (z \in s.early \/ s.rxNext > z))
  /\ s.state \in Late => s.read = z

\* A FIN comes after the last segment of the flow or with it.
FinLast(m, z) == "FIN" \in m.flags => m.seq + m.len > z

LEMMA RetainsReader ==
  ASSUME NEW z, NEW s, NEW t, Reader(s, z), Retains(s, t, z)
  PROVE  Reader(t, z)
BY DEF Reader, Retains, Kept

LEMMA FinishedReader ==
  ASSUME NEW z \in 1..N, NEW s, Fits(s, z), Reader(s, z), Finished(s)
  PROVE  s.read = z
BY DEF Reader, Finished, Fits, Loose

\* What Buffered finds next: the first segment that is missing.
FirstMissing(s, m) ==
  CHOOSE q \in s.rxNext..(N + 2) :
    q \notin (s.early \cup {m.seq}) /\ (s.rxNext..(q - 1)) \subseteq (s.early \cup {m.seq})

LEMMA NextFact ==
  ASSUME NEW z \in 1..N, NEW s, Fits(s, z), NEW m \in Cargo(z), ~NothingToBuffer(s, m)
  PROVE  LET have == s.early \cup {m.seq}
             next == FirstMissing(s, m)
         IN  /\ next \in Nat /\ s.rxNext <= next /\ next <= z + 1
             /\ next \notin have
             /\ \A q \in Nat : s.rxNext <= q /\ q < next => q \in have
<1> DEFINE have == s.early \cup {m.seq}
           P(q) == q \notin have /\ (s.rxNext..(q - 1)) \subseteq have
<1>1. /\ m.seq \in 1..z /\ s.rxNext <= m.seq /\ have \subseteq 1..z /\ s.rxNext \in Nat
  BY DEF Fits, Loose, Pieces, NothingToBuffer, Cargo
<1>2. N \in 1..2 BY TcpConnectionAssumption
<1> HIDE DEF have
<1>3. \E q \in s.rxNext..(N + 2) : P(q)
  <2>1. CASE s.rxNext \notin have
    <3>1. P(s.rxNext) BY <1>1, <2>1
    <3> QED BY <1>1, <1>2, <3>1
  <2>2. CASE s.rxNext \in have /\ s.rxNext + 1 \notin have
    <3>1. P(s.rxNext + 1) BY <1>1, <2>2
    <3> QED BY <1>1, <1>2, <3>1
  <2>3. CASE s.rxNext \in have /\ s.rxNext + 1 \in have
    <3>1. s.rxNext = 1 /\ z = 2 /\ N = 2 BY <1>1, <1>2, <2>3
    <3>2. P(3) BY <1>1, <2>3, <3>1
    <3> QED BY <3>1, <3>2
  <2> QED BY <2>1, <2>2, <2>3
<1>4. FirstMissing(s, m) = CHOOSE q \in s.rxNext..(N + 2) : P(q) BY DEF FirstMissing, have
<1> DEFINE next == FirstMissing(s, m)
<1>5. next \in s.rxNext..(N + 2) /\ P(next)
  <2> HIDE DEF P
  <2> QED BY <1>3, <1>4
<1> HIDE DEF next
<1>6. next \in Nat /\ s.rxNext <= next /\ next \notin have
      /\ \A q \in Nat : s.rxNext <= q /\ q < next => q \in have
  BY <1>1, <1>2, <1>5
<1>7. next <= z + 1
  <2>1. CASE next > z + 1
    <3>1. z + 1 \in have BY <1>1, <1>6, <2>1
    <3> QED BY <1>1, <3>1
  <2> QED BY <1>1, <1>6, <2>1
<1> QED BY <1>6, <1>7 DEF next, have

LEMMA BufferedFits ==
  ASSUME NEW z \in 1..N, NEW s, Fits(s, z), NEW m \in Cargo(z), ~NothingToBuffer(s, m)
  PROVE  /\ Gains(s, Buffered(s, m), z)
         /\ Reader(s, z) => Reader(Buffered(s, m), z)
<1> DEFINE have == s.early \cup {m.seq}
           next == FirstMissing(s, m)
           e == {q \in have : q > next}
           x == IF next = s.fin THEN next + 1 ELSE next
           r == s.read + (next - s.rxNext)
           t == [s EXCEPT !.early = e, !.rxNext = x, !.read = r]
<1>1. Buffered(s, m) = t BY DEF Buffered, FirstMissing
<1>2. m.seq \in 1..z /\ s.rxNext <= m.seq /\ s.rxNext \in Nat /\ have \subseteq 1..z
      /\ s.read \in 0..z /\ s.fin \in Int
  BY DEF Fits, Loose, Pieces, Upto, NothingToBuffer, Cargo
<1>3. next \in Nat /\ s.rxNext <= next /\ next <= z + 1 /\ next \notin have
      /\ \A q \in Nat : s.rxNext <= q /\ q < next => q \in have
  BY NextFact
<1> HIDE DEF have, next
<1>4. e \in Pieces(z) BY <1>2 DEF Pieces
<1>5. x \in Nat /\ x >= s.rxNext BY <1>3, <1>2
<1>6. s.read = 0 \/ s.read < s.rxNext BY DEF Fits
<1>7. r \in Upto(z) /\ r >= s.read
  BY <1>2, <1>3, <1>6 DEF Upto
<1>8. r = 0 \/ r < x BY <1>2, <1>3, <1>6
<1> HIDE DEF e, x, r
<1>9. t \in Loose(z) BY <1>4, <1>5, <1>7 DEF Fits, Loose
<1>10. /\ t.read = r /\ t.rxNext = x /\ t.early = e /\ t.fin = s.fin /\ t.state = s.state
       /\ t.head = s.head /\ t.txEnd = s.txEnd /\ t.out = s.out /\ t.retx = s.retx
       /\ t.accepted = s.accepted /\ t.shutdownSend = s.shutdownSend
  BY DEF Fits, Loose
<1> HIDE DEF t
<1>11. Clean(t)
  <2> SUFFICES ASSUME NEW k \in DOMAIN s.out
               PROVE  s.out[k].flags # SYN /\ ("RST" \in s.out[k].flags \/ s.out[k].ack <= x)
    BY <1>10 DEF Clean
  <2>1. s.out[k].flags # SYN /\ ("RST" \in s.out[k].flags \/ s.out[k].ack <= s.rxNext)
    BY DEF Fits, Clean
  <2>2. s.out[k].ack \in Nat BY SMTT(30) DEF Fits, Loose, Sent, Cargo
  <2> QED BY <1>2, <1>5, <2>1, <2>2
<1>12. Gains(s, t, z)
  BY <1>5, <1>7, <1>8, <1>9, <1>10, <1>11 DEF Gains, Fits, Calm
<1>13. ASSUME Reader(s, z) PROVE Reader(t, z)
  <2>1. s.rxNext = s.read + 1 /\ s.rxNext >= 1 /\ s.read # z BY <1>2, <1>13 DEF Reader
  <2>2. r = next - 1 BY <1>2, <1>3, <2>1 DEF r
  <2>3. s.state \notin Late BY <1>13, <2>1 DEF Reader
  <2>4. s.fin = NoFin \/ s.fin > z \/ (s.fin = z /\ z \in s.early)
    BY <1>2, <1>13 DEF Reader
  <2>5. next # s.fin \/ next = z + 1
    BY <1>2, <1>3, <2>4 DEF have, NoFin
  <2>6. (x <= z => r = x - 1) /\ (x > z => r = z) /\ x >= 1
    BY <1>2, <1>3, <2>1, <2>2, <2>5 DEF x
  <2>7. x \notin e BY <1>2, <1>3, <2>5 DEF x, e
  <2>8. z \in s.early => z \in e \/ x > z
    BY <1>2, <1>3, <1>5 DEF e, have, x
  <2> QED BY <1>10, <2>3, <2>4, <2>6, <2>7, <2>8 DEF Reader
<1> QED BY <1>1, <1>12, <1>13

\* m has arrived at s: it was read, or it waits for what is missing.
Got(s, m) == m.seq \in s.early \/ m.seq < s.rxNext

LEMMA SetFinSequenceFits ==
  ASSUME NEW z \in 1..N, NEW s, Fits(s, z), NEW f \in Nat
  PROVE  /\ Gains(s, SetFinSequence(s, f), z)
         /\ Reader(s, z) /\ (f > z \/ (f = z /\ (z \in s.early \/ z < s.rxNext)))
              => Reader(SetFinSequence(s, f), z)
<1> DEFINE x == IF s.rxNext = f THEN f + 1 ELSE s.rxNext
           t == [s EXCEPT !.fin = f, !.rxNext = x]
<1>1. SetFinSequence(s, f) = t BY DEF SetFinSequence
<1>2. x \in Nat /\ x >= s.rxNext /\ s.rxNext \in Nat BY DEF Fits, Loose
<1>3. f \in Int /\ f # NoFin BY DEF NoFin
<1> HIDE DEF x
<1>4. t \in Loose(z) BY <1>2, <1>3 DEF Fits, Loose
<1>5. /\ t.read = s.read /\ t.rxNext = x /\ t.early = s.early /\ t.fin = f
      /\ t.state = s.state /\ t.head = s.head /\ t.txEnd = s.txEnd /\ t.out = s.out
      /\ t.retx = s.retx /\ t.accepted = s.accepted /\ t.shutdownSend = s.shutdownSend
  BY DEF Fits, Loose
<1>6. s.read \in 0..z /\ s.early \subseteq 1..z BY DEF Fits, Loose, Upto, Pieces
<1> HIDE DEF t
<1>7. Clean(t)
  <2> SUFFICES ASSUME NEW k \in DOMAIN s.out
               PROVE  s.out[k].flags # SYN /\ ("RST" \in s.out[k].flags \/ s.out[k].ack <= x)
    BY <1>5 DEF Clean
  <2>1. s.out[k].flags # SYN /\ ("RST" \in s.out[k].flags \/ s.out[k].ack <= s.rxNext)
    BY DEF Fits, Clean
  <2>2. s.out[k].ack \in Nat BY DEF Fits, Loose, Sent, Cargo
  <2> QED BY <1>2, <2>1, <2>2
<1>8. Gains(s, t, z)
  <2>1. t.read = 0 \/ t.read < t.rxNext BY <1>2, <1>5, <1>6 DEF Fits
  <2> QED BY <1>2, <1>4, <1>5, <1>6, <1>7, <2>1 DEF Gains, Fits, Calm
<1>9. ASSUME Reader(s, z), f > z \/ (f = z /\ (z \in s.early \/ z < s.rxNext))
      PROVE  Reader(t, z)
  <2>1. s.rxNext = f => f > z BY <1>2, <1>9 DEF Reader
  <2>2. x \notin s.early BY <1>2, <1>6, <1>9, <2>1 DEF Reader, x
  <2>3. (x <= z => s.read = x - 1) /\ (x > z => s.read = z) /\ x >= 1
    BY <1>2, <1>9, <2>1 DEF Reader, x
  <2>4. f > z \/ (f = z /\ (z \in s.early \/ x > z)) BY <1>2, <1>9
  <2>5. s.state \in Late => s.read = z BY <1>9 DEF Reader
  <2> QED BY <1>5, <2>2, <2>3, <2>4, <2>5 DEF Reader
<1> QED BY <1>1, <1>8, <1>9

LEMMA PeerClosed ==
  ASSUME NEW z \in 1..N, NEW s, Fits(s, z)
  PROVE  /\ Gains(s, DoPeerClose(s), z)
         /\ DoPeerClose(s).state # "SYN_RCVD"
         /\ Reader(s, z) /\ Finished(s) => Reader(DoPeerClose(s), z)
<1> DEFINE x == [s EXCEPT !.state = "CLOSE_WAIT"]
           t == DoPeerClose(s)
<1>1. Fits(x, z) /\ (Calm(s) => Calm(x)) BY TurnFits DEF State
<1>2. Retains(x, t, z) BY DoPeerCloseFits
<1>3. Gains(x, t, z) BY <1>1, <1>2, RetainsGains
<1>4. /\ x.accepted = s.accepted /\ x.txEnd = s.txEnd /\ x.shutdownSend = s.shutdownSend
      /\ x.rxNext = s.rxNext /\ x.read = s.read /\ x.state = "CLOSE_WAIT"
      /\ x.early = s.early /\ x.fin = s.fin
  BY DEF Fits, Loose
<1> HIDE DEF x, t
<1>5. t.state # "SYN_RCVD" BY <1>2, <1>4 DEF Retains, Kept
<1>6. Gains(s, t, z) BY <1>1, <1>3, <1>4, <1>5 DEF Gains
<1>7. ASSUME Reader(s, z), Finished(s) PROVE Reader(t, z)
  <2>1. s.read = z BY <1>7, FinishedReader
  <2>2. Reader(x, z) BY <1>4, <1>7, <2>1 DEF Reader
  <2> QED BY <1>2, <2>2, RetainsReader
<1> QED BY <1>5, <1>6, <1>7 DEF t

LEMMA ReceivedDataFits ==
  ASSUME NEW z \in 1..N, NEW s, Fits(s, z), NEW m \in Cargo(z), m.len > 0
  PROVE  /\ Gains(s, ReceivedData(s, m), z)
         /\ Reader(s, z) => Reader(ReceivedData(s, m), z)
         /\ "FIN" \in m.flags => Got(ReceivedData(s, m), m)
<1>1. CASE NothingToBuffer(s, m)
  <2>1. ReceivedData(s, m) = SendEmptyPacket(s, ACK) BY <1>1 DEF ReceivedData
  <2>2. Retains(s, SendEmptyPacket(s, ACK), z) BY SendEmptyPacketFits
  <2>3. Got(s, m) BY <1>1 DEF NothingToBuffer, Got, Cargo
  <2>4. Got(SendEmptyPacket(s, ACK), m) BY <2>2, <2>3 DEF Retains, Kept, Got
  <2> QED BY <2>1, <2>2, <2>4, RetainsGains, RetainsReader
<1>2. CASE ~NothingToBuffer(s, m)
  <2> DEFINE r == Buffered(s, m)
  <2>1. Gains(s, r, z) /\ (Reader(s, z) => Reader(r, z)) BY <1>2, BufferedFits
  <2>2. Fits(r, z) BY <2>1 DEF Gains
  <2>3. Got(r, m)
    <3> DEFINE have == s.early \cup {m.seq}
               next == FirstMissing(s, m)
               e == {q \in have : q > next}
               x == IF next = s.fin THEN next + 1 ELSE next
    <3>1. next \in Nat /\ next # m.seq /\ m.seq \in Nat
      BY <1>2, NextFact DEF Cargo
    <3>2. r.early = e /\ r.rxNext = x
      BY DEF Buffered, FirstMissing, Fits, Loose
    <3> HIDE DEF next, r
    <3>3. CASE m.seq > next BY <3>2, <3>3 DEF Got
    <3>4. CASE m.seq < next BY <3>1, <3>2, <3>4 DEF Got
    <3> QED BY <3>1, <3>3, <3>4
  <2> DEFINE d == r.delAck + 1
             u == [r EXCEPT !.delAck = @ + 1, !.delAckEvent = TRUE]
  <2>4. Retains(r, u, z)
    <3> HIDE DEF r
    <3>1. d \in Int BY <2>2 DEF Fits, Loose
    <3>2. u = [r EXCEPT !.delAck = d, !.delAckEvent = TRUE] OBVIOUS
    <3> HIDE DEF d, u
    <3> QED BY Zenon, <2>2, <3>1, <3>2 DEF Retains, Fits, Loose, Clean, Kept, Calm, Late
  <2>5. Retains(r, SendEmptyPacket(r, ACK), z) BY <2>2, SendEmptyPacketFits
  <2>6. CASE Finished(r) /\ "FIN" \notin m.flags /\ ReceivedData(s, m) = DoPeerClose(r)
    <3> HIDE DEF r
    <3>1. Gains(r, DoPeerClose(r), z) /\ (Reader(r, z) => Reader(DoPeerClose(r), z))
      BY <2>2, <2>6, PeerClosed
    <3>2. Gains(s, DoPeerClose(r), z) BY <2>1, <3>1, GainsTrans
    <3> QED BY <2>1, <2>6, <3>1, <3>2
  <2>7. CASE ReceivedData(s, m) \in {u, SendEmptyPacket(r, ACK)}
    <3> DEFINE t == ReceivedData(s, m)
    <3>1. Retains(r, t, z) BY <2>4, <2>5, <2>7
    <3> HIDE DEF r, t
    <3>2. Gains(s, t, z) BY <2>1, <2>2, <3>1, RetainsGains, GainsTrans
    <3>3. Reader(s, z) => Reader(t, z) BY <2>1, <3>1, RetainsReader
    <3>4. Got(t, m) BY <2>3, <3>1 DEF Got, Retains, Kept
    <3> QED BY <3>2, <3>3, <3>4 DEF t
  <2>8. \/ Finished(r) /\ "FIN" \notin m.flags /\ ReceivedData(s, m) = DoPeerClose(r)
        \/ ReceivedData(s, m) \in {u, SendEmptyPacket(r, ACK)}
    BY <1>2 DEF ReceivedData
  <2> QED BY <2>6, <2>7, <2>8
<1> QED BY <1>1, <1>2

LEMMA ReceivedAckIs ==
  ASSUME NEW s, NEW m
  PROVE  LET acked == ProcessAck(DiscardUpTo(s, m.ack), m.ack, s.head)
             filled == IF m.len > 0 THEN ReceivedData(acked, m) ELSE acked
         IN  ReceivedAck(s, m) = SendPendingData(filled)
BY DEF ReceivedAck, Then

LEMMA ReceivedAckFits ==
  ASSUME NEW z \in 1..N, NEW s, Fits(s, z), NEW m \in Cargo(z)
  PROVE  /\ Gains(s, ReceivedAck(s, m), z)
         /\ Reader(s, z) => Reader(ReceivedAck(s, m), z)
         /\ "FIN" \in m.flags /\ m.len = 1 => Got(ReceivedAck(s, m), m)
<1> DEFINE d == DiscardUpTo(s, m.ack)
           acked == ProcessAck(d, m.ack, s.head)
           filled == IF m.len > 0 THEN ReceivedData(acked, m) ELSE acked
           t == SendPendingData(filled)
<1>1. m.ack \in Nat /\ m.len \in {0, 1} BY DEF Cargo
<1>2. Retains(s, d, z) BY <1>1, DiscardUpToFits
<1>3. Retains(s, acked, z)
  <2> HIDE DEF d
  <2>1. Retains(d, acked, z) BY <1>1, <1>2, ProcessAckFits DEF Retains
  <2> HIDE DEF acked
  <2> QED BY <1>2, <2>1, RetainsTrans
<1>4. ReceivedAck(s, m) = t BY ReceivedAckIs
<1> HIDE DEF d, acked
<1>5. Fits(acked, z) /\ Gains(s, acked, z) /\ (Reader(s, z) => Reader(acked, z))
  BY <1>3, RetainsGains, RetainsReader DEF Retains
<1>6. /\ Gains(s, filled, z) /\ (Reader(s, z) => Reader(filled, z))
      /\ "FIN" \in m.flags /\ m.len = 1 => Got(filled, m)
  <2>1. CASE m.len > 0
    <3> DEFINE r == ReceivedData(acked, m)
    <3>1. /\ Gains(acked, r, z) /\ (Reader(acked, z) => Reader(r, z))
          /\ "FIN" \in m.flags => Got(r, m)
      BY <1>5, <2>1, ReceivedDataFits
    <3>2. filled = r BY <2>1
    <3> HIDE DEF r, filled
    <3> QED BY <1>5, <3>1, <3>2, GainsTrans
  <2>2. CASE m.len = 0
    <3>1. filled = acked BY <2>2
    <3> HIDE DEF filled
    <3> QED BY <1>5, <2>2, <3>1
  <2> QED BY <1>1, <2>1, <2>2
<1> HIDE DEF filled
<1>7. Fits(filled, z) BY <1>6 DEF Gains
<1>8. Retains(filled, t, z) BY <1>7, SendPendingDataFits
<1> HIDE DEF t
<1>9. Gains(s, t, z) BY <1>6, <1>7, <1>8, RetainsGains, GainsTrans
<1>10. Reader(s, z) => Reader(t, z) BY <1>6, <1>8, RetainsReader
<1>11. "FIN" \in m.flags /\ m.len = 1 => Got(t, m)
  BY <1>6, <1>8 DEF Got, Retains, Kept
<1> QED BY <1>4, <1>9, <1>10, <1>11

\* The receiver of a FIN: what PeerClose does, and that the first segment of a
\* connection closes it when it carries one.
LEMMA PeerCloseFits ==
  ASSUME NEW z \in 1..N, NEW s, Fits(s, z), NEW m \in Cargo(z), "FIN" \in m.flags
  PROVE  /\ Gains(s, PeerClose(s, m), z)
         /\ Reader(s, z) /\ FinLast(m, z) => Reader(PeerClose(s, m), z)
         /\ m.seq = s.rxNext /\ s.early = {} /\ s.fin = NoFin
              => PeerClose(s, m).state # "SYN_RCVD"
<1> DEFINE marked == SetFinSequence(s, m.seq + m.len)
           filled == IF m.len > 0 THEN ReceivedData(marked, m) ELSE marked
           t == IF filled.state = "FIN_WAIT_1" THEN [filled EXCEPT !.state = "CLOSING"]
                ELSE DoPeerClose(filled)
           refused == m.seq < s.rxNext \/ (s.fin # NoFin /\ m.seq > s.fin)
<1>1. PeerClose(s, m) = IF refused THEN s ELSE IF ~Finished(filled) THEN filled ELSE t
  BY DEF PeerClose
<1>2. m.seq \in Nat /\ m.len \in {0, 1} /\ m.seq + m.len \in Nat BY DEF Cargo
<1>3. Gains(s, marked, z) /\ (Reader(s, z) /\ FinLast(m, z) => Reader(marked, z))
  BY <1>2, SetFinSequenceFits DEF FinLast
<1>4. Fits(marked, z) BY <1>3 DEF Gains
<1>5. /\ Gains(s, filled, z)
      /\ Reader(s, z) /\ FinLast(m, z) => Reader(filled, z)
  <2>1. CASE m.len > 0
    <3> DEFINE r == ReceivedData(marked, m)
    <3> HIDE DEF marked
    <3>1. Gains(marked, r, z) /\ (Reader(marked, z) => Reader(r, z))
      BY <1>4, <2>1, ReceivedDataFits
    <3>2. filled = r BY <2>1
    <3> HIDE DEF r, filled
    <3> QED BY <1>3, <3>1, <3>2, GainsTrans
  <2>2. CASE m.len = 0
    <3> HIDE DEF marked
    <3>1. filled = marked BY <2>2
    <3> HIDE DEF filled
    <3> QED BY <1>3, <3>1
  <2> QED BY <1>2, <2>1, <2>2
<1>6. Fits(filled, z) BY <1>5 DEF Gains
<1>7. ASSUME Finished(filled)
      PROVE  /\ Gains(s, t, z) /\ t.state # "SYN_RCVD"
             /\ Reader(s, z) /\ FinLast(m, z) => Reader(t, z)
  <2> HIDE DEF filled
  <2>1. CASE filled.state = "FIN_WAIT_1"
    <3> DEFINE c == [filled EXCEPT !.state = "CLOSING"]
    <3>1. Fits(c, z) /\ (Calm(filled) => Calm(c)) BY <1>6, TurnFits DEF State
    <3>2. /\ c.accepted = filled.accepted /\ c.txEnd = filled.txEnd
          /\ c.shutdownSend = filled.shutdownSend /\ c.rxNext = filled.rxNext
          /\ c.read = filled.read /\ c.state = "CLOSING" /\ c.early = filled.early
          /\ c.fin = filled.fin
      BY <1>6 DEF Fits, Loose
    <3>3. t = c BY <2>1
    <3> HIDE DEF c, t
    <3>4. Gains(s, c, z) BY <1>5, <3>1, <3>2 DEF Gains
    <3>5. Reader(filled, z) => Reader(c, z)
      BY <1>6, <1>7, <3>2, FinishedReader DEF Reader
    <3> QED BY <1>5, <3>2, <3>3, <3>4, <3>5
  <2>2. CASE filled.state # "FIN_WAIT_1"
    <3> DEFINE c == DoPeerClose(filled)
    <3>1. /\ Gains(filled, c, z) /\ c.state # "SYN_RCVD"
          /\ Reader(filled, z) => Reader(c, z)
      BY <1>6, <1>7, PeerClosed
    <3>2. t = c BY <2>2
    <3> HIDE DEF c, t
    <3> QED BY <1>5, <3>1, <3>2, GainsTrans
  <2> QED BY <2>1, <2>2
<1>8. ASSUME m.seq = s.rxNext, s.early = {}, s.fin = NoFin
      PROVE  ~refused /\ Finished(filled)
  <2>1. ~refused BY <1>2, <1>8
  <2>2. CASE m.len = 0
    <3>1. filled = marked BY <2>2
    <3>2. marked.fin = m.seq /\ marked.rxNext = m.seq + 1
      BY <1>2, <1>8, <2>2 DEF SetFinSequence, Fits, Loose
    <3> HIDE DEF filled, marked
    <3> QED BY <1>2, <2>1, <3>1, <3>2 DEF Finished, NoFin
  <2>3. CASE m.len = 1
    <3>1. /\ marked.fin = m.seq + 1 /\ marked.rxNext = m.seq /\ marked.early = {}
      BY <1>2, <1>8, <2>3 DEF SetFinSequence, Fits, Loose
    <3>2. filled = ReceivedData(marked, m) BY <2>3
    <3> HIDE DEF marked, filled
    <3> DEFINE r == Buffered(marked, m)
               next == FirstMissing(marked, m)
    <3>3. ~NothingToBuffer(marked, m) BY <1>2, <2>3, <3>1 DEF NothingToBuffer
    <3>4. next = m.seq + 1
      <4>1. next \in Nat /\ marked.rxNext <= next /\ next \notin {m.seq}
            /\ \A q \in Nat : marked.rxNext <= q /\ q < next => q \in {m.seq}
        BY <1>4, <3>1, <3>3, NextFact
      <4>2. next > m.seq BY <1>2, <3>1, <4>1
      <4>3. CASE next > m.seq + 1
        <5>1. m.seq + 1 \in {m.seq} BY <1>2, <3>1, <4>1, <4>3
        <5> QED BY <1>2, <5>1
      <4> QED BY <1>2, <4>1, <4>2, <4>3
    <3>5. r.fin = m.seq + 1 /\ r.rxNext = m.seq + 2
      <4>1. /\ r.fin = marked.fin
            /\ r.rxNext = IF next = marked.fin THEN next + 1 ELSE next
        BY <1>4 DEF Buffered, FirstMissing, Fits, Loose
      <4> HIDE DEF r, next
      <4> QED BY <1>2, <3>1, <3>4, <4>1
    <3>6. Gains(marked, r, z) BY <1>4, <3>3, BufferedFits
    <3>7. Fits(r, z) BY <3>6 DEF Gains
    <3> DEFINE d == r.delAck + 1
               u == [r EXCEPT !.delAck = @ + 1, !.delAckEvent = TRUE]
    <3>8. filled \in {u, SendEmptyPacket(r, ACK)} BY <3>2, <3>3 DEF ReceivedData
    <3>9. u.fin = r.fin /\ u.rxNext = r.rxNext
      <4> HIDE DEF r
      <4> QED BY <3>7 DEF Fits, Loose
    <3>10. Retains(r, SendEmptyPacket(r, ACK), z) BY <3>7, SendEmptyPacketFits
    <3> HIDE DEF u, r
    <3>11. filled.fin = m.seq + 1 /\ filled.rxNext = m.seq + 2
      BY <3>5, <3>8, <3>9, <3>10 DEF Retains, Kept
    <3> QED BY <1>2, <2>1, <3>11 DEF Finished, NoFin
  <2> QED BY <1>2, <2>2, <2>3
<1> HIDE DEF t, filled, refused
<1> QED BY <1>1, <1>5, <1>7, <1>8, GainsSelf

Closable == {"ESTABLISHED", "FIN_WAIT_1", "FIN_WAIT_2", "CLOSE_WAIT"}

\* What one step of the state machine does to a socket that is past its SYN.
Advances(s, t, z, m) ==
  Gains(s, t, z) /\ (Reader(s, z) /\ FinLast(m, z) => Reader(t, z))

LEMMA RetainsAdvances ==
  ASSUME NEW z, NEW s, NEW t, NEW m, Fits(s, z), Retains(s, t, z)
  PROVE  Advances(s, t, z, m)
BY RetainsGains, RetainsReader DEF Advances

LEMMA AdvancesTrans ==
  ASSUME NEW z, NEW s, NEW t, NEW u, NEW m, Fits(s, z), Advances(s, t, z, m), Advances(t, u, z, m)
  PROVE  Advances(s, u, z, m)
BY GainsTrans DEF Advances

LEMMA AdvancesSelf == ASSUME NEW z, NEW s, NEW m, Fits(s, z) PROVE Advances(s, s, z, m)
BY GainsSelf DEF Advances

\* A change of state alone: into one that follows the FIN of the peer only
\* when the whole flow has come.
LEMMA TurnAdvances ==
  ASSUME NEW z \in 1..N, NEW s, NEW m, Fits(s, z), NEW x \in State \ {"SYN_SENT", "SYN_RCVD"},
         Reader(s, z) /\ x \in Late => s.read = z
  PROVE  Advances(s, [s EXCEPT !.state = x], z, m)
<1> DEFINE t == [s EXCEPT !.state = x]
<1>1. Fits(t, z) /\ (Calm(s) => Calm(t)) BY TurnFits
<1>2. /\ t.accepted = s.accepted /\ t.txEnd = s.txEnd /\ t.shutdownSend = s.shutdownSend
      /\ t.rxNext = s.rxNext /\ t.read = s.read /\ t.state = x
      /\ t.early = s.early /\ t.fin = s.fin
      /\ s.rxNext \in Nat /\ s.read \in 0..z
  BY DEF Fits, Loose, Upto
<1> HIDE DEF t
<1>3. Gains(s, t, z) BY <1>1, <1>2 DEF Gains
<1>4. Reader(s, z) => Reader(t, z) BY <1>2 DEF Reader
<1> QED BY <1>3, <1>4 DEF Advances, t

LEMMA WaitedFits ==
  ASSUME NEW z \in 1..N, NEW s, Fits(s, z), NEW m \in Cargo(z)
  PROVE  Advances(s, Waited(s, m), z, m)
<1> DEFINE r == ReceivedAck(s, m)
           w == IF m.flags = FINACK THEN SetFinSequence(r, m.seq)
                ELSE IF r.state = "FIN_WAIT_1" /\ TxSize(r) = 0 /\ m.ack = r.highTx + 1
                     THEN [r EXCEPT !.state = "FIN_WAIT_2"]
                ELSE r
<1>1. Waited(s, m) = w BY DEF Waited, Then
<1>2. Advances(s, r, z, m) BY ReceivedAckFits DEF Advances
<1>3. "FIN" \in m.flags /\ m.len = 1 => Got(r, m) BY ReceivedAckFits
<1>4. Fits(r, z) BY <1>2 DEF Advances, Gains
<1>5. m.seq \in Nat /\ m.len \in {0, 1} /\ (m.len = 1 => m.seq \in 1..z) BY DEF Cargo
<1> HIDE DEF r
<1>6. CASE m.flags = FINACK
  <2>1. "FIN" \in m.flags BY <1>6, FlagsType
  <2>2. FinLast(m, z) => m.seq > z \/ (m.seq = z /\ (z \in r.early \/ z < r.rxNext))
    <3> SUFFICES ASSUME FinLast(m, z)
                 PROVE  m.seq > z \/ (m.seq = z /\ (z \in r.early \/ z < r.rxNext))
      OBVIOUS
    <3>1. m.seq + m.len > z BY <2>1 DEF FinLast
    <3>2. CASE m.len = 0 BY <1>5, <3>1, <3>2
    <3>3. CASE m.len = 1
      <4>1. m.seq = z BY <1>5, <3>1, <3>3
      <4>2. Got(r, m) BY <1>3, <2>1, <3>3
      <4> QED BY <4>1, <4>2 DEF Got
    <3> QED BY <1>5, <3>2, <3>3
  <2>3. Advances(r, SetFinSequence(r, m.seq), z, m)
    BY <1>4, <1>5, <2>2, SetFinSequenceFits DEF Advances
  <2> QED BY <1>1, <1>2, <1>6, <2>3, AdvancesTrans
<1>7. CASE m.flags # FINACK
  <2>1. Advances(r, [r EXCEPT !.state = "FIN_WAIT_2"], z, m)
    <3>1. "FIN_WAIT_2" \in State \ {"SYN_SENT", "SYN_RCVD"} /\ "FIN_WAIT_2" \notin Late
      BY DEF State, Late
    <3> QED BY <1>4, <3>1, TurnAdvances
  <2>2. Advances(s, [r EXCEPT !.state = "FIN_WAIT_2"], z, m) BY <1>2, <2>1, AdvancesTrans
  <2> QED BY <1>1, <1>2, <1>7, <2>2
<1> QED BY <1>6, <1>7

LEMMA FinCompleteFits ==
  ASSUME NEW z \in 1..N, NEW r, Fits(r, z), NEW m
  PROVE  Advances(r, FinComplete(r, m), z, m)
<1> DEFINE acked == TxSize(r) = 0 /\ m.ack = r.highTx + 1
           next == IF r.state = "FIN_WAIT_1" /\ ~acked THEN [r EXCEPT !.state = "CLOSING"]
                   ELSE TimeWait(r)
<1>1. FinComplete(r, m) = IF r.state \in {"FIN_WAIT_1", "FIN_WAIT_2"} /\ Finished(r)
                          THEN SendEmptyPacket(next, ACK) ELSE r
  BY DEF FinComplete
<1>2. ASSUME Finished(r) PROVE Advances(r, next, z, m)
  <2>1. Advances(r, [r EXCEPT !.state = "CLOSING"], z, m)
    BY <1>2, TurnAdvances, FinishedReader DEF State
  <2>2. Advances(r, TimeWait(r), z, m)
    <3> DEFINE x == [r EXCEPT !.state = "TIME_WAIT"]
    <3>1. Advances(r, x, z, m) BY <1>2, TurnAdvances, FinishedReader DEF State
    <3>2. Retains(x, TimeWait(r), z) BY TimeWaitFits
    <3> HIDE DEF x
    <3>3. Advances(x, TimeWait(r), z, m) BY <3>1, <3>2, RetainsAdvances DEF Advances, Gains
    <3> QED BY <3>1, <3>3, AdvancesTrans
  <2> QED BY <2>1, <2>2
<1> HIDE DEF next
<1>3. ASSUME Finished(r) PROVE Advances(r, SendEmptyPacket(next, ACK), z, m)
  <2>1. Advances(r, next, z, m) BY <1>2, <1>3
  <2>2. Fits(next, z) BY <2>1 DEF Advances, Gains
  <2>3. Advances(next, SendEmptyPacket(next, ACK), z, m)
    BY <2>2, SendEmptyPacketFits, RetainsAdvances
  <2> QED BY <2>1, <2>3, AdvancesTrans
<1> QED BY <1>1, <1>3, AdvancesSelf

LEMMA ProcessEstablishedFits ==
  ASSUME NEW z \in 1..N, NEW s, Fits(s, z), NEW m \in Cargo(z)
  PROVE  Advances(s, ProcessEstablished(s, m), z, m)
<1>1. Advances(s, SendEmptyPacket(s, ACK), z, m) BY SendEmptyPacketFits, RetainsAdvances
<1>2. Advances(s, ReceivedAck(s, m), z, m) BY ReceivedAckFits DEF Advances
<1>3. m.flags = FINACK => Advances(s, PeerClose(s, m), z, m)
  BY PeerCloseFits, FlagsType DEF Advances
<1>4. Advances(s, Refuse(s, m), z, m) BY RefuseFits, RetainsAdvances
<1> QED BY <1>1, <1>2, <1>3, <1>4, AdvancesSelf DEF ProcessEstablished

LEMMA ProcessWaitFits ==
  ASSUME NEW z \in 1..N, NEW s, Fits(s, z), NEW m \in Cargo(z)
  PROVE  Advances(s, ProcessWait(s, m), z, m)
<1> DEFINE w == Waited(s, m)
<1>1. Advances(s, w, z, m) BY WaitedFits
<1>2. Fits(w, z) BY <1>1 DEF Advances, Gains
<1>3. Advances(s, FinComplete(w, m), z, m)
  <2> HIDE DEF w
  <2> QED BY <1>1, <1>2, FinCompleteFits, AdvancesTrans
<1>4. Then(w, LAMBDA r : FinComplete(r, m)) = FinComplete(w, m) BY DEF Then
<1>5. Advances(s, Refuse(s, m), z, m) BY RefuseFits, RetainsAdvances
<1> QED BY <1>3, <1>4, <1>5, AdvancesSelf DEF ProcessWait

LEMMA ProcessClosingFits ==
  ASSUME NEW z \in 1..N, NEW s, Fits(s, z), NEW m, s.state = "CLOSING"
  PROVE  Advances(s, ProcessClosing(s, m), z, m)
<1>1. Advances(s, TimeWait(s), z, m)
  <2> DEFINE x == [s EXCEPT !.state = "TIME_WAIT"]
  <2>1. Advances(s, x, z, m) BY TurnAdvances DEF State, Reader, Late
  <2>2. Retains(x, TimeWait(s), z) BY TimeWaitFits
  <2> HIDE DEF x
  <2>3. Advances(x, TimeWait(s), z, m) BY <2>1, <2>2, RetainsAdvances DEF Advances, Gains
  <2> QED BY <2>1, <2>3, AdvancesTrans
<1>2. Advances(s, CloseAndNotify(SendEmptyPacket(s, ACK)), z, m)
  <2>1. Retains(s, SendEmptyPacket(s, ACK), z) BY SendEmptyPacketFits
  <2>2. Fits(SendEmptyPacket(s, ACK), z) BY <2>1 DEF Retains
  <2>3. Retains(SendEmptyPacket(s, ACK), CloseAndNotify(SendEmptyPacket(s, ACK)), z)
    BY <2>2, CloseAndNotifyFits
  <2> QED BY <2>1, <2>3, RetainsTrans, RetainsAdvances
<1>3. Advances(s, Refuse(s, m), z, m) BY RefuseFits, RetainsAdvances
<1> QED BY <1>1, <1>2, <1>3, AdvancesSelf DEF ProcessClosing

LEMMA ProcessLastAckFits ==
  ASSUME NEW z \in 1..N, NEW s, Fits(s, z), NEW m
  PROVE  Advances(s, ProcessLastAck(s, m), z, m)
<1>1. Advances(s, CloseAndNotify(s), z, m) BY CloseAndNotifyFits, RetainsAdvances
<1>2. Advances(s, Refuse(s, m), z, m) BY RefuseFits, RetainsAdvances
<1> QED BY <1>1, <1>2, AdvancesSelf DEF ProcessLastAck

\* Every segment, for a socket that is past its SYN.
LEMMA HandledFits ==
  ASSUME NEW z \in 1..N, NEW s, Fits(s, z), NEW m \in Cargo(z),
         s.state \notin {"SYN_SENT", "SYN_RCVD"}
  PROVE  Advances(s, Handled(s, m), z, m)
<1>1. Advances(s, SendEmptyPacket(s, ACK), z, m) BY SendEmptyPacketFits, RetainsAdvances
<1> QED
  BY <1>1, AdvancesSelf, ProcessEstablishedFits, ProcessWaitFits, ProcessClosingFits,
     ProcessLastAckFits DEF Handled, ProcessInState

LEMMA DoForwardUpFits ==
  ASSUME NEW z \in 1..N, NEW s, Fits(s, z), NEW m \in Cargo(z),
         s.state \notin {"SYN_SENT", "SYN_RCVD"}
  PROVE  Advances(s, DoForwardUp(s, m), z, m)
<1>1. s \in Loose(z) BY DEF Fits
<1>2. PICK r \in Windowed(s) : DoForwardUp(s, m) = Handled(r, m)
  BY <1>1, DoForwardUpHandled
<1>3. Fits(r, z) /\ r.state = s.state BY <1>1, <1>2, WindowedFacts, WindowedFits
<1>4. Advances(r, Handled(r, m), z, m) BY <1>3, HandledFits
<1> QED BY <1>1, <1>2, <1>4, WindowedFacts DEF Advances, Gains, Calm, Reader

LEMMA ConstantsType ==
  N \in Nat /\ SynRetries \in Int /\ DataRetries \in Int /\ DelAckMax \in Int /\ NoFin \in Int
BY TcpConnectionAssumption DEF NoFin

\* What ProcessSynRcvd makes of a socket whose SYN|ACK is acknowledged.
Accepted(s) ==
  SetHeadSequence([s EXCEPT !.retx = NoFlag, !.nextTx = @ + 1,
                            !.highTx = s.nextTx + 1, !.accepted = @ + 1], s.nextTx + 1)

LEMMA AcceptedFits ==
  ASSUME NEW z \in 1..N, NEW s, Fits(s, z), Calm(s), Forked(s)
  PROVE  /\ Fits(Accepted(s), z) /\ Calm(Accepted(s))
         /\ Accepted(s).early = {} /\ Accepted(s).fin = NoFin
         /\ Accepted(s).rxNext = s.rxNext /\ Accepted(s).read = s.read
         /\ Accepted(s).accepted = 1 /\ Accepted(s).state = s.state
<1> DEFINE n == s.nextTx + 1
           c == s.accepted + 1
           t == [s EXCEPT !.retx = NoFlag, !.nextTx = n, !.highTx = n, !.accepted = c,
                          !.head = n, !.txEnd = n]
<1>1. n \in Nat /\ c = 1 BY DEF Fits, Loose, Forked
<1>2. NoFlag \in Events /\ NoFlag # SYN BY DEF Events, NoFlag, SYN
<1>3. Accepted(s) = t BY DEF Accepted, SetHeadSequence, Fits, Loose
<1> HIDE DEF n, c
<1>4. t \in Loose(z) BY Zenon, <1>1, <1>2 DEF Fits, Loose
<1>5. /\ t.head = n /\ t.txEnd = n /\ t.read = s.read /\ t.rxNext = s.rxNext
      /\ t.early = s.early /\ t.fin = s.fin /\ t.accepted = c /\ t.state = s.state
      /\ t.out = s.out /\ t.retx = NoFlag
  BY DEF Fits, Loose
<1> HIDE DEF t
<1>6. t.head..(t.txEnd - 1) \subseteq 1..z BY <1>1, <1>5
<1>7. Fits(t, z) BY <1>4, <1>5, <1>6 DEF Fits, Clean
<1> QED BY <1>1, <1>2, <1>3, <1>5, <1>7 DEF Calm, Forked

\* The socket of the server takes a segment.
Takes(s, t, z, m) ==
  /\ Fits(t, z) /\ Calm(t)
  /\ t.state = "SYN_RCVD" => Forked(t)
  /\ m.flags = SYN => t.accepted = s.accepted /\ t.read = s.read
  /\ t.read >= s.read
  /\ Reader(s, z) /\ FinLast(m, z) => Reader(t, z)

LEMMA AdvancesTakes ==
  ASSUME NEW z \in 1..N, NEW s, NEW t, NEW m, Fits(s, z), Calm(s),
         s.state # "SYN_RCVD", m.flags # SYN, Advances(s, t, z, m)
  PROVE  Takes(s, t, z, m)
BY DEF Takes, Advances, Gains

LEMMA RetainsTakes ==
  ASSUME NEW z \in 1..N, NEW s, NEW t, NEW m, Fits(s, z), Calm(s),
         s.state = "SYN_RCVD" => Forked(s), Retains(s, t, z)
  PROVE  Takes(s, t, z, m)
<1>1. s.read >= s.read BY DEF Fits, Loose, Upto
<1> QED BY <1>1, RetainsReader DEF Takes, Retains, Kept, Forked

LEMMA ProcessSynRcvdTakes ==
  ASSUME NEW z \in 1..N, NEW s, Fits(s, z), Calm(s), Forked(s), s.out = <<>>,
         NEW m \in Cargo(z), m.flags = SYN => m.seq = 0, s.state = "SYN_RCVD"
  PROVE  Takes(s, ProcessSynRcvd(s, m), z, m)
<1> DEFINE up == Accepted(s)
           est == [up EXCEPT !.state = "ESTABLISHED", !.delAck = DelAckMax]
           first == m.flags = ACK /\ m.ack = s.nextTx + 1
           again == [s EXCEPT !.rxNext = m.seq + 1]
           n == m.seq + 1
<1>1. ProcessSynRcvd(s, m) =
        CASE first -> ReceivedAck(est, m)
          [] m.flags = SYN -> SendEmptyPacket(again, SYNACK)
          [] m.flags = FINACK -> IF m.seq = s.rxNext THEN PeerClose(up, m) ELSE s
          [] OTHER -> Refuse(s, m)
  BY DEF ProcessSynRcvd, Accepted
<1>2. /\ Fits(up, z) /\ Calm(up) /\ up.early = {} /\ up.fin = NoFin
      /\ up.rxNext = s.rxNext /\ up.read = s.read /\ up.accepted = 1 /\ up.state = s.state
  BY AcceptedFits
<1>3. /\ ACK # SYN /\ ACK # FINACK /\ SYN # FINACK /\ "FIN" \in FINACK
  BY FlagsType
<1>4. s.read = 0 BY DEF Forked
<1>5. ASSUME Reader(s, z) PROVE Reader(up, z)
  BY <1>2, <1>5 DEF Reader, Forked, Late
<1> HIDE DEF up
<1>6. CASE first
  <2>1. est \in Loose(z) BY <1>2, ConstantsType DEF Fits, Loose, State
  <2>2. /\ est.head = up.head /\ est.txEnd = up.txEnd /\ est.read = up.read
        /\ est.rxNext = up.rxNext /\ est.early = up.early /\ est.fin = up.fin
        /\ est.state = "ESTABLISHED" /\ est.out = up.out /\ est.retx = up.retx
    BY <1>2 DEF Fits, Loose
  <2> DEFINE t == ReceivedAck(est, m)
  <2> HIDE DEF est
  <2>3. Fits(est, z) /\ Calm(est) BY <1>2, <2>1, <2>2 DEF Fits, Clean, Calm
  <2>4. Reader(up, z) => Reader(est, z) BY <2>2 DEF Reader, Late
  <2>5. Gains(est, t, z) /\ (Reader(est, z) => Reader(t, z)) BY <2>3, ReceivedAckFits
  <2>6. ProcessSynRcvd(s, m) = t BY <1>1, <1>3, <1>6
  <2> HIDE DEF t
  <2>7. m.flags # SYN BY <1>3, <1>6
  <2>8. t.state # "SYN_RCVD" /\ t.read >= s.read /\ Fits(t, z) /\ Calm(t)
    BY <1>2, <2>2, <2>3, <2>5 DEF Gains
  <2> QED BY <1>5, <2>4, <2>5, <2>6, <2>7, <2>8 DEF Takes
<1>7. CASE m.flags = SYN
  <2>1. n = 1 /\ n \in Nat BY <1>7
  <2>2. again = [s EXCEPT !.rxNext = n] OBVIOUS
  <2> HIDE DEF n, again
  <2>3. again \in Loose(z) BY <2>1, <2>2 DEF Fits, Loose
  <2>4. /\ again.head = s.head /\ again.txEnd = s.txEnd /\ again.read = 0
        /\ again.rxNext = 1 /\ again.early = {} /\ again.fin = NoFin /\ again.accepted = 0
        /\ again.state = "SYN_RCVD" /\ again.out = <<>> /\ again.retx = s.retx
    BY <2>1, <2>2 DEF Fits, Loose, Forked
  <2>5. Fits(again, z) /\ Calm(again) BY <2>3, <2>4 DEF Fits, Clean, Calm
  <2>6. Forked(again) BY <2>4 DEF Forked
  <2>7. Retains(again, SendEmptyPacket(again, SYNACK), z) BY <2>5, SendEmptyPacketFits
  <2>8. Takes(again, SendEmptyPacket(again, SYNACK), z, m) BY <2>5, <2>6, <2>7, RetainsTakes
  <2>9. Reader(again, z) BY <2>4 DEF Reader, Late
  <2>10. Reader(SendEmptyPacket(again, SYNACK), z) BY <2>7, <2>9, RetainsReader
  <2>11. ProcessSynRcvd(s, m) = SendEmptyPacket(again, SYNACK) BY <1>1, <1>3, <1>7
  <2> QED BY <2>4, <2>8, <2>10, <2>11 DEF Takes, Forked
<1>8. CASE m.flags = FINACK /\ m.seq = s.rxNext
  <2> DEFINE t == PeerClose(up, m)
  <2>1. /\ Gains(up, t, z) /\ (Reader(up, z) /\ FinLast(m, z) => Reader(t, z))
        /\ t.state # "SYN_RCVD"
    BY <1>2, <1>3, <1>8, PeerCloseFits
  <2>2. ProcessSynRcvd(s, m) = t BY <1>1, <1>3, <1>8
  <2> HIDE DEF t
  <2>3. m.flags # SYN BY <1>3, <1>8
  <2>4. t.read >= s.read /\ Fits(t, z) /\ Calm(t) BY <1>2, <2>1 DEF Gains
  <2> QED BY <1>5, <2>1, <2>2, <2>3, <2>4 DEF Takes
<1>9. CASE ~first /\ m.flags # SYN /\ ~(m.flags = FINACK /\ m.seq = s.rxNext)
  <2>1. ProcessSynRcvd(s, m) \in {s, Refuse(s, m)} BY <1>1, <1>9
  <2> QED BY <2>1, RefuseFits, RetainsSelf, RetainsTakes
<1> QED BY <1>6, <1>7, <1>8, <1>9

LEMMA HandledTakes ==
  ASSUME NEW z \in 1..N, NEW s, Fits(s, z), Calm(s), s.out = <<>>,
         s.state = "SYN_RCVD" => Forked(s),
         NEW m \in Cargo(z), m.flags = SYN => m.seq = 0 /\ m.len = 0
  PROVE  Takes(s, Handled(s, m), z, m)
<1>1. CASE s.state = "SYN_RCVD"
  <2>1. Handled(s, m) = ProcessSynRcvd(s, m)
    BY <1>1 DEF Handled, ProcessInState, OutOfRange
  <2> QED BY <1>1, <2>1, ProcessSynRcvdTakes
<1>2. CASE s.state # "SYN_RCVD" /\ m.flags # SYN
  <2>1. s.state \notin {"SYN_SENT", "SYN_RCVD"} BY <1>2 DEF Calm
  <2> QED BY <1>2, <2>1, HandledFits, AdvancesTakes
<1>3. CASE s.state # "SYN_RCVD" /\ m.flags = SYN
  <2>1. SYN \notin {ACK, FINACK, RST} BY DEF SYN, ACK, FINACK, RST
  <2>2. m.len = 0 BY <1>3
  <2>3. Handled(s, m) \in {s, Refuse(s, m)}
    BY <1>3, <2>1, <2>2 DEF Handled, ProcessInState, ProcessEstablished, ProcessWait, ProcessClosing,
       ProcessLastAck, Calm
  <2> QED BY <1>3, <2>3, RefuseFits, RetainsSelf, RetainsTakes
<1> QED BY <1>1, <1>2, <1>3

LEMMA ServerTakes ==
  ASSUME NEW z \in 1..N, NEW s, Fits(s, z), Calm(s), s.out = <<>>,
         s.state = "SYN_RCVD" => Forked(s),
         NEW m \in Cargo(z), m.flags = SYN => m.seq = 0 /\ m.len = 0
  PROVE  Takes(s, DoForwardUp(s, m), z, m)
<1>1. s \in Loose(z) BY DEF Fits
<1>2. PICK r \in Windowed(s) : DoForwardUp(s, m) = Handled(r, m)
  BY <1>1, DoForwardUpHandled
<1>3. /\ Fits(r, z) /\ Calm(r) /\ r.out = <<>>
      /\ r.state = "SYN_RCVD" => Forked(r)
  BY <1>1, <1>2, WindowedFacts, WindowedFits
<1>4. Takes(r, Handled(r, m), z, m) BY <1>3, HandledTakes
<1> QED BY <1>1, <1>2, <1>4, WindowedFacts DEF Takes, Reader

LEMMA ListenTakes ==
  ASSUME NEW z \in 1..N, NEW s, Fits(s, z), Calm(s), s.out = <<>>,
         s.state = "SYN_RCVD" => Forked(s),
         NEW m \in Cargo(z), m.flags = SYN => m.seq = 0 /\ s.accepted = 0 /\ s.read = 0
  PROVE  /\ Takes(s, ProcessListen(s, m), z, m)
         /\ m.flags = SYN => Reader(ProcessListen(s, m), z)
<1>1. CASE m.flags # SYN
  <2>1. ProcessListen(s, m) = s BY <1>1 DEF ProcessListen
  <2> QED BY <1>1, <2>1, RetainsSelf, RetainsTakes
<1>2. CASE m.flags = SYN
  <2> DEFINE n == m.seq + 1
             u == [Unused EXCEPT !.state = "SYN_RCVD", !.open = TRUE, !.rxNext = n,
                     !.closeOnEmpty = TRUE, !.shutdownSend = TRUE,
                     !.accepted = s.accepted, !.read = s.read]
  <2>1. ProcessListen(s, m) = SendEmptyPacket(u, SYNACK) BY <1>2 DEF ProcessListen
  <2>2. n = 1 BY <1>2
  <2> HIDE DEF n
  <2>3. /\ u.state = "SYN_RCVD" /\ u.rxNext = 1 /\ u.accepted = 0 /\ u.read = 0
        /\ u.early = {} /\ u.fin = NoFin /\ u.head = 0 /\ u.txEnd = 0 /\ u.out = <<>>
        /\ u.retx = NoFlag
    BY <1>2, <2>2 DEF Unused
  <2>4. /\ NoFlag \in Events /\ {} \in Pieces(z) /\ {} \in Calls /\ 0 \in Upto(z)
        /\ <<>> \in Sent(z)
    BY DEF Events, Pieces, Calls, Upto, Sent
  <2>5. u \in Loose(z)
    <3>1. Unused \in Loose(z)
      <4>1. "CLOSED" \in State BY DEF State
      <4> QED BY <2>4, <4>1, ConstantsType DEF Unused, Loose
    <3>2. ASSUME NEW v \in Loose(z), NEW a \in {0, 1}, NEW r \in Upto(z), NEW w \in Nat
          PROVE  [v EXCEPT !.state = "SYN_RCVD", !.open = TRUE, !.rxNext = w,
                    !.closeOnEmpty = TRUE, !.shutdownSend = TRUE,
                    !.accepted = a, !.read = r] \in Loose(z)
      BY <3>2 DEF Loose, State
    <3>3. s.accepted \in {0, 1} /\ s.read \in Upto(z) /\ n \in Nat
      BY <2>2 DEF Fits, Loose
    <3> QED BY <3>1, <3>2, <3>3
  <2> HIDE DEF u
  <2>6. NoFlag # SYN BY FlagsType
  <2>7. Fits(u, z) /\ Calm(u) /\ Forked(u) /\ Reader(u, z)
    BY <2>3, <2>5, <2>6 DEF Fits, Clean, Calm, Forked, Reader, Late
  <2>8. Retains(u, SendEmptyPacket(u, SYNACK), z) BY <2>7, SendEmptyPacketFits
  <2>9. Takes(u, SendEmptyPacket(u, SYNACK), z, m) BY <2>7, <2>8, RetainsTakes
  <2>10. Reader(SendEmptyPacket(u, SYNACK), z) BY <2>7, <2>8, RetainsReader
  <2> QED BY <1>2, <2>1, <2>3, <2>9, <2>10 DEF Takes
<1> QED BY <1>1, <1>2

LEMMA NoEndPointsRetains ==
  ASSUME NEW z \in 1..N, NEW s, Fits(s, z), NEW m \in Cargo(z)
  PROVE  Retains(s, NoEndPointsFound(s, m), z)
<1> DEFINE reset == IF "ACK" \in m.flags
                    THEN [flags |-> RST, seq |-> m.ack, ack |-> 0, len |-> 0]
                    ELSE [flags |-> RST \cup ACK, seq |-> 0, ack |-> m.seq + 1, len |-> 0]
           o == <<reset>>
<1>1. NoEndPointsFound(s, m) = IF "RST" \in m.flags THEN s ELSE [s EXCEPT !.out = o]
  BY DEF NoEndPointsFound
<1>2. m.seq \in Nat /\ m.ack \in Nat BY DEF Cargo
<1>3. RST \in Flags /\ (RST \cup ACK) \in Flags /\ "RST" \in RST /\ "RST" \in (RST \cup ACK)
      /\ "RST" \notin SYN
  BY DEF Flags, RST, SYN
<1>4. reset \in Cargo(z)
  <2>1. [flags |-> RST, seq |-> m.ack, ack |-> 0, len |-> 0] \in Cargo(z)
    BY <1>2, <1>3 DEF Cargo
  <2>2. [flags |-> RST \cup ACK, seq |-> 0, ack |-> m.seq + 1, len |-> 0] \in Cargo(z)
    BY <1>2, <1>3 DEF Cargo
  <2> QED BY <2>1, <2>2
<1>5. "RST" \in reset.flags BY <1>3
<1> HIDE DEF reset
<1>6. o \in Sent(z) /\ \A k \in DOMAIN o : o[k].flags # SYN /\ "RST" \in o[k].flags
  BY <1>3, <1>4, <1>5 DEF Sent
<1> HIDE DEF o
<1>7. Retains(s, [s EXCEPT !.out = o], z)
  BY <1>6 DEF Retains, Fits, Loose, Clean, Kept, Calm, Late
<1> QED BY <1>1, <1>7, RetainsSelf

\* What a client that waits for its SYN|ACK makes of a segment: it goes on
\* waiting, or is past its SYN.
LEMMA CallingHandledFits ==
  ASSUME NEW z \in 1..N, scenario.size = z, NEW s, Fits(s, z), Calling(s),
         s.out = <<>>, NEW m \in Cargo(z), m.flags # SYN
  PROVE  \/ Handled(s, m) = s /\ "SYN" \notin m.flags
         \/ /\ Fits(Handled(s, m), z)
            /\ Handled(s, m).state \in {"ESTABLISHED", "CLOSED"}
            /\ Handled(s, m).retx # SYN
<1> DEFINE n == m.seq + 1
           k == s.nextTx + 1
           up == [s EXCEPT !.state = "ESTABLISHED", !.retx = NoFlag, !.rxNext = n,
                           !.nextTx = k, !.highTx = k, !.head = k, !.txEnd = k]
           a == SendEmptyPacket(up, ACK)
           e == z + 1
           u == 1..z
           t == [a EXCEPT !.txEnd = e, !.unsent = u, !.closeOnEmpty = TRUE,
                          !.pendingEvent = TRUE, !.delAck = DelAckMax]
<1>1. Handled(s, m) = ProcessSynSent(s, m)
  BY DEF Handled, ProcessInState, OutOfRange, Calling
<1>2. n \in Nat /\ n > 0 /\ k = 1 BY DEF Cargo, Calling
<1>3. NoFlag \in Events /\ NoFlag # SYN BY FlagsType DEF Events
<1>4. \/ ProcessSynSent(s, m) = s /\ m.flags = ACK
      \/ ProcessSynSent(s, m) \in {t, Refuse(s, m)}
  <2>1. SetHeadSequence([s EXCEPT !.state = "ESTABLISHED", !.retx = NoFlag,
                                  !.rxNext = m.seq + 1, !.nextTx = @ + 1,
                                  !.highTx = s.nextTx + 1], s.nextTx + 1) = up
    BY DEF SetHeadSequence, Fits, Loose
  <2> HIDE DEF up
  <2>2. CASE m.flags = ACK
    <3>1. m.flags # SYN /\ m.flags # SYNACK BY <2>2, FlagsType DEF SYN, ACK, SYNACK
    <3>2. ProcessSynSent(s, m) = s BY <2>2, <3>1, Zenon DEF ProcessSynSent
    <3> QED BY <2>2, <3>2
  <2>3. CASE m.flags = SYNACK /\ m.ack = k
    <3>1. m.flags # ACK /\ m.flags # SYN BY <2>3, FlagsType DEF SYN, ACK, SYNACK
    <3>2. ProcessSynSent(s, m) = t BY <2>1, <2>3, <3>1 DEF ProcessSynSent
    <3> QED BY <3>2
  <2>4. CASE m.flags # ACK /\ ~(m.flags = SYNACK /\ m.ack = k)
    BY <2>4 DEF ProcessSynSent
  <2> QED BY <2>2, <2>3, <2>4
<1>5. Fits(t, z) /\ t.state \in {"ESTABLISHED", "CLOSED"} /\ t.retx # SYN
  <2> HIDE DEF n, k
  <2>1. up \in Loose(z)
    <3>1. ASSUME NEW v \in Loose(z), NEW st \in State, NEW f \in Events, NEW g \in Nat,
                 NEW b \in Nat
          PROVE  [v EXCEPT !.state = st, !.retx = f, !.rxNext = g, !.nextTx = b,
                           !.highTx = b, !.head = b, !.txEnd = b] \in Loose(z)
      BY ZenonT(60), <3>1 DEF Loose
    <3>2. s \in Loose(z) /\ "ESTABLISHED" \in State /\ k \in Nat BY <1>2 DEF Fits, State
    <3> QED BY <1>2, <1>3, <3>1, <3>2
  <2>2. /\ up.head = 1 /\ up.txEnd = 1 /\ up.read = 0 /\ up.rxNext = n /\ up.out = <<>>
        /\ up.state = "ESTABLISHED" /\ up.retx = NoFlag
    BY <1>2 DEF Fits, Loose, Calling
  <2> HIDE DEF up
  <2>3. Fits(up, z) /\ Calm(up) BY <1>2, <1>3, <2>1, <2>2 DEF Fits, Clean, Calm
  <2>4. Retains(up, a, z) BY <2>3, SendEmptyPacketFits
  <2>5. a.state \in {"ESTABLISHED", "CLOSED"} /\ a.head = 1
    BY <2>1, <2>2, FlagsType DEF SendEmptyPacket, Emit, Loose
  <2> HIDE DEF a
  <2>6. e \in Nat /\ u \in Pieces(z) BY DEF Pieces
  <2> HIDE DEF e, u
  <2>7. t \in Loose(z) BY ZenonT(60), <2>4, <2>6, ConstantsType DEF Retains, Fits, Loose
  <2>8. /\ t.head = 1 /\ t.txEnd = e /\ t.read = a.read /\ t.rxNext = a.rxNext
        /\ t.out = a.out /\ t.state = a.state /\ t.retx = a.retx
    BY <2>4, <2>5 DEF Retains, Fits, Loose
  <2> HIDE DEF t
  <2>9. t.head..(t.txEnd - 1) \subseteq 1..z BY <2>8 DEF e
  <2>10. Fits(t, z) BY <2>4, <2>7, <2>8, <2>9 DEF Retains, Fits, Clean
  <2> QED BY <2>3, <2>4, <2>5, <2>8, <2>10 DEF Retains, Calm
<1>6. Fits(Refuse(s, m), z) /\ Refuse(s, m).state = "CLOSED" /\ Refuse(s, m).retx # SYN
  <2>1. ASSUME NEW x, Fits(x, z), x.open \/ x.retx # SYN
        PROVE  CloseAndNotify(x).state = "CLOSED" /\ CloseAndNotify(x).retx # SYN
    BY <1>3, <2>1 DEF CloseAndNotify, DeallocateEndPoint, CancelAllTimers, Fits, Loose
  <2>2. SendRST(s).retx # SYN
    <3> DEFINE x == SendEmptyPacket(s, RST)
    <3>1. Fits(x, z) BY SendEmptyPacketFits DEF Retains
    <3>2. x.open BY FlagsType DEF SendEmptyPacket, Emit, Fits, Loose, Calling
    <3>3. SendRST(s) = DeallocateEndPoint([x EXCEPT !.told = @ \cup {"error"}])
      BY DEF SendRST
    <3> HIDE DEF x
    <3> QED BY <1>3, <3>1, <3>2, <3>3 DEF DeallocateEndPoint, CancelAllTimers, Fits, Loose
  <2>3. Fits(SendRST(s), z) BY SendRSTFits DEF Retains
  <2>4. Fits(Refuse(s, m), z) BY RefuseFits DEF Retains
  <2> QED BY <2>1, <2>2, <2>3, <2>4 DEF Refuse, Calling
<1>7. "SYN" \notin ACK BY DEF ACK
<1> QED BY <1>1, <1>4, <1>5, <1>6, <1>7

LEMMA ProcessSynSentFits ==
  ASSUME NEW z \in 1..N, scenario.size = z, NEW s, Fits(s, z), Calling(s),
         s.out = <<>>, NEW m \in Cargo(z), m.flags # SYN
  PROVE  \/ DoForwardUp(s, m) = s
         \/ /\ Fits(DoForwardUp(s, m), z)
            /\ DoForwardUp(s, m).state \in {"ESTABLISHED", "CLOSED"}
            /\ DoForwardUp(s, m).retx # SYN
<1>1. s \in Loose(z) BY DEF Fits
<1>2. PICK r \in Windowed(s) : DoForwardUp(s, m) = Handled(r, m)
  BY <1>1, DoForwardUpHandled
<1>3. Fits(r, z) /\ Calling(r) /\ r.out = <<>> BY <1>1, <1>2, WindowedFacts, WindowedFits
<1>4. \/ "SYN" \notin m.flags /\ Handled(r, m) = r
      \/ /\ Fits(Handled(r, m), z)
         /\ Handled(r, m).state \in {"ESTABLISHED", "CLOSED"}
         /\ Handled(r, m).retx # SYN
  BY <1>3, CallingHandledFits
<1>5. CASE "SYN" \notin m.flags
  <2>1. DoForwardUp(s, m) = Handled(s, m) BY <1>1, <1>5, DoForwardUpHandled
  <2> QED BY <2>1, CallingHandledFits
<1>6. CASE "SYN" \in m.flags BY <1>2, <1>4, <1>6
<1> QED BY <1>5, <1>6

\* The timer of a SYN.
LEMMA CallAgain ==
  ASSUME NEW z \in 1..N, NEW s, Fits(s, z), Calling(s), s.retx # NoFlag, s.out = <<>>
  PROVE  LET t == FireRetx(s)
             x == [t EXCEPT !.out = <<>>]
         IN  /\ t \in Loose(z) /\ t.out \in Sent(z) /\ Fits(x, z)
             /\ \A i \in DOMAIN t.out : /\ t.out[i].flags = SYN /\ t.out[i].seq = 0
                                        /\ t.out[i].len = 0
             /\ \/ Calling(x)
                \/ x.state = "CLOSED" /\ x.retx # SYN /\ t.out = <<>>
<1> DEFINE f == [s EXCEPT !.retx = NoFlag]
           t == FireRetx(s)
           x == [t EXCEPT !.out = <<>>]
<1>1. NoFlag \in Events /\ SYN \in Events /\ NoFlag # SYN /\ SYN # RTO
  BY FlagsType DEF Events, SYN, RTO
<1>2. t = SendEmptyPacket(f, SYN) BY <1>1 DEF FireRetx, Calling
<1>3. /\ f.nextTx = 0 /\ f.state = "SYN_SENT" /\ f.retx = NoFlag /\ f.out = <<>>
      /\ f.open = s.open /\ f.read = 0
  BY DEF Fits, Loose, Calling
<1>4. Fits(f, z) /\ Calling(f)
  BY <1>1, <1>3 DEF Fits, Loose, Clean, Calling
<1> HIDE DEF f
<1> DEFINE o == <<[flags |-> SYN, seq |-> 0, ack |-> f.rxNext, len |-> 0]>>
           c == f.synCount - 1
           g == [f EXCEPT !.out = o, !.synCount = c, !.retx = SYN]
<1>5. o \in Sent(z) /\ \A i \in DOMAIN o : o[i].flags = SYN /\ o[i].seq = 0 /\ o[i].len = 0
  <2> DEFINE seg == [flags |-> SYN, seq |-> 0, ack |-> f.rxNext, len |-> 0]
  <2>1. f.rxNext \in Nat BY <1>4 DEF Fits, Loose
  <2>2. SYN \in Flags BY DEF Flags
  <2>3. seg \in Cargo(z) BY <2>1, <2>2 DEF Cargo
  <2>4. seg.flags = SYN /\ seg.seq = 0 /\ seg.len = 0 OBVIOUS
  <2>5. o = <<seg>> OBVIOUS
  <2> HIDE DEF seg, o
  <2> QED BY <2>3, <2>4, <2>5 DEF Sent
<1>6. <<>> \in Sent(z) BY DEF Sent
<1>7. f.open BY <1>4 DEF Calling
<1>8. CASE f.synCount = 0
  <2>1. t = CloseAndNotify(f) BY <1>2, <1>7, <1>8, FlagsType DEF SendEmptyPacket
  <2>2. Fits(t, z) BY <1>4, <2>1, CloseAndNotifyFits DEF Retains
  <2>3. t.state = "CLOSED" /\ t.retx # SYN /\ t.out = <<>>
    BY <1>1, <1>3, <1>4, <1>7, <2>1 DEF CloseAndNotify, DeallocateEndPoint, CancelAllTimers, Fits, Loose
  <2> HIDE DEF t
  <2>4. x = t BY <2>2, <2>3 DEF Fits, Loose
  <2>5. t \in Loose(z) BY <2>2 DEF Fits
  <2> QED BY <1>6, <2>2, <2>3, <2>4, <2>5 DEF t
<1>9. CASE f.synCount # 0
  <2> DEFINE e == Emit(f, SYN, f.nextTx, 0)
  <2>1. f \in Loose(z) BY <1>4 DEF Fits
  <2>2. e = [f EXCEPT !.out = o]
    <3>1. Append(f.out, [flags |-> SYN, seq |-> f.nextTx, ack |-> f.rxNext, len |-> 0]) = o
      BY <1>3
    <3> HIDE DEF o
    <3> QED BY <3>1 DEF Emit
  <2>3. t = [e EXCEPT !.synCount = @ - 1, !.delAck = @, !.delAckEvent = @, !.retx = SYN]
    <3>1. "FIN" \notin SYN /\ "ACK" \notin SYN /\ "SYN" \in SYN /\ SYN \cap {"SYN", "FIN"} # {}
      BY DEF SYN
    <3>2. f.state \notin {"FIN_WAIT_1", "LAST_ACK", "CLOSING"} BY <1>3
    <3>3. e.retx = NoFlag BY <1>3, <2>1, <2>2 DEF Loose
    <3> HIDE DEF e, o
    <3> QED BY <1>2, <1>7, <1>9, <3>1, <3>2, <3>3 DEF SendEmptyPacket, e
  <2>4. t = g
    <3> HIDE DEF e, o, t
    <3> QED BY <2>1, <2>2, <2>3 DEF Loose
  <2>5. c \in Int BY <2>1 DEF Loose
  <2> HIDE DEF c, o, t
  <2>6. x = [f EXCEPT !.synCount = c, !.retx = SYN]
    BY <1>3, <1>4, <2>4 DEF Fits, Loose
  <2>7. x \in Loose(z)
    <3> HIDE DEF x
    <3> QED BY <1>1, <2>1, <2>5, <2>6 DEF Loose
  <2>8. /\ x.head = f.head /\ x.txEnd = f.txEnd /\ x.read = f.read /\ x.rxNext = f.rxNext
        /\ x.out = <<>> /\ x.retx = SYN /\ x.state = "SYN_SENT" /\ x.nextTx = 0
        /\ x.delAckEvent = f.delAckEvent /\ x.lastAckEvent = f.lastAckEvent
        /\ x.timeWaitEvent = f.timeWaitEvent /\ x.pendingEvent = f.pendingEvent
        /\ x.open = f.open
    BY ZenonT(60), <1>3, <1>4, <2>6 DEF Fits, Loose
  <2>9. Fits(x, z) /\ Calling(x) BY ZenonT(60), <1>3, <1>4, <1>7, <2>7, <2>8 DEF Fits, Clean, Calling
  <2>10. t.out = o /\ t \in Loose(z)
    BY <1>1, <1>5, <2>1, <2>4, <2>5 DEF Loose
  <2> QED BY <1>5, <2>9, <2>10 DEF t
<1> QED BY <1>8, <1>9

-----------------------------------------------------------------------------
\* The queue of segments to one end.

HasSyn(q) == \E i \in DOMAIN q : q[i].flags = SYN
SynOnly(q) == \A i \in DOMAIN q : q[i].flags = SYN

\* SYNs come first, and have no data.
SynFirst(q) ==
  /\ \A i \in DOMAIN q : q[i].flags = SYN => q[i].seq = 0 /\ q[i].len = 0
  /\ \A i, j \in DOMAIN q : i < j /\ q[j].flags = SYN => q[i].flags = SYN

\* What is left of a queue when a is followed by b.
Trimmed(a, b) == SubSeq(a \o b, 1, Smaller(Capacity, Len(a \o b)))

LEMMA ConcatFacts ==
  ASSUME NEW S, NEW a \in Seq(S), NEW b \in Seq(S)
  PROVE  /\ a \o b \in Seq(S) /\ Len(a \o b) = Len(a) + Len(b)
         /\ \A k \in 1..Len(a \o b) :
              /\ k <= Len(a) => (a \o b)[k] = a[k]
              /\ k > Len(a) => (a \o b)[k] = b[k - Len(a)]
OBVIOUS

LEMMA RemoveFacts ==
  ASSUME NEW S, NEW q \in Seq(S), NEW i \in DOMAIN q
  PROVE  /\ RemoveAt(q, i) \in Seq(S)
         /\ Len(RemoveAt(q, i)) = Len(q) - 1
         /\ \A k \in DOMAIN RemoveAt(q, i) :
              /\ k \in 1..Len(q) /\ k + 1 \in 1..Len(q)
              /\ k < i => RemoveAt(q, i)[k] = q[k]
              /\ k >= i => RemoveAt(q, i)[k] = q[k + 1]
<1> DEFINE a == SubSeq(q, 1, i - 1)
           b == SubSeq(q, i + 1, Len(q))
           r == a \o b
<1>1. Len(q) \in Nat /\ i \in 1..Len(q) OBVIOUS
<1>2. a \in Seq(S) /\ Len(a) = i - 1 /\ \A k \in 1..(i - 1) : a[k] = q[k]
  BY <1>1
<1>3. b \in Seq(S) /\ Len(b) = Len(q) - i /\ \A k \in 1..(Len(q) - i) : b[k] = q[i + k]
  BY <1>1
<1>4. RemoveAt(q, i) = r BY DEF RemoveAt
<1> HIDE DEF a, b
<1>5. /\ r \in Seq(S) /\ Len(r) = Len(a) + Len(b)
      /\ \A k \in 1..Len(r) :
           /\ k <= Len(a) => r[k] = a[k]
           /\ k > Len(a) => r[k] = b[k - Len(a)]
  <2>1. a \in Seq(S) /\ b \in Seq(S) BY <1>2, <1>3
  <2> QED BY <2>1, ConcatFacts
<1> HIDE DEF r
<1>6. Len(r) = Len(q) - 1 BY <1>1, <1>2, <1>3, <1>5
<1>7. ASSUME NEW k \in DOMAIN r
      PROVE  /\ k \in 1..Len(q) /\ k + 1 \in 1..Len(q)
             /\ k < i => r[k] = q[k]
             /\ k >= i => r[k] = q[k + 1]
  <2>1. k \in 1..(Len(q) - 1) BY <1>5, <1>6
  <2>2. CASE k < i
    <3>1. k \in 1..(i - 1) BY <1>1, <2>1, <2>2
    <3> QED BY <1>1, <1>2, <1>5, <1>6, <2>1, <2>2, <3>1
  <2>3. CASE k >= i
    <3>1. k - Len(a) \in 1..(Len(q) - i) /\ i + (k - Len(a)) = k + 1
      BY <1>1, <1>2, <2>1, <2>3
    <3>2. k \in 1..Len(r) /\ k > Len(a) BY <1>1, <1>2, <1>6, <2>1, <2>3
    <3>3. r[k] = b[k - Len(a)] BY <1>5, <3>2
    <3>4. b[k - Len(a)] = q[i + (k - Len(a))] BY <1>3, <3>1
    <3> QED BY SMTT(30), <1>1, <2>1, <2>3, <3>1, <3>3, <3>4
  <2> QED BY <1>1, <2>1, <2>2, <2>3
<1> QED BY <1>4, <1>5, <1>6, <1>7

LEMMA TrimmedFacts ==
  ASSUME NEW S, NEW a \in Seq(S), NEW b \in Seq(S)
  PROVE  /\ Trimmed(a, b) \in Seq(S)
         /\ \A k \in DOMAIN Trimmed(a, b) :
              /\ k \in Nat \ {0}
              /\ k <= Len(a) => k \in DOMAIN a /\ Trimmed(a, b)[k] = a[k]
              /\ k > Len(a) => /\ k - Len(a) \in DOMAIN b
                               /\ Trimmed(a, b)[k] = b[k - Len(a)]
<1> DEFINE all == a \o b
           c == Smaller(Capacity, Len(all))
<1>1. all \in Seq(S) /\ Len(all) = Len(a) + Len(b) BY ConcatFacts
<1>2. \A k \in 1..Len(all) : /\ k <= Len(a) => all[k] = a[k]
                             /\ k > Len(a) => all[k] = b[k - Len(a)]
  BY ConcatFacts
<1>3. c \in 0..Len(all) BY <1>1, TcpConnectionAssumption DEF Smaller
<1> HIDE DEF all, c
<1>4. /\ SubSeq(all, 1, c) \in Seq(S) /\ Len(SubSeq(all, 1, c)) = c
      /\ \A k \in 1..c : SubSeq(all, 1, c)[k] = all[k]
  BY <1>1, <1>3
<1>5. Trimmed(a, b) = SubSeq(all, 1, c) BY DEF Trimmed, all, c
<1> DEFINE t == Trimmed(a, b)
<1>6. t \in Seq(S) /\ Len(t) = c /\ \A k \in 1..c : t[k] = all[k] BY <1>4, <1>5
<1> HIDE DEF t
<1>7. ASSUME NEW k \in DOMAIN t
      PROVE  /\ k \in Nat \ {0}
             /\ k <= Len(a) => k \in DOMAIN a /\ t[k] = a[k]
             /\ k > Len(a) => k - Len(a) \in DOMAIN b /\ t[k] = b[k - Len(a)]
  <2>1. k \in 1..c BY <1>6
  <2>2. k \in 1..Len(all) /\ t[k] = all[k] BY <1>1, <1>3, <1>6, <2>1
  <2>3. k \in Nat \ {0} BY <2>1, <1>3
  <2>4. Len(a) \in Nat /\ Len(b) \in Nat OBVIOUS
  <2>5. k <= Len(a) => k \in 1..Len(a) BY <2>3, <2>4
  <2>6. k > Len(a) => k - Len(a) \in 1..Len(b) BY <1>1, <2>2, <2>3, <2>4
  <2> QED BY <1>2, <2>2, <2>3, <2>5, <2>6
<1> QED BY <1>6, <1>7 DEF t

LEMMA RemoveSyn ==
  ASSUME NEW S, NEW q \in Seq(S), NEW i \in DOMAIN q
  PROVE  LET r == RemoveAt(q, i)
         IN  /\ r \in Seq(S)
             /\ SynFirst(q) => SynFirst(r)
             /\ SynOnly(q) => SynOnly(r)
             /\ HasSyn(r) => HasSyn(q)
<1> DEFINE r == RemoveAt(q, i)
<1>1. r \in Seq(S) BY RemoveFacts
<1>2. ASSUME NEW k \in DOMAIN r PROVE \E j \in DOMAIN q : r[k] = q[j]
  <2>1. /\ k \in 1..Len(q) /\ k + 1 \in 1..Len(q) /\ i \in 1..Len(q)
        /\ k < i => r[k] = q[k]
        /\ k >= i => r[k] = q[k + 1]
    BY SMTT(30), RemoveFacts
  <2> HIDE DEF r
  <2>2. k < i \/ k >= i BY <2>1
  <2> QED BY <2>1, <2>2
<1>3. ASSUME NEW k \in DOMAIN r, NEW l \in DOMAIN r, k < l
      PROVE  \E x, y \in DOMAIN q : x < y /\ r[k] = q[x] /\ r[l] = q[y]
  <2>1. i \in 1..Len(q) /\ k \in Nat /\ l \in Nat BY <1>1
  <2>2. /\ k \in 1..Len(q) /\ k + 1 \in 1..Len(q) /\ l \in 1..Len(q) /\ l + 1 \in 1..Len(q)
        /\ k < i => r[k] = q[k]
        /\ k >= i => r[k] = q[k + 1]
        /\ l < i => r[l] = q[l]
        /\ l >= i => r[l] = q[l + 1]
    BY RemoveFacts
  <2> HIDE DEF r
  <2>3. CASE k < i /\ l < i BY <1>3, <2>1, <2>2, <2>3
  <2>4. CASE k < i /\ l >= i
    <3>1. k < l + 1 BY <1>3, <2>1
    <3> QED BY <2>1, <2>2, <2>4, <3>1
  <2>5. CASE k >= i /\ l >= i
    <3>1. k + 1 < l + 1 BY <1>3, <2>1
    <3> QED BY <2>1, <2>2, <2>5, <3>1
  <2> QED BY <1>3, <2>1, <2>3, <2>4, <2>5
<1> HIDE DEF r
<1>4. SynFirst(q) => SynFirst(r)
  <2> SUFFICES ASSUME SynFirst(q) PROVE SynFirst(r) OBVIOUS
  <2>1. \A k \in DOMAIN r : r[k].flags = SYN => r[k].seq = 0 /\ r[k].len = 0
    BY <1>2 DEF SynFirst
  <2>2. ASSUME NEW k \in DOMAIN r, NEW l \in DOMAIN r, k < l, r[l].flags = SYN
        PROVE  r[k].flags = SYN
    BY <1>3, <2>2 DEF SynFirst
  <2> QED BY <2>1, <2>2 DEF SynFirst
<1>5. (SynOnly(q) => SynOnly(r)) /\ (HasSyn(r) => HasSyn(q))
  BY <1>2 DEF SynOnly, HasSyn
<1> QED BY <1>1, <1>4, <1>5 DEF r

LEMMA TrimmedSyn ==
  ASSUME NEW S, NEW a \in Seq(S), NEW b \in Seq(S), SynFirst(a)
  PROVE  LET t == Trimmed(a, b)
         IN  /\ t \in Seq(S)
             /\ ~HasSyn(b) => SynFirst(t) /\ (HasSyn(t) => HasSyn(a))
             /\ SynOnly(a) /\ SynOnly(b) /\ SynFirst(b) => SynFirst(t) /\ SynOnly(t)
<1> DEFINE t == Trimmed(a, b)
<1>1. /\ t \in Seq(S)
      /\ \A k \in DOMAIN t :
           /\ k \in Nat \ {0}
           /\ k <= Len(a) => k \in DOMAIN a /\ t[k] = a[k]
           /\ k > Len(a) => k - Len(a) \in DOMAIN b /\ t[k] = b[k - Len(a)]
  BY TrimmedFacts
<1>2. Len(a) \in Nat OBVIOUS
<1> HIDE DEF t
<1>3. ASSUME ~HasSyn(b) PROVE SynFirst(t) /\ (HasSyn(t) => HasSyn(a))
  <2>1. \A k \in DOMAIN t : t[k].flags = SYN => k <= Len(a) /\ k \in DOMAIN a /\ t[k] = a[k]
    BY <1>1, <1>2, <1>3 DEF HasSyn
  <2>2. \A k \in DOMAIN t : t[k].flags = SYN => t[k].seq = 0 /\ t[k].len = 0
    BY <2>1 DEF SynFirst
  <2>3. ASSUME NEW k \in DOMAIN t, NEW l \in DOMAIN t, k < l, t[l].flags = SYN
        PROVE  t[k].flags = SYN
    <3>1. l <= Len(a) /\ l \in DOMAIN a /\ t[l] = a[l] BY <2>1, <2>3
    <3>2. k <= Len(a) BY <1>1, <1>2, <2>3, <3>1
    <3>3. k \in DOMAIN a /\ t[k] = a[k] BY <1>1, <3>2
    <3> QED BY <2>3, <3>1, <3>3 DEF SynFirst
  <2> QED BY <2>1, <2>2, <2>3 DEF SynFirst, HasSyn
<1>4. ASSUME SynOnly(a), SynOnly(b), SynFirst(b) PROVE SynFirst(t) /\ SynOnly(t)
  <2>1. \A k \in DOMAIN t : t[k].flags = SYN /\ t[k].seq = 0 /\ t[k].len = 0
    BY <1>1, <1>2, <1>4 DEF SynOnly, SynFirst
  <2> QED BY <2>1 DEF SynFirst, SynOnly
<1> QED BY <1>1, <1>3, <1>4 DEF t

LEMMA FirstSyn ==
  ASSUME NEW S, NEW q \in Seq(S), SynFirst(q), NEW i \in Deliverable(q), q[i].flags # SYN
  PROVE  ~HasSyn(q)
<1> SUFFICES ASSUME NEW j \in DOMAIN q, q[j].flags = SYN PROVE FALSE BY DEF HasSyn
<1>1. i \in DOMAIN q /\ i \in Nat /\ j \in Nat /\ j >= 1 BY DEF Deliverable
<1>2. CASE j < i
  <2>1. j \in 1..(i - 1) BY <1>1, <1>2
  <2>2. q[j].len = 1 BY <2>1 DEF Deliverable
  <2> QED BY <2>2 DEF SynFirst
<1>3. CASE j > i BY <1>1, <1>3 DEF SynFirst
<1> QED BY <1>1, <1>2, <1>3

-----------------------------------------------------------------------------
\* The inductive invariant.

ClientCalls == Client.state = "SYN_SENT"

SocketsOK ==
  /\ sock \in [End -> Loose(scenario.size)]
  /\ \A p \in End : Fits(sock[p], scenario.size) /\ sock[p].out = <<>>
  /\ ClientCalls => Calling(Client)
  /\ ~ClientCalls => Calm(Client) /\ Client.state # "SYN_RCVD"
  /\ Calm(Server)
  /\ Server.state = "SYN_RCVD" => Forked(Server)

\* No SYN comes to the client; SYNs come first to the server, and nothing
\* else before the client has its answer.
NetOK ==
  /\ net \in [End -> Seq(Cargo(scenario.size))]
  /\ ~HasSyn(net["client"])
  /\ SynFirst(net["server"])
  /\ ClientCalls => SynOnly(net["server"])

\* As long as a SYN can come the sink has accepted nothing.
NothingAccepted ==
  ClientCalls \/ HasSyn(net["server"]) => Server.accepted = 0 /\ Server.read = 0

IInv ==
  /\ scenario \in Scenario
  /\ SocketsOK
  /\ NetOK
  /\ NothingAccepted

LEMMA SizeType ==
  ASSUME NEW v \in Scenario
  PROVE  v.size \in 1..N /\ v.losses \in Nat
BY DEF Scenario

LEMMA BecomesFact ==
  ASSUME NEW p, NEW t, NEW n, Becomes(p, t, n)
  PROVE  /\ sock' = [sock EXCEPT ![p] = [t EXCEPT !.out = <<>>]]
         /\ net' = [n EXCEPT ![Peer(p)] = Trimmed(n[Peer(p)], t.out)]
BY DEF Becomes, Trimmed

LEMMA StoredFits ==
  ASSUME NEW z \in 1..N, NEW t, Fits(t, z)
  PROVE  LET x == [t EXCEPT !.out = <<>>]
         IN  /\ Fits(x, z) /\ x.out = <<>> /\ x.state = t.state /\ x.accepted = t.accepted
             /\ x.read = t.read /\ x.retx = t.retx /\ x.early = t.early /\ x.fin = t.fin
             /\ x.rxNext = t.rxNext /\ x.txEnd = t.txEnd /\ x.shutdownSend = t.shutdownSend
<1> DEFINE x == [t EXCEPT !.out = <<>>]
<1>1. <<>> \in Sent(z) BY DEF Sent
<1>2. t \in Loose(z) BY DEF Fits
<1>3. x \in Loose(z) BY <1>1, <1>2 DEF Loose
<1>4. /\ x.out = <<>> /\ x.state = t.state /\ x.accepted = t.accepted
      /\ x.read = t.read /\ x.retx = t.retx /\ x.early = t.early /\ x.fin = t.fin
      /\ x.rxNext = t.rxNext /\ x.txEnd = t.txEnd /\ x.shutdownSend = t.shutdownSend
      /\ x.head = t.head
  BY <1>2 DEF Loose
<1> HIDE DEF x
<1>5. Fits(x, z) BY <1>3, <1>4 DEF Fits, Clean
<1> QED BY <1>4, <1>5 DEF x

\* What a queue may hold after the socket at its other end took a step.
LEMMA CleanSyn ==
  ASSUME NEW z, NEW t, Fits(t, z)
  PROVE  t.out \in Seq(Cargo(z)) /\ ~HasSyn(t.out)
BY DEF Fits, Loose, Sent, Clean, HasSyn

\* A step of the server, which leaves the rest of the queues as in n.
LEMMA ServerStep ==
  ASSUME IInv, NEW t, NEW n, Becomes("server", t, n), UNCHANGED scenario,
         Fits(t, scenario.size), Calm(t), t.state = "SYN_RCVD" => Forked(t),
         n \in [End -> Seq(Cargo(scenario.size))],
         n["client"] = net["client"],
         SynFirst(n["server"]), ClientCalls => SynOnly(n["server"]),
         ClientCalls \/ HasSyn(n["server"]) => t.accepted = 0 /\ t.read = 0
  PROVE  IInv'
<1> DEFINE z == scenario.size
           x == [t EXCEPT !.out = <<>>]
           q == Trimmed(n["client"], t.out)
<1>1. scenario' = scenario /\ scenario \in Scenario /\ z \in 1..N BY SizeType DEF IInv
<1>2. sock' = [sock EXCEPT !["server"] = x] /\ net' = [n EXCEPT !["client"] = q]
  BY BecomesFact DEF Peer
<1>3. /\ Fits(x, z) /\ x.out = <<>> /\ x.state = t.state /\ x.accepted = t.accepted
      /\ x.read = t.read /\ x.retx = t.retx /\ x.early = t.early /\ x.fin = t.fin
  BY <1>1, StoredFits
<1>4. q \in Seq(Cargo(z)) /\ ~HasSyn(q)
  <2>1. t.out \in Seq(Cargo(z)) /\ ~HasSyn(t.out) BY CleanSyn
  <2>2. n["client"] \in Seq(Cargo(z)) /\ ~HasSyn(n["client"]) BY DEF IInv, NetOK, End
  <2>3. SynFirst(n["client"]) BY <2>2 DEF HasSyn, SynFirst
  <2> QED BY <2>1, <2>2, <2>3, TrimmedSyn
<1> HIDE DEF x, q
<1>5. sock'["client"] = Client /\ sock'["server"] = x /\ DOMAIN sock' = End
  BY <1>2 DEF IInv, SocketsOK, Client, End
<1>6. net'["client"] = q /\ net'["server"] = n["server"] BY <1>2 DEF End
<1>7. x \in Loose(z) BY <1>3 DEF Fits
<1>8. SocketsOK'
  BY <1>1, <1>2, <1>3, <1>5, <1>7 DEF IInv, SocketsOK, Client, Server, End, ClientCalls,
     Calm, Forked
<1>9. NetOK'
  BY <1>1, <1>2, <1>4, <1>5, <1>6 DEF NetOK, Client, ClientCalls, End
<1>10. NothingAccepted'
  BY <1>3, <1>5, <1>6 DEF NothingAccepted, Client, Server, ClientCalls
<1> QED BY <1>1, <1>8, <1>9, <1>10 DEF IInv

\* A step of the client, which leaves the rest of the queues as in n.
LEMMA ClientStep ==
  ASSUME IInv, NEW t, NEW n, Becomes("client", t, n), UNCHANGED scenario,
         Fits([t EXCEPT !.out = <<>>], scenario.size), t.out \in Seq(Cargo(scenario.size)),
         n \in [End -> Seq(Cargo(scenario.size))],
         n["server"] = net["server"], ~HasSyn(n["client"]),
         \/ ~HasSyn(t.out) /\ Calm([t EXCEPT !.out = <<>>])
               /\ [t EXCEPT !.out = <<>>].state # "SYN_RCVD"
         \/ ClientCalls /\ SynOnly(t.out) /\ SynFirst(t.out) /\ Calling([t EXCEPT !.out = <<>>])
  PROVE  IInv'
<1> DEFINE z == scenario.size
           x == [t EXCEPT !.out = <<>>]
           q == Trimmed(n["server"], t.out)
<1>1. scenario' = scenario /\ scenario \in Scenario /\ z \in 1..N BY SizeType DEF IInv
<1>2. sock' = [sock EXCEPT !["client"] = x] /\ net' = [n EXCEPT !["server"] = q]
  BY BecomesFact DEF Peer
<1>3. x.out = <<>>
  BY DEF Fits, Loose
<1>4. /\ q \in Seq(Cargo(z)) /\ SynFirst(q)
      /\ HasSyn(q) => HasSyn(net["server"]) \/ ClientCalls
      /\ Calling(x) => SynOnly(q)
  <2>1. n["server"] \in Seq(Cargo(z)) /\ SynFirst(n["server"]) BY DEF IInv, NetOK, End
  <2>2. CASE ~HasSyn(t.out) /\ Calm(x)
    <3>1. ~Calling(x) BY <2>2 DEF Calm, Calling
    <3> QED BY <2>1, <2>2, <3>1, TrimmedSyn
  <2>3. CASE ClientCalls /\ SynOnly(t.out) /\ SynFirst(t.out)
    <3>1. SynOnly(n["server"]) BY <2>3 DEF IInv, NetOK
    <3> QED BY <2>1, <2>3, <3>1, TrimmedSyn
  <2> QED BY <2>2, <2>3
<1>5. (Calm(x) /\ x.state # "SYN_RCVD") \/ (ClientCalls /\ Calling(x)) OBVIOUS
<1>6. Fits(x, z) OBVIOUS
<1> HIDE DEF x, q
<1>7. sock'["client"] = x /\ sock'["server"] = Server /\ DOMAIN sock' = End
  BY <1>2 DEF IInv, SocketsOK, Server, End
<1>8. net'["server"] = q /\ net'["client"] = n["client"] BY <1>2 DEF End
<1>9. x \in Loose(z) BY <1>6 DEF Fits
<1>10. ClientCalls' => Calling(x) /\ ClientCalls
  BY <1>5, <1>7 DEF ClientCalls, Client, Calm, Calling
<1>11. ~ClientCalls' => Calm(x) /\ x.state # "SYN_RCVD"
  BY <1>5, <1>7 DEF ClientCalls, Client, Calm, Calling
<1>12. SocketsOK'
  BY <1>1, <1>2, <1>3, <1>6, <1>7, <1>9, <1>10, <1>11 DEF IInv, SocketsOK, Client, Server, End
<1>13. NetOK'
  BY <1>1, <1>2, <1>4, <1>7, <1>8, <1>10 DEF NetOK, Client, End
<1>14. NothingAccepted'
  BY <1>4, <1>7, <1>8, <1>10 DEF IInv, NothingAccepted, Client, Server
<1> QED BY <1>1, <1>12, <1>13, <1>14 DEF IInv

LEMMA ServerFacts ==
  ASSUME IInv
  PROVE  /\ scenario.size \in 1..N /\ Fits(Server, scenario.size) /\ Calm(Server)
         /\ Server.out = <<>> /\ (Server.state = "SYN_RCVD" => Forked(Server))
         /\ net \in [End -> Seq(Cargo(scenario.size))]
         /\ net["server"] \in Seq(Cargo(scenario.size)) /\ SynFirst(net["server"])
         /\ ClientCalls => SynOnly(net["server"])
BY SizeType DEF IInv, SocketsOK, NetOK, Server, End

LEMMA ClientFacts ==
  ASSUME IInv
  PROVE  /\ scenario.size \in 1..N /\ Fits(Client, scenario.size) /\ Client.out = <<>>
         /\ ClientCalls => Calling(Client)
         /\ ~ClientCalls => Calm(Client) /\ Client.state # "SYN_RCVD"
         /\ net \in [End -> Seq(Cargo(scenario.size))]
         /\ net["client"] \in Seq(Cargo(scenario.size)) /\ ~HasSyn(net["client"])
BY SizeType DEF IInv, SocketsOK, NetOK, Client, End

\* A step of the server that takes no segment.
LEMMA ServerRetains ==
  ASSUME IInv, NEW t, Retains(Server, t, scenario.size), Becomes("server", t, net),
         UNCHANGED scenario
  PROVE  IInv'
<1>1. Fits(t, scenario.size) /\ Calm(t) /\ (t.state = "SYN_RCVD" => Forked(t))
  BY ServerFacts DEF Retains, Kept, Forked
<1>2. t.accepted = Server.accepted /\ t.read = Server.read BY DEF Retains, Kept
<1>3. ClientCalls \/ HasSyn(net["server"]) => t.accepted = 0 /\ t.read = 0
  BY <1>2 DEF IInv, NothingAccepted
<1>4. /\ net \in [End -> Seq(Cargo(scenario.size))] /\ net["client"] = net["client"]
      /\ SynFirst(net["server"]) /\ (ClientCalls => SynOnly(net["server"]))
  BY ServerFacts
<1>5. PICK n : n = net OBVIOUS
<1>6. Becomes("server", t, n) BY <1>5
<1> QED BY <1>1, <1>3, <1>4, <1>5, <1>6, ServerStep

\* A step of a client past its SYN that takes no segment.
LEMMA ClientRetains ==
  ASSUME IInv, ~ClientCalls, NEW t, Gains(Client, t, scenario.size),
         NEW n, Becomes("client", t, n), UNCHANGED scenario,
         n \in [End -> Seq(Cargo(scenario.size))], n["server"] = net["server"],
         ~HasSyn(n["client"])
  PROVE  IInv'
<1> DEFINE x == [t EXCEPT !.out = <<>>]
<1>1. Fits(t, scenario.size) /\ Calm(t) /\ t.state # "SYN_RCVD"
  BY ClientFacts DEF Gains
<1>2. Fits(x, scenario.size) /\ x.state = t.state /\ x.retx = t.retx
  BY <1>1, ClientFacts, StoredFits
<1>3. t.out \in Seq(Cargo(scenario.size)) /\ ~HasSyn(t.out) BY <1>1, CleanSyn
<1>4. Calm(x) /\ x.state # "SYN_RCVD" BY <1>1, <1>2 DEF Calm
<1> QED BY <1>2, <1>3, <1>4, ClientStep

LEMMA ReceiveServer ==
  ASSUME IInv, NEW i \in Deliverable(net["server"])
  PROVE  Takes(Server, Receive("server", Server, net["server"][i]), scenario.size,
               net["server"][i])
<1> DEFINE z == scenario.size
           m == net["server"][i]
<1>1. m \in Cargo(z) /\ i \in DOMAIN net["server"]
  BY ServerFacts DEF Deliverable
<1>2. m.flags = SYN => m.seq = 0 /\ m.len = 0 BY <1>1, ServerFacts DEF SynFirst
<1>3. m.flags = SYN => Server.accepted = 0 /\ Server.read = 0
  BY <1>1 DEF IInv, NothingAccepted, HasSyn
<1> HIDE DEF m
<1>4. CASE Server.open
  <2>1. Receive("server", Server, m) = DoForwardUp(Server, m) BY <1>4 DEF Receive
  <2> QED BY <1>1, <1>2, <2>1, ServerFacts, ServerTakes DEF m
<1>5. CASE ~Server.open /\ listening
  <2>1. Receive("server", Server, m) = ProcessListen(Server, m) BY <1>5 DEF Receive
  <2> QED BY <1>1, <1>2, <1>3, <2>1, ServerFacts, ListenTakes DEF m
<1>6. CASE ~Server.open /\ ~listening
  <2>1. Receive("server", Server, m) = NoEndPointsFound(Server, m) BY <1>6 DEF Receive
  <2> QED BY <1>1, <2>1, ServerFacts, NoEndPointsRetains, RetainsTakes DEF m
<1> QED BY <1>4, <1>5, <1>6 DEF m

LEMMA DeliverServer ==
  ASSUME IInv, Deliver("server")
  PROVE  IInv'
<1> DEFINE z == scenario.size
           q == net["server"]
<1>1. PICK i \in Deliverable(q) :
        /\ Becomes("server", Receive("server", Server, q[i]),
                   [net EXCEPT !["server"] = RemoveAt(q, i)])
        /\ UNCHANGED scenario
  BY DEF Deliver, Server
<1> DEFINE m == q[i]
           t == Receive("server", Server, m)
           n == [net EXCEPT !["server"] = RemoveAt(q, i)]
<1>2. Takes(Server, t, z, m) BY ReceiveServer
<1>3. /\ i \in DOMAIN q /\ q \in Seq(Cargo(z)) /\ SynFirst(q) /\ (ClientCalls => SynOnly(q))
      /\ net \in [End -> Seq(Cargo(z))]
  BY ServerFacts DEF Deliverable
<1>4. /\ RemoveAt(q, i) \in Seq(Cargo(z)) /\ SynFirst(RemoveAt(q, i))
      /\ ClientCalls => SynOnly(RemoveAt(q, i))
      /\ HasSyn(RemoveAt(q, i)) => HasSyn(q)
  BY <1>3, RemoveSyn
<1>5. /\ n \in [End -> Seq(Cargo(z))] /\ n["client"] = net["client"]
      /\ n["server"] = RemoveAt(q, i)
  <2> HIDE DEF q
  <2> QED BY <1>3, <1>4 DEF End
<1>6. ASSUME ClientCalls \/ HasSyn(n["server"]) PROVE t.accepted = 0 /\ t.read = 0
  <2>1. ClientCalls \/ HasSyn(q) BY <1>4, <1>5, <1>6
  <2>2. Server.accepted = 0 /\ Server.read = 0 BY <2>1 DEF IInv, NothingAccepted
  <2>3. m.flags = SYN
    <3>1. CASE ClientCalls BY <1>3, <3>1 DEF SynOnly
    <3>2. CASE HasSyn(q) BY <1>3, <3>2, FirstSyn
    <3> QED BY <2>1, <3>1, <3>2
  <2> QED BY <1>2, <2>2, <2>3 DEF Takes
<1>7. /\ Fits(t, z) /\ Calm(t) /\ (t.state = "SYN_RCVD" => Forked(t))
  BY <1>2 DEF Takes
<1>8. Becomes("server", t, n) /\ UNCHANGED scenario BY <1>1
<1> HIDE DEF t, n
<1> QED BY <1>4, <1>5, <1>6, <1>7, <1>8, ServerStep

LEMMA DeliverClient ==
  ASSUME IInv, Deliver("client")
  PROVE  IInv'
<1> DEFINE z == scenario.size
           q == net["client"]
<1>1. PICK i \in Deliverable(q) :
        /\ Becomes("client", Receive("client", Client, q[i]),
                   [net EXCEPT !["client"] = RemoveAt(q, i)])
        /\ UNCHANGED scenario
  BY DEF Deliver, Client
<1> DEFINE m == q[i]
           t == Receive("client", Client, m)
           n == [net EXCEPT !["client"] = RemoveAt(q, i)]
<1>2. /\ i \in DOMAIN q /\ q \in Seq(Cargo(z)) /\ ~HasSyn(q)
      /\ net \in [End -> Seq(Cargo(z))] /\ z \in 1..N /\ Fits(Client, z) /\ Client.out = <<>>
  BY ClientFacts DEF Deliverable
<1>3. m \in Cargo(z) /\ m.flags # SYN BY <1>2 DEF HasSyn
<1>4. RemoveAt(q, i) \in Seq(Cargo(z)) /\ ~HasSyn(RemoveAt(q, i))
  BY <1>2, RemoveSyn
<1>5. /\ n \in [End -> Seq(Cargo(z))] /\ n["server"] = net["server"]
      /\ ~HasSyn(n["client"])
  <2> HIDE DEF q
  <2> QED BY <1>2, <1>4 DEF End
<1>6. Becomes("client", t, n) /\ UNCHANGED scenario BY <1>1
<1>7. t = IF Client.open THEN DoForwardUp(Client, m) ELSE NoEndPointsFound(Client, m)
  BY DEF Receive
<1> HIDE DEF m, n, t
<1>8. CASE ~Client.open
  <2>1. Retains(Client, t, z) BY <1>2, <1>3, <1>7, <1>8, NoEndPointsRetains
  <2>2. ~ClientCalls BY <1>8, ClientFacts DEF Calling
  <2> QED BY <1>2, <1>5, <1>6, <2>1, <2>2, RetainsGains, ClientRetains
<1>9. CASE Client.open /\ ~ClientCalls
  <2>1. Gains(Client, t, z)
    BY <1>2, <1>3, <1>7, <1>9, ClientFacts, DoForwardUpFits DEF Advances, ClientCalls
  <2> QED BY <1>5, <1>6, <1>9, <2>1, ClientRetains
<1>10. CASE Client.open /\ ClientCalls
  <2> DEFINE x == [t EXCEPT !.out = <<>>]
  <2>1. Calling(Client) BY <1>10, ClientFacts
  <2>2. \/ t = Client
        \/ Fits(t, z) /\ t.state \in {"ESTABLISHED", "CLOSED"} /\ t.retx # SYN
    BY <1>2, <1>3, <1>7, <1>10, <2>1, ProcessSynSentFits
  <2>3. CASE t = Client
    <3>1. x = Client /\ t.out = <<>> BY <1>2, <2>3 DEF Fits, Loose
    <3>2. SynOnly(t.out) /\ SynFirst(t.out) /\ t.out \in Seq(Cargo(z))
      BY <3>1 DEF SynOnly, SynFirst
    <3> HIDE DEF x
    <3>3. Fits(x, z) /\ Calling(x) BY <1>2, <2>1, <3>1
    <3> QED BY <1>5, <1>6, <1>10, <3>2, <3>3, ClientStep DEF x
  <2>4. CASE Fits(t, z) /\ t.state \in {"ESTABLISHED", "CLOSED"} /\ t.retx # SYN
    <3>1. Fits(x, z) /\ x.state = t.state /\ x.retx = t.retx BY <1>2, <2>4, StoredFits
    <3>2. t.out \in Seq(Cargo(z)) /\ ~HasSyn(t.out) BY <2>4, CleanSyn
    <3> HIDE DEF x
    <3>3. Calm(x) /\ x.state # "SYN_RCVD" BY <2>4, <3>1 DEF Calm
    <3> QED BY <1>5, <1>6, <3>1, <3>2, <3>3, ClientStep DEF x
  <2> QED BY <2>2, <2>3, <2>4
<1> QED BY <1>8, <1>9, <1>10

LEMMA LoseStep ==
  ASSUME IInv, NEW p \in End, Lose(p)
  PROVE  IInv'
<1> DEFINE z == scenario.size
<1>1. PICK i \in DOMAIN net[p] : net' = [net EXCEPT ![p] = RemoveAt(@, i)] BY DEF Lose
<1>2. /\ scenario \in Scenario /\ scenario.losses > 0 /\ sock' = sock
      /\ scenario' = [scenario EXCEPT !.losses = @ - 1]
  BY DEF Lose, IInv
<1>3. scenario' \in Scenario /\ scenario'.size = z
  <2>1. scenario.losses - 1 \in Nat BY <1>2, SizeType
  <2> QED BY <1>2, <2>1 DEF Scenario
<1>4. /\ net \in [End -> Seq(Cargo(z))] /\ ~HasSyn(net["client"]) /\ SynFirst(net["server"])
      /\ ClientCalls => SynOnly(net["server"])
  BY DEF IInv, NetOK
<1> DEFINE r == RemoveAt(net[p], i)
<1>5. /\ r \in Seq(Cargo(z)) /\ (HasSyn(r) => HasSyn(net[p]))
      /\ (SynFirst(net[p]) => SynFirst(r)) /\ (SynOnly(net[p]) => SynOnly(r))
  BY <1>1, <1>4, RemoveSyn
<1>6. net' = [net EXCEPT ![p] = r] BY <1>1
<1> HIDE DEF r
<1>7. ClientCalls' = ClientCalls /\ Client' = Client /\ Server' = Server
  BY <1>2 DEF ClientCalls, Client, Server
<1>8. SocketsOK' BY <1>2, <1>3, <1>7 DEF IInv, SocketsOK
<1>9. /\ net' \in [End -> Seq(Cargo(z))] /\ ~HasSyn(net'["client"])
      /\ SynFirst(net'["server"]) /\ (ClientCalls => SynOnly(net'["server"]))
      /\ HasSyn(net'["server"]) => HasSyn(net["server"])
  <2>1. CASE p = "client" BY <1>4, <1>5, <1>6, <2>1 DEF End
  <2>2. CASE p = "server" BY <1>4, <1>5, <1>6, <2>2 DEF End
  <2> QED BY <2>1, <2>2 DEF End
<1>10. NetOK' BY <1>3, <1>7, <1>9 DEF NetOK
<1>11. NothingAccepted' BY <1>7, <1>9 DEF IInv, NothingAccepted
<1> QED BY <1>3, <1>8, <1>10, <1>11 DEF IInv

\* The timers and the application of the server.
LEMMA ServerTimers ==
  ASSUME IInv, \/ RetxTimeout("server") \/ DelayedAck("server") \/ LastAck("server")
               \/ TimeWaitOver("server") \/ SendPending("server") \/ SinkStop
  PROVE  IInv'
<1> DEFINE z == scenario.size
<1>1. z \in 1..N /\ Fits(Server, z) /\ Calm(Server) BY ServerFacts
<1>2. CASE RetxTimeout("server")
  <2>1. Becomes("server", FireRetx(Server), net) /\ UNCHANGED scenario /\ Server.retx # NoFlag
    BY <1>2 DEF RetxTimeout, Server
  <2> QED BY <1>1, <2>1, FireRetxFits, ServerRetains
<1>3. CASE DelayedAck("server")
  <2>1. Becomes("server", DelAckTimeout(Server), net) /\ UNCHANGED scenario
    BY <1>3 DEF DelayedAck, Server
  <2> QED BY <1>1, <2>1, DelAckTimeoutFits, ServerRetains
<1>4. CASE LastAck("server")
  <2>1. Becomes("server", LastAckTimeout(Server), net) /\ UNCHANGED scenario
    BY <1>4 DEF LastAck, Server
  <2> QED BY <1>1, <2>1, LastAckTimeoutFits, ServerRetains
<1>5. CASE TimeWaitOver("server")
  <2>1. Becomes("server", CloseAndNotify(Server), net) /\ UNCHANGED scenario
    BY <1>5 DEF TimeWaitOver, Server
  <2> QED BY <1>1, <2>1, CloseAndNotifyFits, ServerRetains
<1>6. CASE SendPending("server")
  <2>1. Becomes("server", SendPendingData([Server EXCEPT !.pendingEvent = FALSE]), net)
        /\ UNCHANGED scenario
    BY <1>6 DEF SendPending, Server
  <2> QED BY <1>1, <2>1, PendingFits, ServerRetains
<1>7. CASE SinkStop
  <2> DEFINE t == IF Server.accepted > 0 /\ Server.state # "SYN_RCVD" THEN Close(Server)
                  ELSE Server
  <2>1. Becomes("server", t, net) /\ UNCHANGED scenario BY <1>7 DEF SinkStop, Server
  <2>2. Retains(Server, t, z) BY <1>1, CloseFits, RetainsSelf
  <2> HIDE DEF t
  <2> QED BY <2>1, <2>2, ServerRetains
<1> QED BY <1>2, <1>3, <1>4, <1>5, <1>6, <1>7

LEMMA ClientTimers ==
  ASSUME IInv, \/ RetxTimeout("client") \/ DelayedAck("client") \/ LastAck("client")
               \/ TimeWaitOver("client") \/ SendPending("client")
  PROVE  IInv'
<1> DEFINE z == scenario.size
<1>1. /\ z \in 1..N /\ Fits(Client, z) /\ Client.out = <<>>
      /\ net \in [End -> Seq(Cargo(z))] /\ ~HasSyn(net["client"])
  BY ClientFacts
<1>2. PICK n : n = net OBVIOUS
<1>3. CASE RetxTimeout("client") /\ ClientCalls
  <2> DEFINE t == FireRetx(Client)
             x == [t EXCEPT !.out = <<>>]
  <2>1. Becomes("client", t, n) /\ UNCHANGED scenario /\ Client.retx # NoFlag
    BY <1>2, <1>3 DEF RetxTimeout, Client
  <2>2. /\ t.out \in Sent(z) /\ Fits(x, z)
        /\ \A i \in DOMAIN t.out : t.out[i].flags = SYN /\ t.out[i].seq = 0 /\ t.out[i].len = 0
        /\ Calling(x) \/ (x.state = "CLOSED" /\ x.retx # SYN /\ t.out = <<>>)
    BY <1>1, <1>3, <2>1, ClientFacts, CallAgain
  <2> HIDE DEF t, x
  <2>3. SynOnly(t.out) /\ SynFirst(t.out) /\ t.out \in Seq(Cargo(z))
    BY <2>2 DEF SynOnly, SynFirst, Sent
  <2>4. CASE Calling(x)
    BY <1>1, <1>2, <1>3, <2>1, <2>2, <2>3, <2>4, ClientStep DEF x
  <2>5. CASE x.state = "CLOSED" /\ x.retx # SYN /\ t.out = <<>>
    <3>1. ~HasSyn(t.out) /\ Calm(x) /\ x.state # "SYN_RCVD" BY <2>5 DEF HasSyn, Calm
    <3> QED BY <1>1, <1>2, <2>1, <2>2, <2>3, <3>1, ClientStep DEF x
  <2> QED BY <2>2, <2>4, <2>5
<1>4. CASE RetxTimeout("client") /\ ~ClientCalls
  <2>1. Becomes("client", FireRetx(Client), n) /\ UNCHANGED scenario /\ Client.retx # NoFlag
    BY <1>2, <1>4 DEF RetxTimeout, Client
  <2>2. Gains(Client, FireRetx(Client), z)
    BY <1>1, <1>4, <2>1, ClientFacts, FireRetxFits, RetainsGains
  <2> QED BY <1>1, <1>2, <1>4, <2>1, <2>2, ClientRetains
<1>5. CASE DelayedAck("client")
  <2>1. /\ Becomes("client", DelAckTimeout(Client), n) /\ UNCHANGED scenario
        /\ Client.delAckEvent
    BY <1>2, <1>5 DEF DelayedAck, Client
  <2>2. Gains(Client, DelAckTimeout(Client), z) BY <1>1, DelAckTimeoutFits, RetainsGains
  <2>3. ~ClientCalls BY <2>1, ClientFacts DEF Calling
  <2> QED BY <1>1, <1>2, <2>1, <2>2, <2>3, ClientRetains
<1>6. CASE LastAck("client")
  <2>1. /\ Becomes("client", LastAckTimeout(Client), n) /\ UNCHANGED scenario
        /\ Client.lastAckEvent
    BY <1>2, <1>6 DEF LastAck, Client
  <2>2. Gains(Client, LastAckTimeout(Client), z) BY <1>1, LastAckTimeoutFits, RetainsGains
  <2>3. ~ClientCalls BY <2>1, ClientFacts DEF Calling
  <2> QED BY <1>1, <1>2, <2>1, <2>2, <2>3, ClientRetains
<1>7. CASE TimeWaitOver("client")
  <2>1. /\ Becomes("client", CloseAndNotify(Client), n) /\ UNCHANGED scenario
        /\ Client.timeWaitEvent
    BY <1>2, <1>7 DEF TimeWaitOver, Client
  <2>2. Gains(Client, CloseAndNotify(Client), z) BY <1>1, CloseAndNotifyFits, RetainsGains
  <2>3. ~ClientCalls BY <2>1, ClientFacts DEF Calling
  <2> QED BY <1>1, <1>2, <2>1, <2>2, <2>3, ClientRetains
<1>8. CASE SendPending("client")
  <2> DEFINE t == SendPendingData([Client EXCEPT !.pendingEvent = FALSE])
  <2>1. /\ Becomes("client", t, n) /\ UNCHANGED scenario /\ Client.pendingEvent
    BY <1>2, <1>8 DEF SendPending, Client
  <2>2. Gains(Client, t, z) BY <1>1, PendingFits, RetainsGains
  <2>3. ~ClientCalls BY <2>1, ClientFacts DEF Calling
  <2> HIDE DEF t
  <2> QED BY <1>1, <1>2, <2>1, <2>2, <2>3, ClientRetains
<1> QED BY <1>3, <1>4, <1>5, <1>6, <1>7, <1>8

-----------------------------------------------------------------------------
\* The invariant is inductive.

LEMMA UnusedFits ==
  ASSUME NEW z \in 1..N
  PROVE  Unused \in Loose(z)
<1>1. /\ NoFlag \in Events /\ {} \in Pieces(z) /\ {} \in Calls /\ 0 \in Upto(z)
      /\ <<>> \in Sent(z)
  BY DEF Events, Pieces, Calls, Upto, Sent
<1> QED BY <1>1, ConstantsType DEF Unused, Loose, State, NoFin

\* The client when it has sent its first SYN.
LEMMA ConnectFits ==
  ASSUME NEW z \in 1..N
  PROVE  LET c == [Connect EXCEPT !.state = "SYN_SENT"]
         IN  /\ Fits([c EXCEPT !.out = <<>>], z) /\ [c EXCEPT !.out = <<>>].out = <<>>
             /\ Calling([c EXCEPT !.out = <<>>])
             /\ c.out \in Sent(z) /\ SynOnly(c.out) /\ SynFirst(c.out)
<1> DEFINE u == [Unused EXCEPT !.open = TRUE]
           seg == [flags |-> SYN, seq |-> 0, ack |-> 0, len |-> 0]
           o == <<seg>>
           e == Emit(u, SYN, 0, 0)
           left == SynRetries - 1
           c == [Connect EXCEPT !.state = "SYN_SENT"]
           x == [c EXCEPT !.out = <<>>]
<1>1. u \in Loose(z) BY ZenonT(60), UnusedFits DEF Loose
<1>2. /\ u.open /\ u.state = "CLOSED" /\ u.nextTx = 0 /\ u.rxNext = 0 /\ u.out = <<>>
      /\ u.retx = NoFlag /\ u.synCount = SynRetries /\ u.head = 0 /\ u.txEnd = 0
      /\ u.read = 0 /\ ~u.delAckEvent /\ ~u.lastAckEvent /\ ~u.timeWaitEvent
      /\ ~u.pendingEvent
  BY DEF Unused
<1>3. SynRetries # 0 /\ left \in Int BY TcpConnectionAssumption
<1>4. SYN \in Events /\ "SYN_SENT" \in State /\ <<>> \in Sent(z)
  BY DEF Events, State, Sent
<1>5. o \in Sent(z) /\ SynOnly(o) /\ SynFirst(o)
  <2>1. SYN \in Flags BY DEF Flags
  <2>2. seg \in Cargo(z) BY <2>1 DEF Cargo
  <2>3. seg.flags = SYN /\ seg.seq = 0 /\ seg.len = 0 OBVIOUS
  <2> HIDE DEF seg
  <2> QED BY <2>2, <2>3 DEF Sent, SynOnly, SynFirst
<1>6. e = [u EXCEPT !.out = o]
  <2>1. Append(u.out, [flags |-> SYN, seq |-> 0, ack |-> u.rxNext, len |-> 0]) = o
    <3> HIDE DEF u
    <3> QED BY <1>2
  <2> HIDE DEF o, u
  <2> QED BY <2>1 DEF Emit
<1> HIDE DEF u, o, seg, left
<1>7. Connect = [e EXCEPT !.synCount = @ - 1, !.delAck = @, !.delAckEvent = @, !.retx = SYN]
  <2>1. "FIN" \notin SYN /\ "ACK" \notin SYN /\ "SYN" \in SYN /\ SYN \cap {"SYN", "FIN"} # {}
    BY DEF SYN
  <2>2. u.state \notin {"FIN_WAIT_1", "LAST_ACK", "CLOSING"} BY <1>2
  <2>3. e.retx = NoFlag BY <1>1, <1>2, <1>6 DEF Loose
  <2> HIDE DEF e
  <2> QED BY <1>2, <1>3, <2>1, <2>2, <2>3 DEF Connect, SendEmptyPacket, e, u
<1>8. c = [u EXCEPT !.out = o, !.synCount = left, !.retx = SYN, !.state = "SYN_SENT"]
  <2> HIDE DEF e
  <2> QED BY <1>1, <1>2, <1>6, <1>7 DEF Loose, left
<1> HIDE DEF c
<1>9. x = [u EXCEPT !.out = <<>>, !.synCount = left, !.retx = SYN, !.state = "SYN_SENT"]
      /\ c.out = o
  BY <1>1, <1>8 DEF Loose
<1>10. x \in Loose(z)
  <2> HIDE DEF x
  <2> QED BY <1>1, <1>3, <1>4, <1>9 DEF Loose
<1>11. /\ x.open /\ x.state = "SYN_SENT" /\ x.nextTx = 0 /\ x.out = <<>> /\ x.retx = SYN
       /\ x.head = 0 /\ x.txEnd = 0 /\ x.read = 0 /\ ~x.delAckEvent /\ ~x.lastAckEvent
       /\ ~x.timeWaitEvent /\ ~x.pendingEvent
  <2> HIDE DEF x
  <2> QED BY <1>1, <1>2, <1>9 DEF Loose
<1> HIDE DEF x
<1>12. Fits(x, z) /\ Calling(x) BY <1>10, <1>11 DEF Fits, Clean, Calling
<1> QED BY <1>5, <1>9, <1>11, <1>12 DEF c, x

LEMMA InitIInv == Init => IInv
<1> SUFFICES ASSUME Init PROVE IInv OBVIOUS
<1> DEFINE z == scenario.size
           c == [Connect EXCEPT !.state = "SYN_SENT"]
           x == [c EXCEPT !.out = <<>>]
<1>1. scenario \in Scenario /\ z \in 1..N
  BY TcpConnectionAssumption, SizeType DEF Init
<1>2. /\ Fits(x, z) /\ x.out = <<>> /\ Calling(x)
      /\ c.out \in Seq(Cargo(z)) /\ SynOnly(c.out) /\ SynFirst(c.out)
  BY <1>1, ConnectFits DEF Sent
<1>3. Fits(Unused, z) /\ Unused.out = <<>> /\ Calm(Unused) /\ Unused.state = "CLOSED"
      /\ Unused.accepted = 0 /\ Unused.read = 0
  <2>1. Unused \in Loose(z) BY <1>1, UnusedFits
  <2>2. NoFlag # SYN BY FlagsType
  <2> QED BY <2>1, <2>2 DEF Unused, Fits, Clean, Calm
<1> HIDE DEF c, x
<1>4. sock = [client |-> x, server |-> Unused] /\ net = [client |-> <<>>, server |-> c.out]
  BY DEF Init, c, x
<1>5. Client = x /\ Server = Unused /\ ClientCalls
  BY <1>2, <1>4 DEF Client, Server, ClientCalls, Calling
<1>6. x \in Loose(z) /\ Unused \in Loose(z) BY <1>2, <1>3 DEF Fits
<1>7. SocketsOK
  <2> SUFFICES /\ sock \in [End -> Loose(z)]
               /\ \A p \in End : Fits(sock[p], z) /\ sock[p].out = <<>>
    BY <1>2, <1>3, <1>5 DEF SocketsOK
  <2> QED BY <1>2, <1>3, <1>4, <1>6 DEF End
<1>8. NetOK
  <2>1. net["client"] = <<>> /\ net["server"] = c.out BY <1>4
  <2>2. <<>> \in Seq(Cargo(z)) OBVIOUS
  <2>3. net \in [End -> Seq(Cargo(z))]
    <3>1. ASSUME NEW S, NEW a \in S, NEW b \in S
          PROVE  [client |-> a, server |-> b] \in [End -> S]
      BY DEF End
    <3> QED BY <1>2, <1>4, <2>2, <3>1
  <2> QED BY <1>2, <2>1, <2>3 DEF NetOK, HasSyn
<1>9. NothingAccepted BY <1>3, <1>5 DEF NothingAccepted
<1> QED BY <1>1, <1>7, <1>8, <1>9 DEF IInv

LEMMA NextIInv == IInv /\ [Next]_vars => IInv'
<1> SUFFICES ASSUME IInv, [Next]_vars PROVE IInv' OBVIOUS
<1>1. CASE UNCHANGED vars
  BY <1>1 DEF vars, IInv, SocketsOK, NetOK, NothingAccepted, Client, Server, ClientCalls
<1>2. CASE SinkStop BY <1>2, ServerTimers
<1>3. CASE \E p \in End : Deliver(p) \/ Lose(p) \/ RetxTimeout(p) \/ DelayedAck(p)
                          \/ LastAck(p) \/ TimeWaitOver(p) \/ SendPending(p)
  <2>1. PICK p \in End : Deliver(p) \/ Lose(p) \/ RetxTimeout(p) \/ DelayedAck(p)
                         \/ LastAck(p) \/ TimeWaitOver(p) \/ SendPending(p)
    BY <1>3
  <2>2. CASE Lose(p) BY <2>2, LoseStep
  <2>3. CASE p = "client" /\ ~Lose(p) BY <2>1, <2>3, DeliverClient, ClientTimers
  <2>4. CASE p = "server" /\ ~Lose(p) BY <2>1, <2>4, DeliverServer, ServerTimers
  <2> QED BY <2>2, <2>3, <2>4 DEF End
<1> QED BY <1>1, <1>2, <1>3 DEF Next

\* What both ends are and what is on its way between them, at every moment:
\* the socket of the sink reads no further than it has received, acknowledges
\* no more than it has, and accepts nothing as long as a SYN can come.
THEOREM InductiveInvariant == Spec => []IInv
BY InitIInv, NextIInv, PTL DEF Spec

\* The sink accepts at most one connection of a flow and reads no byte of it
\* twice, whatever is lost, sent again or overtaken.
THEOREM DeliveredOnceCorrect == Spec => []DeliveredOnce
<1>1. IInv => DeliveredOnce
  <2> SUFFICES ASSUME IInv PROVE DeliveredOnce OBVIOUS
  <2>1. scenario.size \in 1..N /\ Server \in Loose(scenario.size)
    BY ServerFacts DEF Fits
  <2> QED BY <2>1 DEF DeliveredOnce, Loose, Upto
<1> QED BY <1>1, InductiveInvariant, PTL

-----------------------------------------------------------------------------
\* What a FIN says.

\* The client past its SYN: what it has still to send is the rest of the flow,
\* and its FIN comes with the last segment or after it.
Whole(s, z) ==
  /\ s.txEnd = z + 1
  /\ \A q \in s.unsent : q >= s.head
  /\ s.nextTx >= s.head
  /\ s.retx = FINACK => s.head > z

Sender(s, z) ==
  /\ ~s.shutdownSend
  /\ s.state = "FIN_WAIT_1" => s.highTx > z
  /\ s.state \in {"CLOSING", "TIME_WAIT"} => s.fin # NoFin
  /\ \A k \in DOMAIN s.out : FinLast(s.out[k], z)
  /\ s.open /\ s.state # "SYN_SENT" => Whole(s, z)

\* The socket of a sink that does not close first: it has nothing to send, and
\* it sends its FIN when it has read the whole flow.
Receiver(s, z) ==
  /\ s.state \notin {"FIN_WAIT_1", "FIN_WAIT_2", "CLOSING", "TIME_WAIT"}
  /\ s.txEnd <= s.head
  /\ s.retx = FINACK => s.read = z
  /\ \A k \in DOMAIN s.out : "FIN" \in s.out[k].flags => s.read = z

\* t says nothing of a FIN that s has not said, and has nothing else to send.
Stills(s, t) ==
  /\ t.head = s.head /\ t.txEnd = s.txEnd /\ t.unsent = s.unsent
  /\ t.nextTx = s.nextTx /\ t.highTx = s.highTx /\ t.shutdownSend = s.shutdownSend
  /\ t.fin = s.fin /\ t.read = s.read
  /\ t.open => s.open
  /\ t.retx = FINACK => s.retx = FINACK
  /\ t.state = s.state \/ (t.state = "CLOSED" /\ ~t.open)
  /\ \A k \in DOMAIN t.out :
       "FIN" \in t.out[k].flags => \E j \in DOMAIN s.out : s.out[j] = t.out[k]

LEMMA StillsSelf == ASSUME NEW s PROVE Stills(s, s)
BY DEF Stills

LEMMA StillsTrans ==
  ASSUME NEW s, NEW t, NEW u, Stills(s, t), Stills(t, u)
  PROVE  Stills(s, u)
<1>1. ASSUME NEW k \in DOMAIN u.out, "FIN" \in u.out[k].flags
      PROVE  \E j \in DOMAIN s.out : s.out[j] = u.out[k]
  <2>1. PICK i \in DOMAIN t.out : t.out[i] = u.out[k] BY <1>1 DEF Stills
  <2>2. "FIN" \in t.out[i].flags BY <1>1, <2>1
  <2>3. PICK j \in DOMAIN s.out : s.out[j] = t.out[i] BY <2>2 DEF Stills
  <2> QED BY <2>1, <2>3
<1> QED BY <1>1 DEF Stills

LEMMA StillsSender ==
  ASSUME NEW z, NEW s, NEW t, Sender(s, z), Stills(s, t)
  PROVE  Sender(t, z)
<1>1. ASSUME NEW k \in DOMAIN t.out PROVE FinLast(t.out[k], z)
  <2> SUFFICES ASSUME "FIN" \in t.out[k].flags PROVE FinLast(t.out[k], z) BY DEF FinLast
  <2>1. PICK j \in DOMAIN s.out : s.out[j] = t.out[k] BY DEF Stills
  <2> QED BY <2>1 DEF Sender
<1>2. t.open /\ t.state # "SYN_SENT" => Whole(t, z) BY DEF Stills, Sender, Whole
<1> QED BY <1>1, <1>2 DEF Stills, Sender

LEMMA StillsReceiver ==
  ASSUME NEW z, NEW s, NEW t, Receiver(s, z), Stills(s, t)
  PROVE  Receiver(t, z)
<1>1. ASSUME NEW k \in DOMAIN t.out, "FIN" \in t.out[k].flags PROVE t.read = z
  <2>1. PICK j \in DOMAIN s.out : s.out[j] = t.out[k] BY <1>1 DEF Stills
  <2>2. "FIN" \in s.out[j].flags BY <1>1, <2>1
  <2> QED BY <2>2 DEF Receiver, Stills
<1> QED BY <1>1 DEF Stills, Receiver

LEMMA CancelStills ==
  ASSUME NEW z, NEW s \in Loose(z)
  PROVE  Stills(s, CancelAllTimers(s))
<1>1. NoFlag # FINACK BY DEF NoFlag, FINACK
<1> QED BY <1>1 DEF CancelAllTimers, Loose, Stills

LEMMA DeallocateStills ==
  ASSUME NEW z \in 1..N, NEW s, Fits(s, z)
  PROVE  Stills(s, DeallocateEndPoint(s)) /\ ~DeallocateEndPoint(s).open
         /\ DeallocateEndPoint(s).state = s.state
<1>1. ASSUME NEW c \in Loose(z)
      PROVE  Stills(c, [c EXCEPT !.open = FALSE]) /\ [c EXCEPT !.open = FALSE].open = FALSE
             /\ [c EXCEPT !.open = FALSE].state = c.state
  BY <1>1 DEF Loose, Stills
<1>2. s \in Loose(z) BY DEF Fits
<1>3. CancelAllTimers(s) \in Loose(z) BY CancelFits DEF Retains, Fits
<1>4. Stills(s, CancelAllTimers(s)) BY <1>2, CancelStills
<1>5. CancelAllTimers(s).state = s.state BY <1>2 DEF CancelAllTimers, Loose
<1>6. CASE s.open
  <2> DEFINE c == CancelAllTimers(s)
  <2> HIDE DEF c
  <2>1. DeallocateEndPoint(s) = [c EXCEPT !.open = FALSE] BY <1>6 DEF DeallocateEndPoint, c
  <2>2. c \in Loose(z) /\ Stills(s, c) /\ c.state = s.state BY <1>3, <1>4, <1>5 DEF c
  <2> QED BY <1>1, <2>1, <2>2, StillsTrans
<1>7. CASE ~s.open BY <1>7, StillsSelf DEF DeallocateEndPoint
<1> QED BY <1>6, <1>7

LEMMA CloseAndNotifyStills ==
  ASSUME NEW z \in 1..N, NEW s, Fits(s, z)
  PROVE  Stills(s, CloseAndNotify(s))
<1> DEFINE w == s.told \cup {"normal"}
           c == [s EXCEPT !.state = "CLOSED", !.told = w]
           t == CloseAndNotify(s)
<1>1. t = DeallocateEndPoint(c) BY DEF CloseAndNotify
<1>2. w \in Calls BY DEF Fits, Loose, Calls
<1> HIDE DEF w
<1>3. Fits(c, z) BY <1>2 DEF Fits, Loose, Clean, State
<1>4. /\ c.head = s.head /\ c.txEnd = s.txEnd /\ c.unsent = s.unsent
      /\ c.nextTx = s.nextTx /\ c.highTx = s.highTx /\ c.shutdownSend = s.shutdownSend
      /\ c.fin = s.fin /\ c.read = s.read /\ c.open = s.open /\ c.retx = s.retx
      /\ c.out = s.out /\ c.state = "CLOSED"
  BY DEF Fits, Loose
<1> HIDE DEF c
<1>5. Stills(c, t) /\ ~t.open /\ t.state = c.state BY <1>1, <1>3, DeallocateStills
<1> HIDE DEF t
<1> QED BY <1>4, <1>5 DEF Stills, t

\* A segment that is no FIN.
LEMMA SendEmptyPacketStills ==
  ASSUME NEW z \in 1..N, NEW s, Fits(s, z), NEW f \in {ACK, RST, SYN, SYNACK}
  PROVE  Stills(s, SendEmptyPacket(s, f))
<1> DEFINE pastFin == s.state \in {"FIN_WAIT_1", "LAST_ACK", "CLOSING"}
           seq == IF pastFin THEN s.nextTx + 1 ELSE s.nextTx
           seg == [flags |-> f, seq |-> seq, ack |-> s.rxNext, len |-> 0]
           o == Append(s.out, seg)
           again == f \cap {"SYN", "FIN"} # {}
           a == IF "SYN" \in f THEN s.synCount - 1 ELSE s.synCount
           b == IF "ACK" \in f THEN 0 ELSE s.delAck
           c == IF "ACK" \in f THEN FALSE ELSE s.delAckEvent
           d == IF again /\ s.retx = NoFlag THEN f ELSE s.retx
           t == [s EXCEPT !.out = o, !.synCount = a, !.delAck = b, !.delAckEvent = c,
                          !.retx = d]
<1>1. "FIN" \notin f /\ f # FINACK BY FlagsType
<1>2. SendEmptyPacket(s, f) = IF ~s.open THEN s
         ELSE IF "SYN" \in f /\ s.synCount = 0 THEN CloseAndNotify(s) ELSE t
  BY <1>1 DEF SendEmptyPacket, Emit, Fits, Loose
<1>3. seg.flags = f OBVIOUS
<1>4. s.out \in Sent(z) BY DEF Fits, Loose
<1>5. \A k \in DOMAIN o : "FIN" \in o[k].flags => \E j \in DOMAIN s.out : s.out[j] = o[k]
  <2> HIDE DEF seg
  <2>1. DOMAIN o = 1..(Len(s.out) + 1) /\ DOMAIN s.out = 1..Len(s.out)
        /\ \A k \in DOMAIN o : o[k] = IF k <= Len(s.out) THEN s.out[k] ELSE seg
    BY <1>4 DEF Sent
  <2> QED BY <1>1, <1>3, <2>1
<1>6. d = FINACK => s.retx = FINACK BY <1>1
<1> HIDE DEF o, a, b, c, d
<1>7. Stills(s, t)
  <2>1. /\ t.head = s.head /\ t.txEnd = s.txEnd /\ t.unsent = s.unsent
        /\ t.nextTx = s.nextTx /\ t.highTx = s.highTx /\ t.shutdownSend = s.shutdownSend
        /\ t.fin = s.fin /\ t.read = s.read /\ t.open = s.open /\ t.retx = d
        /\ t.out = o /\ t.state = s.state
    BY DEF Fits, Loose
  <2> HIDE DEF t
  <2> QED BY <1>5, <1>6, <2>1 DEF Stills
<1> HIDE DEF t
<1> QED BY <1>2, <1>7, StillsSelf, CloseAndNotifyStills

LEMMA SendRSTStills ==
  ASSUME NEW z \in 1..N, NEW s, Fits(s, z)
  PROVE  Stills(s, SendRST(s))
<1> DEFINE t == SendEmptyPacket(s, RST)
           w == t.told \cup {"error"}
           u == [t EXCEPT !.told = w]
<1>1. Fits(t, z) /\ Stills(s, t) BY SendEmptyPacketFits, SendEmptyPacketStills DEF Retains
<1>2. SendRST(s) = DeallocateEndPoint(u) BY DEF SendRST
<1> HIDE DEF t
<1>3. w \in Calls BY <1>1 DEF Fits, Loose, Calls
<1> HIDE DEF w
<1>4. Fits(u, z) /\ Stills(t, u) BY <1>1, <1>3 DEF Fits, Loose, Clean, Stills
<1> HIDE DEF u
<1> QED BY <1>1, <1>2, <1>4, DeallocateStills, StillsTrans

LEMMA RefuseStills ==
  ASSUME NEW z \in 1..N, NEW s, NEW m, Fits(s, z)
  PROVE  Stills(s, Refuse(s, m))
<1>1. Fits(SendRST(s), z) BY SendRSTFits DEF Retains
<1>2. Stills(s, CloseAndNotify(SendRST(s)))
  BY <1>1, SendRSTStills, CloseAndNotifyStills, StillsTrans
<1> QED BY <1>2, CloseAndNotifyStills DEF Refuse

-----------------------------------------------------------------------------
\* The client sends its FIN with the last segment or after it.

Goes(s, t, z) ==
  /\ Sender(t, z)
  /\ t.fin = s.fin
  /\ t.state = "FIN_WAIT_2" => s.state = "FIN_WAIT_2"

LEMMA StillsGoes ==
  ASSUME NEW z, NEW s, NEW t, Sender(s, z), Stills(s, t)
  PROVE  Goes(s, t, z)
BY StillsSender DEF Goes, Stills

LEMMA GoesTrans ==
  ASSUME NEW z, NEW s, NEW t, NEW u, Goes(s, t, z), Goes(t, u, z)
  PROVE  Goes(s, u, z)
BY DEF Goes

LEMMA GoesSelf == ASSUME NEW z, NEW s, Sender(s, z) PROVE Goes(s, s, z)
BY DEF Goes

\* What is appended to the segments of a step.
LEMMA AppendFins ==
  ASSUME NEW z, NEW S, NEW o \in Seq(S), NEW m,
         \A k \in DOMAIN o : FinLast(o[k], z), FinLast(m, z)
  PROVE  \A k \in DOMAIN Append(o, m) : FinLast(Append(o, m)[k], z)
<1>1. DOMAIN Append(o, m) = 1..(Len(o) + 1) /\ DOMAIN o = 1..Len(o)
      /\ \A k \in DOMAIN Append(o, m) : Append(o, m)[k] = IF k <= Len(o) THEN o[k] ELSE m
  OBVIOUS
<1> QED BY <1>1

\* A FIN of its own is one past the flow.
LEMMA SendFinGoes ==
  ASSUME NEW z \in 1..N, NEW s, Fits(s, z), Sender(s, z), NEW f \in {FIN, FINACK},
         s.state # "SYN_SENT", s.open => s.head > z
  PROVE  Goes(s, SendEmptyPacket(s, f), z)
<1> DEFINE seg == [flags |-> FINACK, seq |-> s.nextTx, ack |-> s.rxNext, len |-> 0]
           o == Append(s.out, seg)
           none == 0
           d == IF s.retx = NoFlag THEN FINACK ELSE s.retx
           t == [s EXCEPT !.out = o, !.synCount = @, !.delAck = none,
                          !.delAckEvent = FALSE, !.retx = d]
<1>1. SendEmptyPacket(s, f) = IF ~s.open THEN s ELSE t
  <2>1. "FIN" \in f /\ "SYN" \notin f /\ f \cup ACK = FINACK /\ "ACK" \in FINACK
        /\ FINACK \cap {"SYN", "FIN"} # {}
    BY FlagsType DEF FINACK, ACK
  <2> QED BY <2>1 DEF SendEmptyPacket, Emit, Fits, Loose
<1>2. CASE s.open
  <2>1. Whole(s, z) /\ s.head > z BY <1>2 DEF Sender
  <2>2. s.nextTx \in Nat /\ s.head \in Nat /\ s.out \in Sent(z) BY DEF Fits, Loose
  <2>3. seg.seq = s.nextTx /\ seg.len = 0 OBVIOUS
  <2>4. FinLast(seg, z)
    <3> HIDE DEF seg
    <3> QED BY <2>1, <2>2, <2>3 DEF FinLast, Whole
  <2>5. \A k \in DOMAIN o : FinLast(o[k], z)
    <3> HIDE DEF seg
    <3> QED BY <2>2, <2>4, AppendFins DEF Sender, Sent
  <2> HIDE DEF o, none, d
  <2>6. /\ t.head = s.head /\ t.txEnd = s.txEnd /\ t.unsent = s.unsent
        /\ t.nextTx = s.nextTx /\ t.highTx = s.highTx /\ t.shutdownSend = s.shutdownSend
        /\ t.fin = s.fin /\ t.open = s.open /\ t.out = o /\ t.state = s.state
    BY DEF Fits, Loose
  <2> HIDE DEF t
  <2>7. Whole(t, z) BY <2>1, <2>6 DEF Whole
  <2> QED BY <1>1, <1>2, <2>5, <2>6, <2>7 DEF Goes, Sender
<1>3. CASE ~s.open BY <1>1, <1>3, GoesSelf
<1> QED BY <1>2, <1>3

LEMMA SendDataPacketGoes ==
  ASSUME NEW z \in 1..N, NEW s, Fits(s, z), Sender(s, z), NEW q \in s.unsent,
         s.open, s.state # "SYN_SENT"
  PROVE  Goes(s, SendDataPacket(s, q), z)
<1> DEFINE fin == s.closeOnEmpty /\ q + 1 >= s.txEnd
           x == CASE fin /\ s.state = "ESTABLISHED" -> "FIN_WAIT_1"
                  [] fin /\ s.state = "CLOSE_WAIT" -> "LAST_ACK"
                  [] OTHER -> s.state
           flags == IF fin THEN FINACK ELSE ACK
           seg == [flags |-> flags, seq |-> q, ack |-> s.rxNext, len |-> 1]
           o == Append(s.out, seg)
           r == IF s.retx = NoFlag THEN RTO ELSE s.retx
           u == s.unsent \ {q}
           n == q + 1
           h == Larger(s.highTx, n)
           none == 0
           t == [s EXCEPT !.state = x, !.out = o, !.delAck = none, !.delAckEvent = FALSE,
                          !.retx = r, !.unsent = u, !.nextTx = n, !.highTx = h]
<1>1. SendDataPacket(s, q) = t
  BY DEF SendDataPacket, Emit, Fits, Loose
<1>2. Whole(s, z) BY DEF Sender
<1>3. /\ q \in 1..z /\ s.head \in Nat /\ s.highTx \in Nat /\ s.out \in Sent(z)
      /\ q >= s.head
  BY <1>2 DEF Fits, Loose, Pieces, Whole
<1>4. fin => n > z BY <1>2, <1>3 DEF Whole
<1>5. FinLast(seg, z)
  <2>1. seg.flags = flags /\ seg.seq = q /\ seg.len = 1 OBVIOUS
  <2>2. "FIN" \in flags => fin BY FlagsType
  <2> HIDE DEF seg, fin
  <2> QED BY <1>4, <2>1, <2>2 DEF FinLast
<1>6. \A k \in DOMAIN o : FinLast(o[k], z)
  <2> HIDE DEF seg
  <2> QED BY <1>3, <1>5, AppendFins DEF Sender, Sent
<1>7. n >= s.head /\ h \in Nat /\ h >= n /\ h >= s.highTx BY <1>3 DEF Larger
<1>8. r = FINACK => s.retx = FINACK BY DEF RTO, FINACK
<1>9. \A p \in u : p >= s.head BY <1>2 DEF Whole
<1>10. /\ x = "FIN_WAIT_1" => fin \/ s.state = "FIN_WAIT_1"
       /\ x \in {"CLOSING", "TIME_WAIT", "FIN_WAIT_2", "SYN_SENT"} => x = s.state
  OBVIOUS
<1> HIDE DEF fin, x, o, r, u, n, h, none
<1>11. /\ t.head = s.head /\ t.txEnd = s.txEnd /\ t.unsent = u
       /\ t.nextTx = n /\ t.highTx = h /\ t.shutdownSend = s.shutdownSend
       /\ t.fin = s.fin /\ t.open = s.open /\ t.retx = r /\ t.out = o /\ t.state = x
  BY DEF Fits, Loose
<1> HIDE DEF t
<1>12. t.state = "FIN_WAIT_1" => t.highTx > z
  <2>1. n > z => h > z BY <1>3, <1>7 DEF n
  <2>2. s.state = "FIN_WAIT_1" => h > z BY <1>3, <1>7 DEF Sender
  <2> QED BY <1>4, <1>10, <1>11, <2>1, <2>2
<1>13. Whole(t, z) BY <1>2, <1>7, <1>8, <1>9, <1>11 DEF Whole
<1> QED BY <1>1, <1>6, <1>10, <1>11, <1>12, <1>13 DEF Goes, Sender

LEMMA SendNextGoes ==
  ASSUME NEW z \in 1..N, NEW s, Fits(s, z), Sender(s, z), s.open, s.state # "SYN_SENT"
  PROVE  /\ Goes(s, SendNext(s), z)
         /\ SendNext(s).open /\ SendNext(s).state # "SYN_SENT"
<1>1. s.unsent \in SUBSET (1..z) BY DEF Fits, Loose, Pieces
<1>2. s.unsent # {} => Least(s.unsent) \in s.unsent BY <1>1, LeastFits
<1>3. ASSUME NEW q \in s.unsent
      PROVE  SendDataPacket(s, q).open /\ SendDataPacket(s, q).state # "SYN_SENT"
  BY DEF SendDataPacket, Emit, Fits, Loose
<1> QED BY <1>2, <1>3, SendDataPacketGoes, GoesSelf DEF SendNext

LEMMA SendPendingDataGoes ==
  ASSUME NEW z \in 1..N, NEW s, Fits(s, z), Sender(s, z), s.state # "SYN_SENT"
  PROVE  Goes(s, SendPendingData(s), z)
<1>1. CASE s.open
  <2> DEFINE t == SendNext(s)
  <2>1. Goes(s, t, z) /\ t.open /\ t.state # "SYN_SENT" BY <1>1, SendNextGoes
  <2>2. Fits(t, z) BY SendNextFits DEF Retains
  <2>3. Then(SendNext(s), SendNext) = SendNext(t) BY DEF Then
  <2> HIDE DEF t
  <2>4. Goes(t, SendNext(t), z) BY <2>1, <2>2, SendNextGoes DEF Goes
  <2> QED BY <2>1, <2>3, <2>4, GoesTrans, GoesSelf DEF SendPendingData
<1>2. CASE ~s.open BY <1>2, GoesSelf DEF SendPendingData
<1> QED BY <1>1, <1>2

LEMMA TurnGoes ==
  ASSUME NEW z \in 1..N, NEW s, Fits(s, z), Sender(s, z), s.state # "SYN_SENT",
         NEW x \in State \ {"SYN_SENT", "FIN_WAIT_1"},
         x \in {"CLOSING", "TIME_WAIT"} => s.fin # NoFin
  PROVE  /\ Sender([s EXCEPT !.state = x], z)
         /\ [s EXCEPT !.state = x].fin = s.fin /\ [s EXCEPT !.state = x].state = x
<1> DEFINE t == [s EXCEPT !.state = x]
<1>1. /\ t.head = s.head /\ t.txEnd = s.txEnd /\ t.unsent = s.unsent
      /\ t.nextTx = s.nextTx /\ t.highTx = s.highTx /\ t.shutdownSend = s.shutdownSend
      /\ t.fin = s.fin /\ t.open = s.open /\ t.retx = s.retx /\ t.out = s.out /\ t.state = x
  BY DEF Fits, Loose
<1> HIDE DEF t
<1>2. s.open => Whole(t, z) BY <1>1 DEF Sender, Whole
<1> QED BY <1>1, <1>2 DEF Sender, t

LEMMA TimeWaitGoes ==
  ASSUME NEW z \in 1..N, NEW s, Fits(s, z), Sender(s, z), s.state # "SYN_SENT", s.fin # NoFin
  PROVE  Goes(s, TimeWait(s), z)
<1> DEFINE c == CancelAllTimers(s)
           x == [c EXCEPT !.state = "TIME_WAIT"]
           w == x.told \cup {"normal"}
           t == [x EXCEPT !.told = w, !.timeWaitEvent = TRUE]
<1>1. Fits(c, z) /\ Stills(s, c) BY CancelFits, CancelStills DEF Retains, Fits
<1>2. c.state = s.state BY DEF CancelAllTimers, Fits, Loose
<1>3. Sender(c, z) /\ c.fin = s.fin BY <1>1, StillsSender DEF Stills
<1>4. TimeWait(s) = t
  <2>1. TimeWait(s) = [c EXCEPT !.state = "TIME_WAIT", !.told = @ \cup {"normal"},
                              !.timeWaitEvent = TRUE]
    BY DEF TimeWait
  <2> HIDE DEF c
  <2> QED BY <1>1, <2>1 DEF Fits, Loose
<1> HIDE DEF c
<1>5. Sender(x, z) /\ x.fin = c.fin /\ x.state = "TIME_WAIT"
  BY <1>1, <1>2, <1>3, TurnGoes DEF State
<1>6. Fits(x, z) BY <1>1, TurnFits DEF State
<1> HIDE DEF x
<1>7. w \in Calls BY <1>6 DEF Fits, Loose, Calls
<1> HIDE DEF w
<1>8. Stills(x, t) BY <1>6, <1>7 DEF Fits, Loose, Stills
<1>9. t.state = "TIME_WAIT" BY <1>5, <1>6, <1>7 DEF Fits, Loose
<1> HIDE DEF t
<1>10. Sender(t, z) /\ t.fin = x.fin BY <1>5, <1>8, StillsSender DEF Stills
<1> QED BY <1>3, <1>4, <1>5, <1>9, <1>10 DEF Goes

\* The client does not shut its sending down: it only acknowledges the FIN.
LEMMA DoPeerCloseGoes ==
  ASSUME NEW z \in 1..N, NEW s, Fits(s, z), Sender(s, z), s.state # "SYN_SENT"
  PROVE  Goes(s, DoPeerClose(s), z)
<1> DEFINE x == [s EXCEPT !.state = "CLOSE_WAIT"]
           w == x.told \cup {"normal"}
           waits == [x EXCEPT !.told = w]
           answer == SendEmptyPacket(waits, ACK)
           late == answer.lastAckEvent \/ answer.state = "LAST_ACK"
           t == [answer EXCEPT !.lastAckEvent = late]
<1>1. Fits(x, z) BY TurnFits DEF State
<1>2. Sender(x, z) /\ x.fin = s.fin /\ x.state = "CLOSE_WAIT" BY TurnGoes DEF State
<1>3. w \in Calls BY <1>1 DEF Fits, Loose, Calls
<1>4. DoPeerClose(s) = t
  <2>1. [s EXCEPT !.state = "CLOSE_WAIT", !.told = @ \cup {"normal"}] = waits
    BY DEF Fits, Loose
  <2>2. ~s.shutdownSend BY DEF Sender
  <2> HIDE DEF waits
  <2> QED BY <2>1, <2>2 DEF DoPeerClose
<1> HIDE DEF x, w
<1>5. Fits(waits, z) /\ Stills(x, waits) BY <1>1, <1>3 DEF Fits, Loose, Clean, Stills
<1> HIDE DEF waits
<1>6. Fits(answer, z) /\ Stills(waits, answer)
  BY <1>5, SendEmptyPacketFits, SendEmptyPacketStills DEF Retains
<1> HIDE DEF answer
<1>7. late \in BOOLEAN
  <2>1. answer.lastAckEvent \in BOOLEAN BY <1>6 DEF Fits, Loose
  <2> QED BY <2>1, Zenon
<1> HIDE DEF late
<1>8. Stills(answer, t) BY <1>6, <1>7 DEF Fits, Loose, Stills
<1> HIDE DEF t
<1>9. Stills(x, t) BY <1>5, <1>6, <1>8, StillsTrans
<1>10. Goes(x, t, z) BY <1>2, <1>9, StillsGoes
<1> QED BY <1>2, <1>4, <1>10 DEF Goes

\* An acknowledgement moves the head, and the next byte with it.
LEMMA AckedGoes ==
  ASSUME NEW z \in 1..N, NEW s, Fits(s, z), Sender(s, z), s.state # "SYN_SENT",
         NEW a \in Nat
  PROVE  /\ Goes(s, ProcessAck(DiscardUpTo(s, a), a, s.head), z)
         /\ ProcessAck(DiscardUpTo(s, a), a, s.head).state = s.state
<1> DEFINE h == Larger(s.head, a)
           u == {q \in s.unsent : q >= a}
           d == DiscardUpTo(s, a)
           t == ProcessAck(d, a, s.head)
<1>1. /\ h \in Nat /\ h >= s.head /\ h >= a /\ (a <= s.head => h = s.head)
      /\ (a > s.head => h = a) /\ s.head \in Nat /\ s.nextTx \in Nat
  BY DEF Larger, Fits, Loose
<1>2. Fits(d, z) BY DiscardUpToFits DEF Retains
<1>3. /\ d.head = h /\ d.txEnd = s.txEnd /\ d.unsent = u
      /\ d.nextTx = s.nextTx /\ d.highTx = s.highTx /\ d.shutdownSend = s.shutdownSend
      /\ d.fin = s.fin /\ d.open = s.open /\ d.retx = s.retx /\ d.out = s.out
      /\ d.state = s.state
  BY DEF DiscardUpTo, Fits, Loose
<1> HIDE DEF d, h
<1>4. CASE a > s.head
  <2> DEFINE restarted == IF d.state = "SYN_RCVD" THEN d.retx ELSE RTO
             idle == TxSize(d) = 0 /\ d.state \notin {"FIN_WAIT_1", "CLOSING"}
             n == Larger(d.nextTx, a)
             r == IF idle THEN NoFlag ELSE restarted
             v == IF a < d.recover THEN d.recover ELSE 0
  <2>1. t = [d EXCEPT !.dataRetr = DataRetries, !.nextTx = n, !.retx = r,
                      !.window = N, !.recover = v]
    BY <1>4 DEF ProcessAck, NewAck
  <2>2. n >= a /\ n >= s.nextTx BY <1>1, <1>3 DEF Larger
  <2>3. r = FINACK => s.retx = FINACK BY <1>3 DEF RTO, FINACK, NoFlag
  <2> HIDE DEF n, r, v, t
  <2>4. /\ t.head = h /\ t.txEnd = s.txEnd /\ t.unsent = u
        /\ t.nextTx = n /\ t.highTx = s.highTx /\ t.shutdownSend = s.shutdownSend
        /\ t.fin = s.fin /\ t.open = s.open /\ t.retx = r /\ t.out = s.out
        /\ t.state = s.state
    BY <1>2, <1>3, <2>1 DEF Fits, Loose
  <2>5. s.open => Whole(t, z)
    <3> SUFFICES ASSUME s.open PROVE Whole(t, z) OBVIOUS
    <3>1. Whole(s, z) BY DEF Sender
    <3>2. \A q \in u : q >= h BY <1>1, <1>4
    <3>3. n >= h BY <1>1, <1>4, <2>2
    <3>4. r = FINACK => h > z BY <1>1, <2>3, <3>1 DEF Whole
    <3> QED BY <2>4, <3>1, <3>2, <3>3, <3>4 DEF Whole
  <2> QED BY <2>4, <2>5 DEF Goes, Sender, t, d
<1>5. CASE a <= s.head
  <2> DEFINE n == IF a = s.head /\ a > d.highTx THEN a ELSE d.nextTx
  <2>1. t = [d EXCEPT !.nextTx = n]
    <3>1. ~(a > s.head) BY <1>1, <1>5
    <3>2. d = [d EXCEPT !.nextTx = d.nextTx] BY <1>2 DEF Fits, Loose
    <3> QED BY <3>1, <3>2 DEF ProcessAck
  <2>2. n = s.head \/ n = s.nextTx BY <1>3
  <2> HIDE DEF n, t
  <2>3. /\ t.head = h /\ t.txEnd = s.txEnd /\ t.unsent = u
        /\ t.nextTx = n /\ t.highTx = s.highTx /\ t.shutdownSend = s.shutdownSend
        /\ t.fin = s.fin /\ t.open = s.open /\ t.retx = s.retx /\ t.out = s.out
        /\ t.state = s.state
    BY <1>2, <1>3, <2>1 DEF Fits, Loose
  <2>4. s.open => Whole(t, z)
    <3> SUFFICES ASSUME s.open PROVE Whole(t, z) OBVIOUS
    <3>1. Whole(s, z) BY DEF Sender
    <3>2. \A q \in u : q >= h BY <1>1, <1>5, <3>1 DEF Whole
    <3>3. n >= h BY <1>1, <1>5, <2>2, <3>1 DEF Whole
    <3> QED BY <1>1, <1>5, <2>3, <3>1, <3>2, <3>3 DEF Whole
  <2> QED BY <2>3, <2>4 DEF Goes, Sender, t, d
<1> QED BY <1>1, <1>4, <1>5

LEMMA ReTxTimeoutGoes ==
  ASSUME NEW z \in 1..N, NEW s, Fits(s, z), Sender(s, z), s.state # "SYN_SENT"
  PROVE  Goes(s, ReTxTimeout(s), z)
<1> DEFINE w == s.told \cup {"error"}
           u == s.head..(s.txEnd - 1)
           one == 1
           d == s.dataRetr - 1
           v == [s EXCEPT !.told = w]
           backOff == [s EXCEPT !.dataRetr = @ - 1, !.unsent = s.head..(s.txEnd - 1),
                                !.window = 1, !.recover = s.highTx]
<1>1. Goes(s, DeallocateEndPoint(v), z)
  <2>1. w \in Calls BY DEF Fits, Loose, Calls
  <2> HIDE DEF w
  <2>2. Fits(v, z) /\ Stills(s, v) BY <2>1 DEF Fits, Loose, Clean, Stills
  <2> HIDE DEF v
  <2>3. Stills(s, DeallocateEndPoint(v)) BY <2>2, DeallocateStills, StillsTrans
  <2> QED BY <2>3, StillsGoes
<1>2. Goes(s, SendPendingData(backOff), z)
  <2>1. u \in Pieces(z) /\ one \in Nat /\ d \in Int /\ s.highTx \in Nat /\ s.head \in Nat
        /\ s.txEnd \in Nat
    BY DEF Fits, Loose, Pieces
  <2>2. backOff = [s EXCEPT !.dataRetr = d, !.unsent = u, !.window = one,
                            !.recover = s.highTx]
    OBVIOUS
  <2>3. \A q \in u : q >= s.head BY <2>1
  <2> HIDE DEF u, one, d, backOff
  <2>4. Fits(backOff, z) BY ZenonT(60), <2>1, <2>2 DEF Fits, Loose, Clean
  <2>5. /\ backOff.head = s.head /\ backOff.txEnd = s.txEnd /\ backOff.unsent = u
        /\ backOff.nextTx = s.nextTx /\ backOff.highTx = s.highTx
        /\ backOff.shutdownSend = s.shutdownSend /\ backOff.fin = s.fin
        /\ backOff.open = s.open /\ backOff.retx = s.retx /\ backOff.out = s.out
        /\ backOff.state = s.state
    BY <2>2 DEF Fits, Loose
  <2>6. s.open => Whole(backOff, z) BY <2>3, <2>5 DEF Sender, Whole
  <2>7. Goes(s, backOff, z) BY <2>5, <2>6 DEF Goes, Sender
  <2> QED BY <2>4, <2>5, <2>7, SendPendingDataGoes, GoesTrans DEF Goes
<1>3. CASE TxSize(s) = 0
  <2>1. s.open => s.head > z BY <1>3 DEF Sender, Whole, TxSize, Larger, Fits, Loose
  <2>2. Goes(s, SendEmptyPacket(s, FIN), z) BY <2>1, SendFinGoes
  <2>3. ReTxTimeout(s) \in {s, SendEmptyPacket(s, FIN)} BY <1>3 DEF ReTxTimeout
  <2> QED BY <2>2, <2>3, GoesSelf
<1>4. CASE TxSize(s) # 0
  <2>1. ReTxTimeout(s) \in {s, SendPendingData(backOff), DeallocateEndPoint(v)}
    BY <1>4 DEF ReTxTimeout
  <2> HIDE DEF backOff, v
  <2> QED BY <1>1, <1>2, <2>1, GoesSelf
<1> QED BY <1>3, <1>4

LEMMA FireRetxGoes ==
  ASSUME NEW z \in 1..N, NEW s, Fits(s, z), Sender(s, z), Calm(s), s.retx # NoFlag
  PROVE  Goes(s, FireRetx(s), z)
<1> DEFINE fired == [s EXCEPT !.retx = NoFlag]
<1>1. NoFlag \in Events /\ NoFlag # FINACK BY DEF Events, NoFlag, FINACK
<1>2. Fits(fired, z) /\ Stills(s, fired) /\ fired.state = s.state /\ fired.head = s.head
      /\ fired.open = s.open
  BY <1>1 DEF Fits, Loose, Clean, Stills
<1>3. s.retx = RTO \/ s.retx \in {SYNACK, FINACK}
  BY DEF Fits, Loose, Events, Calm
<1>4. FireRetx(s) = IF s.retx = RTO THEN ReTxTimeout(fired) ELSE SendEmptyPacket(fired, s.retx)
  BY DEF FireRetx
<1> HIDE DEF fired
<1>5. Goes(s, fired, z) /\ Sender(fired, z) /\ fired.state # "SYN_SENT"
  BY <1>2, StillsGoes DEF Goes, Calm
<1>6. Goes(s, ReTxTimeout(fired), z) BY <1>2, <1>5, ReTxTimeoutGoes, GoesTrans
<1>7. s.retx = SYNACK => Goes(s, SendEmptyPacket(fired, SYNACK), z)
  BY <1>2, <1>5, SendEmptyPacketStills, StillsGoes, GoesTrans
<1>8. s.retx = FINACK => Goes(s, SendEmptyPacket(fired, FINACK), z)
  <2> SUFFICES ASSUME s.retx = FINACK PROVE Goes(s, SendEmptyPacket(fired, FINACK), z)
    OBVIOUS
  <2>1. fired.open => fired.head > z BY <1>2 DEF Sender, Whole, Calm
  <2> QED BY <1>2, <1>5, <2>1, SendFinGoes, GoesTrans
<1> QED BY <1>3, <1>4, <1>6, <1>7, <1>8

LEMMA DelAckTimeoutStills ==
  ASSUME NEW z \in 1..N, NEW s, Fits(s, z)
  PROVE  Stills(s, DelAckTimeout(s))
<1> DEFINE none == 0
           t == [s EXCEPT !.delAck = none, !.delAckEvent = FALSE]
<1>1. Fits(t, z) /\ Stills(s, t)
  <2>1. none \in Int OBVIOUS
  <2> HIDE DEF none
  <2> QED BY <2>1 DEF Fits, Loose, Clean, Stills
<1>2. DelAckTimeout(s) = SendEmptyPacket(t, ACK) BY DEF DelAckTimeout
<1> HIDE DEF t
<1> QED BY <1>1, <1>2, SendEmptyPacketStills, StillsTrans

LEMMA LastAckTimeoutStills ==
  ASSUME NEW z \in 1..N, NEW s, Fits(s, z)
  PROVE  Stills(s, LastAckTimeout(s))
<1> DEFINE t == [s EXCEPT !.lastAckEvent = FALSE]
<1>1. Fits(t, z) /\ Stills(s, t) BY DEF Fits, Loose, Clean, Stills
<1>2. LastAckTimeout(s) = IF s.state = "LAST_ACK" THEN CloseAndNotify(t) ELSE t
  BY DEF LastAckTimeout
<1> HIDE DEF t
<1> QED BY <1>1, <1>2, CloseAndNotifyStills, StillsTrans

LEMMA PendingGoes ==
  ASSUME NEW z \in 1..N, NEW s, Fits(s, z), Sender(s, z), s.state # "SYN_SENT"
  PROVE  Goes(s, SendPendingData([s EXCEPT !.pendingEvent = FALSE]), z)
<1> DEFINE t == [s EXCEPT !.pendingEvent = FALSE]
<1>1. Fits(t, z) /\ Stills(s, t) /\ t.state = s.state
  BY DEF Fits, Loose, Clean, Stills
<1> HIDE DEF t
<1>2. Goes(s, SendPendingData(t), z)
  BY <1>1, StillsGoes, SendPendingDataGoes, GoesTrans DEF Goes
<1> QED BY <1>2 DEF t

-----------------------------------------------------------------------------
\* What the client makes of a segment.

\* A FIN is one the segment brings, and FIN_WAIT_2 is entered only by a
\* segment that acknowledges more than the flow.
GoesOn(s, t, z, m) ==
  /\ Sender(t, z)
  /\ t.fin # NoFin => s.fin # NoFin \/ "FIN" \in m.flags
  /\ t.state = "FIN_WAIT_2" =>
       s.state = "FIN_WAIT_2" \/ ("RST" \notin m.flags /\ m.ack > z)

LEMMA GoesGoesOn ==
  ASSUME NEW z, NEW s, NEW t, NEW m, Goes(s, t, z)
  PROVE  GoesOn(s, t, z, m)
BY DEF Goes, GoesOn

LEMMA GoesOnTrans ==
  ASSUME NEW z, NEW s, NEW t, NEW u, NEW m, GoesOn(s, t, z, m), GoesOn(t, u, z, m)
  PROVE  GoesOn(s, u, z, m)
BY DEF GoesOn

\* The rest of what a socket receives is no matter of its sending.
LEMMA BufferedGoes ==
  ASSUME NEW z \in 1..N, NEW s, Fits(s, z), Sender(s, z), NEW m
  PROVE  Goes(s, Buffered(s, m), z)
<1> DEFINE next == FirstMissing(s, m)
           e == {q \in s.early \cup {m.seq} : q > next}
           x == IF next = s.fin THEN next + 1 ELSE next
           r == s.read + (next - s.rxNext)
           t == [s EXCEPT !.early = e, !.rxNext = x, !.read = r]
<1>1. Buffered(s, m) = t BY DEF Buffered, FirstMissing
<1> HIDE DEF e, x, r, next
<1>2. /\ t.head = s.head /\ t.txEnd = s.txEnd /\ t.unsent = s.unsent
      /\ t.nextTx = s.nextTx /\ t.highTx = s.highTx /\ t.shutdownSend = s.shutdownSend
      /\ t.fin = s.fin /\ t.open = s.open /\ t.retx = s.retx /\ t.out = s.out
      /\ t.state = s.state
  BY DEF Fits, Loose
<1> HIDE DEF t
<1>3. s.open /\ s.state # "SYN_SENT" => Whole(t, z) BY <1>2 DEF Sender, Whole
<1> QED BY <1>1, <1>2, <1>3 DEF Goes, Sender

LEMMA SetFinSequenceGoes ==
  ASSUME NEW z \in 1..N, NEW s, Fits(s, z), Sender(s, z), NEW m, "FIN" \in m.flags,
         NEW f \in Nat
  PROVE  GoesOn(s, SetFinSequence(s, f), z, m)
<1> DEFINE x == IF s.rxNext = f THEN f + 1 ELSE s.rxNext
           t == [s EXCEPT !.fin = f, !.rxNext = x]
<1>1. SetFinSequence(s, f) = t BY DEF SetFinSequence
<1>2. f # NoFin BY DEF NoFin
<1> HIDE DEF x
<1>3. /\ t.head = s.head /\ t.txEnd = s.txEnd /\ t.unsent = s.unsent
      /\ t.nextTx = s.nextTx /\ t.highTx = s.highTx /\ t.shutdownSend = s.shutdownSend
      /\ t.fin = f /\ t.open = s.open /\ t.retx = s.retx /\ t.out = s.out
      /\ t.state = s.state
  BY DEF Fits, Loose
<1> HIDE DEF t
<1>4. s.open /\ s.state # "SYN_SENT" => Whole(t, z) BY <1>3 DEF Sender, Whole
<1> QED BY <1>1, <1>2, <1>3, <1>4 DEF GoesOn, Sender

LEMMA ReceivedDataGoes ==
  ASSUME NEW z \in 1..N, NEW s, Fits(s, z), Calm(s), Sender(s, z),
         NEW m \in Cargo(z), m.len > 0
  PROVE  Goes(s, ReceivedData(s, m), z)
<1>1. CASE NothingToBuffer(s, m)
  <2>1. ReceivedData(s, m) = SendEmptyPacket(s, ACK) BY <1>1 DEF ReceivedData
  <2> QED BY <2>1, SendEmptyPacketStills, StillsGoes
<1>2. CASE ~NothingToBuffer(s, m)
  <2> DEFINE r == Buffered(s, m)
             d == r.delAck + 1
             u == [r EXCEPT !.delAck = @ + 1, !.delAckEvent = TRUE]
  <2>1. Gains(s, r, z) BY <1>2, BufferedFits
  <2>2. Fits(r, z) /\ Calm(r) BY <2>1 DEF Gains
  <2>3. Goes(s, r, z) BY BufferedGoes
  <2>4. ReceivedData(s, m) \in {DoPeerClose(r), u, SendEmptyPacket(r, ACK)}
    BY <1>2 DEF ReceivedData
  <2> HIDE DEF r
  <2>5. Sender(r, z) BY <2>3 DEF Goes
  <2>6. Goes(r, DoPeerClose(r), z) BY <2>2, <2>5, DoPeerCloseGoes DEF Calm
  <2>7. Goes(r, SendEmptyPacket(r, ACK), z) BY <2>2, <2>5, SendEmptyPacketStills, StillsGoes
  <2>8. Stills(r, u)
    <3>1. d \in Int BY <2>2 DEF Fits, Loose
    <3>2. u = [r EXCEPT !.delAck = d, !.delAckEvent = TRUE] OBVIOUS
    <3> HIDE DEF d, u
    <3> QED BY <2>2, <3>1, <3>2 DEF Fits, Loose, Stills
  <2> HIDE DEF u
  <2>9. Goes(r, u, z) BY <2>5, <2>8, StillsGoes
  <2> QED BY <2>3, <2>4, <2>6, <2>7, <2>9, GoesTrans
<1> QED BY <1>1, <1>2

LEMMA ReceivedAckGoes ==
  ASSUME NEW z \in 1..N, NEW s, Fits(s, z), Calm(s), Sender(s, z), NEW m \in Cargo(z)
  PROVE  Goes(s, ReceivedAck(s, m), z)
<1> DEFINE d == DiscardUpTo(s, m.ack)
           acked == ProcessAck(d, m.ack, s.head)
           filled == IF m.len > 0 THEN ReceivedData(acked, m) ELSE acked
<1>1. m.ack \in Nat /\ m.len \in {0, 1} BY DEF Cargo
<1>2. Retains(s, acked, z)
  <2>1. Retains(s, d, z) BY <1>1, DiscardUpToFits
  <2> HIDE DEF d
  <2>2. Retains(d, acked, z) BY <1>1, <2>1, ProcessAckFits DEF Retains
  <2> HIDE DEF acked
  <2> QED BY <2>1, <2>2, RetainsTrans
<1>3. Goes(s, acked, z) BY <1>1, AckedGoes DEF Calm
<1>4. ReceivedAck(s, m) = SendPendingData(filled) BY ReceivedAckIs
<1> HIDE DEF d, acked
<1>5. Fits(acked, z) /\ Calm(acked) /\ Sender(acked, z) BY <1>2, <1>3 DEF Retains, Goes
<1>6. Goes(acked, filled, z) /\ Fits(filled, z) /\ Calm(filled)
  <2>1. CASE m.len > 0
    <3>1. filled = ReceivedData(acked, m) BY <2>1
    <3> HIDE DEF filled
    <3>2. Gains(acked, filled, z) BY <1>5, <2>1, <3>1, ReceivedDataFits
    <3> QED BY <1>5, <2>1, <3>1, <3>2, ReceivedDataGoes DEF Gains
  <2>2. CASE m.len = 0
    <3>1. filled = acked BY <2>2
    <3> QED BY <1>5, <3>1, GoesSelf
  <2> QED BY <1>1, <2>1, <2>2
<1> HIDE DEF filled
<1>7. Goes(filled, SendPendingData(filled), z)
  BY <1>6, SendPendingDataGoes DEF Goes, Calm
<1> QED BY <1>3, <1>4, <1>6, <1>7, GoesTrans

LEMMA PeerCloseGoes ==
  ASSUME NEW z \in 1..N, NEW s, Fits(s, z), Calm(s), Sender(s, z),
         NEW m \in Cargo(z), "FIN" \in m.flags
  PROVE  GoesOn(s, PeerClose(s, m), z, m)
<1> DEFINE marked == SetFinSequence(s, m.seq + m.len)
           filled == IF m.len > 0 THEN ReceivedData(marked, m) ELSE marked
           c == [filled EXCEPT !.state = "CLOSING"]
<1>1. PeerClose(s, m) \in {s, filled, DoPeerClose(filled)}
      \/ (PeerClose(s, m) = c /\ Finished(filled))
  BY DEF PeerClose
<1>2. m.seq \in Nat /\ m.len \in {0, 1} /\ m.seq + m.len \in Nat BY DEF Cargo
<1>3. Gains(s, marked, z) /\ GoesOn(s, marked, z, m)
  BY <1>2, SetFinSequenceFits, SetFinSequenceGoes
<1> HIDE DEF marked
<1>4. Fits(marked, z) /\ Calm(marked) /\ Sender(marked, z) BY <1>3 DEF Gains, GoesOn
<1>5. Goes(marked, filled, z) /\ Fits(filled, z) /\ Calm(filled)
  <2>1. CASE m.len > 0
    <3>1. filled = ReceivedData(marked, m) BY <2>1
    <3> HIDE DEF filled
    <3>2. Gains(marked, filled, z) BY <1>4, <2>1, <3>1, ReceivedDataFits
    <3> QED BY <1>4, <2>1, <3>1, <3>2, ReceivedDataGoes DEF Gains
  <2>2. CASE m.len = 0
    <3>1. filled = marked BY <2>2
    <3> QED BY <1>4, <3>1, GoesSelf
  <2> QED BY <1>2, <2>1, <2>2
<1> HIDE DEF filled
<1>6. GoesOn(s, filled, z, m) BY <1>3, <1>5, GoesGoesOn, GoesOnTrans
<1>7. Sender(filled, z) BY <1>5 DEF Goes
<1>8. GoesOn(s, DoPeerClose(filled), z, m)
  BY <1>5, <1>6, <1>7, DoPeerCloseGoes, GoesGoesOn, GoesOnTrans DEF Calm
<1>9. ASSUME Finished(filled) PROVE GoesOn(s, c, z, m)
  <2>1. Sender(c, z) /\ c.fin = filled.fin /\ c.state = "CLOSING"
    BY <1>5, <1>7, <1>9, TurnGoes DEF State, Calm, Finished
  <2> HIDE DEF c
  <2> QED BY <1>6, <2>1 DEF GoesOn
<1> HIDE DEF c
<1> QED BY <1>1, <1>6, <1>8, <1>9, GoesSelf, GoesGoesOn

LEMMA WaitedGoes ==
  ASSUME NEW z \in 1..N, NEW s, Fits(s, z), Calm(s), Sender(s, z),
         NEW m \in Cargo(z), m.flags \in {ACK, FINACK}
  PROVE  GoesOn(s, Waited(s, m), z, m)
<1> DEFINE r == ReceivedAck(s, m)
           w == [r EXCEPT !.state = "FIN_WAIT_2"]
<1>1. Waited(s, m) = IF m.flags = FINACK THEN SetFinSequence(r, m.seq)
                     ELSE IF r.state = "FIN_WAIT_1" /\ TxSize(r) = 0 /\ m.ack = r.highTx + 1
                          THEN w
                     ELSE r
  BY DEF Waited, Then
<1>2. Gains(s, r, z) /\ Goes(s, r, z) BY ReceivedAckFits, ReceivedAckGoes
<1> HIDE DEF r
<1>3. Fits(r, z) /\ Calm(r) /\ Sender(r, z) /\ GoesOn(s, r, z, m)
  BY <1>2, GoesGoesOn DEF Gains, Goes
<1>4. m.seq \in Nat /\ m.ack \in Nat /\ r.highTx \in Nat BY <1>3 DEF Cargo, Fits, Loose
<1>5. CASE m.flags = FINACK
  <2>1. GoesOn(r, SetFinSequence(r, m.seq), z, m)
    BY <1>3, <1>4, <1>5, FlagsType, SetFinSequenceGoes
  <2> QED BY <1>1, <1>3, <1>5, <2>1, GoesOnTrans
<1>6. CASE r.state = "FIN_WAIT_1" /\ m.ack = r.highTx + 1
  <2>1. m.ack > z BY <1>3, <1>4, <1>6 DEF Sender
  <2>2. "RST" \notin m.flags BY DEF ACK, FINACK
  <2>3. Sender(w, z) /\ w.fin = r.fin BY <1>3, TurnGoes DEF State, Calm
  <2> HIDE DEF w
  <2>4. GoesOn(s, w, z, m) BY <1>3, <2>1, <2>2, <2>3 DEF GoesOn
  <2>5. m.flags # FINACK => Waited(s, m) \in {r, w} BY <1>1
  <2> QED BY <1>3, <1>5, <2>4, <2>5
<1> QED BY <1>1, <1>3, <1>5, <1>6

LEMMA FinCompleteGoes ==
  ASSUME NEW z \in 1..N, NEW r, Fits(r, z), Calm(r), Sender(r, z), NEW m
  PROVE  GoesOn(r, FinComplete(r, m), z, m)
<1> DEFINE c == [r EXCEPT !.state = "CLOSING"]
<1>1. \/ FinComplete(r, m) = r
      \/ /\ Finished(r)
         /\ FinComplete(r, m) \in {SendEmptyPacket(c, ACK), SendEmptyPacket(TimeWait(r), ACK)}
  BY DEF FinComplete
<1>2. ASSUME Finished(r) PROVE Goes(r, SendEmptyPacket(c, ACK), z)
  <2>1. Sender(c, z) /\ c.fin = r.fin /\ c.state = "CLOSING"
    BY <1>2, TurnGoes DEF State, Calm, Finished
  <2>2. Fits(c, z) BY TurnFits DEF State
  <2> HIDE DEF c
  <2>3. Goes(r, c, z) BY <2>1 DEF Goes
  <2> QED BY <2>1, <2>2, <2>3, SendEmptyPacketStills, StillsGoes, GoesTrans
<1>3. ASSUME Finished(r) PROVE Goes(r, SendEmptyPacket(TimeWait(r), ACK), z)
  <2>1. Goes(r, TimeWait(r), z) BY <1>3, TimeWaitGoes DEF Calm, Finished
  <2>2. Fits(TimeWait(r), z) BY TimeWaitFits DEF Retains
  <2>3. Sender(TimeWait(r), z) BY <2>1 DEF Goes
  <2> QED BY <2>1, <2>2, <2>3, SendEmptyPacketStills, StillsGoes, GoesTrans
<1> QED BY <1>1, <1>2, <1>3, GoesSelf, GoesGoesOn

LEMMA ProcessWaitGoes ==
  ASSUME NEW z \in 1..N, NEW s, Fits(s, z), Calm(s), Sender(s, z), NEW m \in Cargo(z)
  PROVE  GoesOn(s, ProcessWait(s, m), z, m)
<1> DEFINE w == Waited(s, m)
<1>1. ASSUME m.flags \in {ACK, FINACK} PROVE GoesOn(s, FinComplete(w, m), z, m)
  <2>1. GoesOn(s, w, z, m) /\ Advances(s, w, z, m) BY <1>1, WaitedGoes, WaitedFits
  <2> HIDE DEF w
  <2>2. Fits(w, z) /\ Calm(w) /\ Sender(w, z) BY <2>1 DEF GoesOn, Advances, Gains
  <2> QED BY <2>1, <2>2, FinCompleteGoes, GoesOnTrans
<1>2. Then(w, LAMBDA r : FinComplete(r, m)) = FinComplete(w, m) BY DEF Then
<1>3. GoesOn(s, Refuse(s, m), z, m) BY RefuseStills, StillsGoes, GoesGoesOn
<1>4. GoesOn(s, s, z, m) BY GoesSelf, GoesGoesOn
<1> QED BY <1>1, <1>2, <1>3, <1>4 DEF ProcessWait

LEMMA ProcessClosingGoes ==
  ASSUME NEW z \in 1..N, NEW s, Fits(s, z), Sender(s, z), NEW m, s.state = "CLOSING"
  PROVE  GoesOn(s, ProcessClosing(s, m), z, m)
<1>1. Goes(s, TimeWait(s), z) BY TimeWaitGoes DEF Sender
<1>2. Goes(s, CloseAndNotify(SendEmptyPacket(s, ACK)), z)
  <2>1. Fits(SendEmptyPacket(s, ACK), z) BY SendEmptyPacketFits DEF Retains
  <2>2. Stills(s, CloseAndNotify(SendEmptyPacket(s, ACK)))
    BY <2>1, SendEmptyPacketStills, CloseAndNotifyStills, StillsTrans
  <2> QED BY <2>2, StillsGoes
<1>3. Goes(s, Refuse(s, m), z) BY RefuseStills, StillsGoes
<1> QED BY <1>1, <1>2, <1>3, GoesSelf, GoesGoesOn DEF ProcessClosing

\* Every segment, for a client past its SYN.
LEMMA HandledGoes ==
  ASSUME NEW z \in 1..N, NEW s, Fits(s, z), Calm(s), Sender(s, z), NEW m \in Cargo(z),
         s.state # "SYN_RCVD"
  PROVE  GoesOn(s, Handled(s, m), z, m)
<1>1. GoesOn(s, SendEmptyPacket(s, ACK), z, m)
  BY SendEmptyPacketStills, StillsGoes, GoesGoesOn
<1>2. GoesOn(s, s, z, m) BY GoesSelf, GoesGoesOn
<1>3. GoesOn(s, Refuse(s, m), z, m) BY RefuseStills, StillsGoes, GoesGoesOn
<1>4. GoesOn(s, ProcessEstablished(s, m), z, m)
  <2>1. m.flags = FINACK => GoesOn(s, PeerClose(s, m), z, m) BY PeerCloseGoes, FlagsType
  <2>2. GoesOn(s, ReceivedAck(s, m), z, m) BY ReceivedAckGoes, GoesGoesOn
  <2> QED BY <1>1, <1>2, <1>3, <2>1, <2>2 DEF ProcessEstablished
<1>5. GoesOn(s, ProcessLastAck(s, m), z, m)
  <2>1. GoesOn(s, CloseAndNotify(s), z, m) BY CloseAndNotifyStills, StillsGoes, GoesGoesOn
  <2> QED BY <1>2, <1>3, <2>1 DEF ProcessLastAck
<1> QED
  BY <1>1, <1>2, <1>4, <1>5, ProcessWaitGoes, ProcessClosingGoes DEF Handled, ProcessInState, Calm

LEMMA NoEndPointsStills ==
  ASSUME NEW z \in 1..N, NEW s, Fits(s, z), NEW m
  PROVE  Stills(s, NoEndPointsFound(s, m))
<1> DEFINE reset == IF "ACK" \in m.flags
                    THEN [flags |-> RST, seq |-> m.ack, ack |-> 0, len |-> 0]
                    ELSE [flags |-> RST \cup ACK, seq |-> 0, ack |-> m.seq + 1, len |-> 0]
           o == <<reset>>
           t == [s EXCEPT !.out = o]
<1>1. NoEndPointsFound(s, m) = IF "RST" \in m.flags THEN s ELSE t
  BY DEF NoEndPointsFound
<1>2. "FIN" \notin RST /\ "FIN" \notin (RST \cup ACK) BY DEF RST, ACK
<1>3. "FIN" \notin reset.flags BY <1>2
<1> HIDE DEF reset
<1>4. \A k \in DOMAIN o : "FIN" \notin o[k].flags BY <1>3
<1> HIDE DEF o
<1>5. Stills(s, t) BY <1>4 DEF Fits, Loose, Stills
<1> HIDE DEF t
<1> QED BY <1>1, <1>5, StillsSelf

\* The client takes the answer to its SYN, and the application writes the flow.
LEMMA ProcessSynSentGoes ==
  ASSUME NEW z \in 1..N, scenario.size = z, NEW s, Fits(s, z), Calling(s),
         s.out = <<>>, Sender(s, z), NEW m \in Cargo(z), m.flags # SYN
  PROVE  Goes(s, Handled(s, m), z)
<1> DEFINE n == m.seq + 1
           k == s.nextTx + 1
           up == [s EXCEPT !.state = "ESTABLISHED", !.retx = NoFlag, !.rxNext = n,
                           !.nextTx = k, !.highTx = k, !.head = k, !.txEnd = k]
           a == SendEmptyPacket(up, ACK)
           e == z + 1
           u == 1..z
           t == [a EXCEPT !.txEnd = e, !.unsent = u, !.closeOnEmpty = TRUE,
                          !.pendingEvent = TRUE, !.delAck = DelAckMax]
<1>1. Handled(s, m) = ProcessSynSent(s, m)
  BY DEF Handled, ProcessInState, OutOfRange, Calling
<1>2. n \in Nat /\ n > 0 /\ k = 1 BY DEF Cargo, Calling
<1>3. NoFlag \in Events /\ NoFlag # FINACK BY DEF Events, NoFlag, FINACK
<1>4. ProcessSynSent(s, m) \in {s, t, Refuse(s, m)}
  <2>1. SetHeadSequence([s EXCEPT !.state = "ESTABLISHED", !.retx = NoFlag,
                                  !.rxNext = m.seq + 1, !.nextTx = @ + 1,
                                  !.highTx = s.nextTx + 1], s.nextTx + 1) = up
    BY DEF SetHeadSequence, Fits, Loose
  <2> HIDE DEF up
  <2> QED BY <2>1 DEF ProcessSynSent
<1>5. Goes(s, t, z)
  <2> HIDE DEF n, k
  <2>1. up \in Loose(z)
    <3>1. ASSUME NEW v \in Loose(z), NEW st \in State, NEW f \in Events, NEW g \in Nat,
                 NEW b \in Nat
          PROVE  [v EXCEPT !.state = st, !.retx = f, !.rxNext = g, !.nextTx = b,
                           !.highTx = b, !.head = b, !.txEnd = b] \in Loose(z)
      BY ZenonT(60), <3>1 DEF Loose
    <3>2. s \in Loose(z) /\ "ESTABLISHED" \in State /\ k \in Nat BY <1>2 DEF Fits, State
    <3> QED BY <1>2, <1>3, <3>1, <3>2
  <2>2. /\ up.head = 1 /\ up.txEnd = 1 /\ up.nextTx = 1 /\ up.read = 0 /\ up.rxNext = n
        /\ up.out = <<>> /\ up.state = "ESTABLISHED" /\ up.retx = NoFlag
        /\ up.fin = s.fin /\ up.shutdownSend = s.shutdownSend
    BY <1>2 DEF Fits, Loose, Calling
  <2> HIDE DEF up
  <2>3. Fits(up, z) BY <1>2, <2>1, <2>2 DEF Fits, Clean
  <2>4. Fits(a, z) /\ Stills(up, a) BY <2>3, SendEmptyPacketFits, SendEmptyPacketStills DEF Retains
  <2> HIDE DEF a
  <2>5. u \in Pieces(z) /\ e \in Nat /\ \A q \in u : q >= 1 BY DEF Pieces
  <2> HIDE DEF u
  <2>6. /\ t.head = a.head /\ t.txEnd = e /\ t.unsent = u /\ t.nextTx = a.nextTx
        /\ t.fin = a.fin /\ t.shutdownSend = a.shutdownSend /\ t.retx = a.retx
        /\ t.out = a.out /\ t.state = a.state /\ t.open = a.open
    BY <2>4 DEF Fits, Loose
  <2> HIDE DEF t
  <2>7. a.state \in {"ESTABLISHED", "CLOSED"} /\ a.head = 1 /\ a.nextTx = 1 /\ a.fin = s.fin
        /\ a.shutdownSend = s.shutdownSend /\ a.retx # FINACK
    BY <1>3, <2>2, <2>4 DEF Stills
  <2>8. \A i \in DOMAIN a.out : "FIN" \notin a.out[i].flags
    BY <2>2, <2>4 DEF Stills
  <2>9. Whole(t, z) BY <2>5, <2>6, <2>7 DEF Whole
  <2> QED BY <2>6, <2>7, <2>8, <2>9 DEF Goes, Sender, FinLast
<1>6. Goes(s, Refuse(s, m), z) BY RefuseStills, StillsGoes
<1> QED BY <1>1, <1>4, <1>5, <1>6, GoesSelf

LEMMA CallAgainGoes ==
  ASSUME NEW z \in 1..N, NEW s, Fits(s, z), Calling(s), Sender(s, z), s.retx # NoFlag
  PROVE  Goes(s, FireRetx(s), z)
<1> DEFINE f == [s EXCEPT !.retx = NoFlag]
<1>1. NoFlag \in Events /\ NoFlag # FINACK /\ SYN # RTO
  BY FlagsType DEF Events, NoFlag, FINACK, SYN, RTO
<1>2. FireRetx(s) = SendEmptyPacket(f, SYN) BY <1>1 DEF FireRetx, Calling
<1>3. Fits(f, z) /\ Stills(s, f)
  BY <1>1 DEF Fits, Loose, Clean, Stills
<1> HIDE DEF f
<1> QED BY <1>2, <1>3, SendEmptyPacketStills, StillsTrans, StillsGoes

\* Every segment, for the client.
LEMMA ClientTakenGoes ==
  ASSUME NEW z \in 1..N, scenario.size = z, NEW s, Fits(s, z), s.out = <<>>, Sender(s, z),
         Calling(s) \/ (Calm(s) /\ s.state # "SYN_RCVD"),
         NEW m \in Cargo(z), m.flags # SYN
  PROVE  GoesOn(s, Taken("client", s, m), z, m)
<1>1. Taken("client", s, m) = IF s.open THEN Handled(s, m) ELSE NoEndPointsFound(s, m)
  BY DEF Taken
<1>2. GoesOn(s, NoEndPointsFound(s, m), z, m)
  BY NoEndPointsStills, StillsGoes, GoesGoesOn
<1>3. GoesOn(s, Handled(s, m), z, m)
  BY ProcessSynSentGoes, GoesGoesOn, HandledGoes
<1> QED BY <1>1, <1>2, <1>3

LEMMA ClientReceiveGoes ==
  ASSUME NEW z \in 1..N, scenario.size = z, NEW s, Fits(s, z), s.out = <<>>, Sender(s, z),
         Calling(s) \/ (Calm(s) /\ s.state # "SYN_RCVD"),
         NEW m \in Cargo(z), m.flags # SYN
  PROVE  GoesOn(s, Receive("client", s, m), z, m)
<1>1. s \in Loose(z) BY DEF Fits
<1>2. PICK r \in Windowed(s) : Receive("client", s, m) = Taken("client", r, m)
  BY <1>1, ReceiveTaken
<1>3. /\ Fits(r, z) /\ r.out = <<>> /\ Sender(r, z)
      /\ Calling(r) \/ (Calm(r) /\ r.state # "SYN_RCVD")
  BY <1>1, <1>2, WindowedFacts, WindowedFits DEF Sender, Whole
<1>4. GoesOn(r, Taken("client", r, m), z, m) BY <1>3, ClientTakenGoes
<1> QED BY <1>1, <1>2, <1>4, WindowedFacts DEF GoesOn

-----------------------------------------------------------------------------
\* The sink sends its FIN when it has read the whole flow.

LEMMA NothingToSend ==
  ASSUME NEW z \in 1..N, NEW s, Fits(s, z), Receiver(s, z)
  PROVE  TxSize(s) = 0 /\ SendPendingData(s) = s
<1>1. s.txEnd <= s.head /\ s.txEnd \in Nat /\ s.head \in Nat BY DEF Receiver, Fits, Loose
<1>2. TxSize(s) = 0 BY <1>1 DEF TxSize, Larger
<1> QED BY <1>2 DEF SendPendingData

\* t has read what s had, and nothing to send if s had nothing.
Rests(s, t) ==
  /\ t.head = s.head /\ t.txEnd = s.txEnd /\ t.read = s.read
  /\ t.state \in {s.state, "CLOSED", "CLOSE_WAIT", "LAST_ACK"}

LEMMA RestsTrans ==
  ASSUME NEW s, NEW t, NEW u, Rests(s, t), Rests(t, u)
  PROVE  Rests(s, u)
BY DEF Rests

LEMMA StillsRests == ASSUME NEW s, NEW t, Stills(s, t) PROVE Rests(s, t)
BY DEF Stills, Rests

LEMMA RestsReceiver ==
  ASSUME NEW z, NEW s, NEW t, Receiver(s, z), s.read = z, Rests(s, t)
  PROVE  Receiver(t, z)
BY DEF Receiver, Rests

LEMMA SendFinRests ==
  ASSUME NEW z \in 1..N, NEW s, Fits(s, z), NEW f \in {FIN, FINACK}
  PROVE  Rests(s, SendEmptyPacket(s, f))
<1>1. "SYN" \notin f BY FlagsType
<1> QED BY <1>1 DEF SendEmptyPacket, Emit, Fits, Loose, Rests

LEMMA TurnRests ==
  ASSUME NEW z \in 1..N, NEW s, Fits(s, z), NEW x \in {"CLOSED", "CLOSE_WAIT", "LAST_ACK"}
  PROVE  Rests(s, [s EXCEPT !.state = x]) /\ [s EXCEPT !.state = x].state = x
BY DEF Fits, Loose, Rests

\* The close of an end that waits for it.
LEMMA CloseRests ==
  ASSUME NEW z \in 1..N, NEW s, Fits(s, z), s.state = "CLOSE_WAIT"
  PROVE  Rests(s, Close(s))
<1>1. Rests(s, SendRST(s)) BY SendRSTStills, StillsRests
<1>2. Rests(s, [s EXCEPT !.closeOnEmpty = TRUE]) BY DEF Rests, Fits, Loose
<1>3. Rests(s, DoClose(s))
  <2> DEFINE t == SendEmptyPacket(s, FINACK)
             x == [t EXCEPT !.state = "LAST_ACK"]
  <2>1. DoClose(s) = x BY DEF DoClose
  <2>2. Fits(t, z) /\ Rests(s, t) BY SendEmptyPacketFits, SendFinRests DEF Retains
  <2> HIDE DEF t
  <2>3. Rests(t, x) BY <2>2, TurnRests
  <2> QED BY <2>1, <2>2, <2>3, RestsTrans
<1> QED BY <1>1, <1>2, <1>3 DEF Close

LEMMA DoPeerCloseReceiver ==
  ASSUME NEW z \in 1..N, NEW s, Fits(s, z), Receiver(s, z), s.read = z
  PROVE  Receiver(DoPeerClose(s), z)
<1> DEFINE x == [s EXCEPT !.state = "CLOSE_WAIT"]
           w == x.told \cup {"normal"}
           waits == [x EXCEPT !.told = w]
           answer == IF s.shutdownSend THEN Close(waits) ELSE SendEmptyPacket(waits, ACK)
           late == answer.lastAckEvent \/ answer.state = "LAST_ACK"
           t == [answer EXCEPT !.lastAckEvent = late]
<1>1. Fits(x, z) /\ Rests(s, x) /\ x.state = "CLOSE_WAIT" BY TurnFits, TurnRests DEF State
<1>2. w \in Calls BY <1>1 DEF Fits, Loose, Calls
<1>3. DoPeerClose(s) = t
  <2>1. [s EXCEPT !.state = "CLOSE_WAIT", !.told = @ \cup {"normal"}] = waits
    BY DEF Fits, Loose
  <2> HIDE DEF waits
  <2> QED BY <2>1 DEF DoPeerClose
<1> HIDE DEF x, w
<1>4. Fits(waits, z) /\ Rests(x, waits) /\ waits.state = "CLOSE_WAIT"
  BY <1>1, <1>2 DEF Fits, Loose, Clean, Rests
<1> HIDE DEF waits
<1>5. Fits(answer, z) /\ Rests(waits, answer)
  <2>1. Fits(Close(waits), z) /\ Rests(waits, Close(waits))
    BY <1>4, CloseFits, CloseRests DEF Retains
  <2>2. Fits(SendEmptyPacket(waits, ACK), z) /\ Rests(waits, SendEmptyPacket(waits, ACK))
    BY <1>4, SendEmptyPacketFits, SendEmptyPacketStills, StillsRests DEF Retains
  <2> QED BY <2>1, <2>2
<1> HIDE DEF answer, late
<1>6. Rests(answer, t) BY <1>5 DEF Fits, Loose, Rests
<1> HIDE DEF t
<1>7. Rests(s, t) BY <1>1, <1>4, <1>5, <1>6, RestsTrans
<1> QED BY <1>3, <1>7, RestsReceiver

\* An acknowledgement finds nothing to send.
LEMMA AckedReceiver ==
  ASSUME NEW z \in 1..N, NEW s, Fits(s, z), Receiver(s, z), NEW a \in Nat
  PROVE  Receiver(ProcessAck(DiscardUpTo(s, a), a, s.head), z)
<1> DEFINE h == Larger(s.head, a)
           u == {q \in s.unsent : q >= a}
           d == DiscardUpTo(s, a)
           t == ProcessAck(d, a, s.head)
<1>1. h >= s.head /\ s.head \in Nat /\ s.txEnd \in Nat /\ h \in Nat
  BY DEF Larger, Fits, Loose
<1>2. Fits(d, z) BY DiscardUpToFits DEF Retains
<1>3. /\ d.head = h /\ d.txEnd = s.txEnd /\ d.retx = s.retx /\ d.out = s.out
      /\ d.state = s.state /\ d.read = s.read
  BY DEF DiscardUpTo, Fits, Loose
<1>4. Receiver(d, z) BY <1>1, <1>3 DEF Receiver
<1> HIDE DEF d, h
<1>5. CASE a > s.head
  <2> DEFINE n == Larger(d.nextTx, a)
             v == IF a < d.recover THEN d.recover ELSE 0
  <2>1. TxSize(d) = 0 /\ d.state \notin {"FIN_WAIT_1", "CLOSING"}
    BY <1>2, <1>4, NothingToSend DEF Receiver
  <2>2. t = [d EXCEPT !.dataRetr = DataRetries, !.nextTx = n, !.retx = NoFlag,
                      !.window = N, !.recover = v]
    BY <1>5, <2>1 DEF ProcessAck, NewAck
  <2>3. NoFlag # FINACK BY DEF NoFlag, FINACK
  <2> HIDE DEF n, v, t
  <2>4. /\ t.head = d.head /\ t.txEnd = d.txEnd /\ t.retx = NoFlag /\ t.out = d.out
        /\ t.state = d.state /\ t.read = d.read
    BY <1>2, <2>2 DEF Fits, Loose
  <2> QED BY <1>4, <2>3, <2>4 DEF Receiver, t, d
<1>6. CASE ~(a > s.head)
  <2> DEFINE x == [d EXCEPT !.nextTx = a]
  <2>1. t \in {d, x} BY <1>6 DEF ProcessAck
  <2>2. Receiver(x, z) BY <1>2, <1>4 DEF Receiver, Fits, Loose
  <2> HIDE DEF x, t
  <2> QED BY <1>4, <2>1, <2>2 DEF t, d
<1> QED BY <1>5, <1>6

LEMMA FireRetxReceiver ==
  ASSUME NEW z \in 1..N, NEW s, Fits(s, z), Receiver(s, z), Calm(s), s.retx # NoFlag
  PROVE  Receiver(FireRetx(s), z)
<1> DEFINE fired == [s EXCEPT !.retx = NoFlag]
<1>1. NoFlag \in Events /\ NoFlag # FINACK BY DEF Events, NoFlag, FINACK
<1>2. Fits(fired, z) /\ Stills(s, fired) /\ fired.state = s.state /\ fired.read = s.read
  BY <1>1 DEF Fits, Loose, Clean, Stills
<1>3. s.retx = RTO \/ s.retx \in {SYNACK, FINACK}
  BY DEF Fits, Loose, Events, Calm
<1>4. FireRetx(s) = IF s.retx = RTO THEN ReTxTimeout(fired) ELSE SendEmptyPacket(fired, s.retx)
  BY DEF FireRetx
<1> HIDE DEF fired
<1>5. Receiver(fired, z) BY <1>2, StillsReceiver
<1>6. ReTxTimeout(fired) = fired
  BY <1>2, <1>5, NothingToSend DEF ReTxTimeout, Receiver, Calm
<1>7. Receiver(SendEmptyPacket(fired, SYNACK), z)
  BY <1>2, <1>5, SendEmptyPacketStills, StillsReceiver
<1>8. s.retx = FINACK => Receiver(SendEmptyPacket(fired, FINACK), z)
  <2> SUFFICES ASSUME s.retx = FINACK PROVE Receiver(SendEmptyPacket(fired, FINACK), z)
    OBVIOUS
  <2>1. fired.read = z BY <1>2 DEF Receiver
  <2> QED BY <1>2, <1>5, <2>1, SendFinRests, RestsReceiver
<1> QED BY <1>3, <1>4, <1>5, <1>6, <1>7, <1>8

LEMMA PendingReceiver ==
  ASSUME NEW z \in 1..N, NEW s, Fits(s, z), Receiver(s, z)
  PROVE  Receiver(SendPendingData([s EXCEPT !.pendingEvent = FALSE]), z)
<1> DEFINE t == [s EXCEPT !.pendingEvent = FALSE]
<1>1. Fits(t, z) /\ Stills(s, t) BY DEF Fits, Loose, Clean, Stills
<1> HIDE DEF t
<1>2. Receiver(t, z) BY <1>1, StillsReceiver
<1>3. SendPendingData(t) = t BY <1>1, <1>2, NothingToSend
<1> QED BY <1>2, <1>3 DEF t

\* What the sink makes of a segment.
LEMMA BufferedReceiver ==
  ASSUME NEW z \in 1..N, NEW s, Fits(s, z), Receiver(s, z), NEW m \in Cargo(z),
         ~NothingToBuffer(s, m)
  PROVE  Receiver(Buffered(s, m), z)
<1> DEFINE next == FirstMissing(s, m)
           e == {q \in s.early \cup {m.seq} : q > next}
           x == IF next = s.fin THEN next + 1 ELSE next
           r == s.read + (next - s.rxNext)
           t == [s EXCEPT !.early = e, !.rxNext = x, !.read = r]
<1>1. Buffered(s, m) = t BY DEF Buffered, FirstMissing
<1>2. Gains(s, Buffered(s, m), z) BY BufferedFits
<1> HIDE DEF e, x, r, next
<1>3. /\ t.head = s.head /\ t.txEnd = s.txEnd /\ t.retx = s.retx /\ t.out = s.out
      /\ t.state = s.state
  BY DEF Fits, Loose
<1> HIDE DEF t
<1>4. s.read = z => t.read = z BY <1>1, <1>2 DEF Gains, Fits, Loose, Upto
<1> QED BY <1>1, <1>3, <1>4 DEF Receiver

LEMMA SetFinSequenceReceiver ==
  ASSUME NEW z \in 1..N, NEW s, Fits(s, z), Receiver(s, z), NEW f \in Nat
  PROVE  Receiver(SetFinSequence(s, f), z)
<1> DEFINE x == IF s.rxNext = f THEN f + 1 ELSE s.rxNext
           t == [s EXCEPT !.fin = f, !.rxNext = x]
<1>1. SetFinSequence(s, f) = t BY DEF SetFinSequence
<1> HIDE DEF x
<1>2. /\ t.head = s.head /\ t.txEnd = s.txEnd /\ t.retx = s.retx /\ t.out = s.out
      /\ t.state = s.state /\ t.read = s.read
  BY DEF Fits, Loose
<1> HIDE DEF t
<1> QED BY <1>1, <1>2 DEF Receiver

LEMMA ReceivedDataReceiver ==
  ASSUME NEW z \in 1..N, NEW s, Fits(s, z), Receiver(s, z), Reader(s, z),
         NEW m \in Cargo(z), m.len > 0
  PROVE  Receiver(ReceivedData(s, m), z)
<1>1. CASE NothingToBuffer(s, m)
  <2>1. ReceivedData(s, m) = SendEmptyPacket(s, ACK) BY <1>1 DEF ReceivedData
  <2> QED BY <2>1, SendEmptyPacketStills, StillsReceiver
<1>2. CASE ~NothingToBuffer(s, m)
  <2> DEFINE r == Buffered(s, m)
             d == r.delAck + 1
             u == [r EXCEPT !.delAck = @ + 1, !.delAckEvent = TRUE]
  <2>1. Gains(s, r, z) /\ Reader(r, z) BY <1>2, BufferedFits
  <2>2. Fits(r, z) BY <2>1 DEF Gains
  <2>3. Receiver(r, z) BY <1>2, BufferedReceiver
  <2>4. \/ Finished(r) /\ ReceivedData(s, m) = DoPeerClose(r)
        \/ ReceivedData(s, m) \in {u, SendEmptyPacket(r, ACK)}
    BY <1>2 DEF ReceivedData
  <2> HIDE DEF r
  <2>5. Finished(r) => Receiver(DoPeerClose(r), z)
    BY <2>1, <2>2, <2>3, FinishedReader, DoPeerCloseReceiver
  <2>6. Receiver(SendEmptyPacket(r, ACK), z) BY <2>2, <2>3, SendEmptyPacketStills, StillsReceiver
  <2>7. Stills(r, u)
    <3>1. d \in Int BY <2>2 DEF Fits, Loose
    <3>2. u = [r EXCEPT !.delAck = d, !.delAckEvent = TRUE] OBVIOUS
    <3> HIDE DEF d, u
    <3> QED BY <2>2, <3>1, <3>2 DEF Fits, Loose, Stills
  <2> HIDE DEF u
  <2>8. Receiver(u, z) BY <2>3, <2>7, StillsReceiver
  <2> QED BY <2>4, <2>5, <2>6, <2>8
<1> QED BY <1>1, <1>2

LEMMA ReceivedAckReceiver ==
  ASSUME NEW z \in 1..N, NEW s, Fits(s, z), Receiver(s, z), Reader(s, z), NEW m \in Cargo(z)
  PROVE  Receiver(ReceivedAck(s, m), z)
<1> DEFINE d == DiscardUpTo(s, m.ack)
           acked == ProcessAck(d, m.ack, s.head)
           filled == IF m.len > 0 THEN ReceivedData(acked, m) ELSE acked
<1>1. m.ack \in Nat /\ m.len \in {0, 1} BY DEF Cargo
<1>2. Retains(s, acked, z)
  <2>1. Retains(s, d, z) BY <1>1, DiscardUpToFits
  <2> HIDE DEF d
  <2>2. Retains(d, acked, z) BY <1>1, <2>1, ProcessAckFits DEF Retains
  <2> HIDE DEF acked
  <2> QED BY <2>1, <2>2, RetainsTrans
<1>3. Receiver(acked, z) BY <1>1, AckedReceiver
<1>4. ReceivedAck(s, m) = SendPendingData(filled) BY ReceivedAckIs
<1> HIDE DEF d, acked
<1>5. Fits(acked, z) /\ Reader(acked, z) BY <1>2, RetainsReader DEF Retains
<1>6. Receiver(filled, z) /\ Fits(filled, z)
  <2>1. CASE m.len > 0
    <3>1. filled = ReceivedData(acked, m) BY <2>1
    <3> HIDE DEF filled
    <3>2. Gains(acked, filled, z) BY <1>5, <2>1, <3>1, ReceivedDataFits
    <3> QED BY <1>3, <1>5, <2>1, <3>1, <3>2, ReceivedDataReceiver DEF Gains
  <2>2. CASE m.len = 0 BY <1>3, <1>5, <2>2
  <2> QED BY <1>1, <2>1, <2>2
<1> HIDE DEF filled
<1> QED BY <1>4, <1>6, NothingToSend

LEMMA PeerCloseReceiver ==
  ASSUME NEW z \in 1..N, NEW s, Fits(s, z), Receiver(s, z), Reader(s, z),
         NEW m \in Cargo(z), "FIN" \in m.flags, FinLast(m, z)
  PROVE  Receiver(PeerClose(s, m), z)
<1> DEFINE marked == SetFinSequence(s, m.seq + m.len)
           filled == IF m.len > 0 THEN ReceivedData(marked, m) ELSE marked
           t == IF filled.state = "FIN_WAIT_1" THEN [filled EXCEPT !.state = "CLOSING"]
                ELSE DoPeerClose(filled)
<1>1. PeerClose(s, m) \in {s, filled} \/ (PeerClose(s, m) = t /\ Finished(filled))
  BY DEF PeerClose
<1>2. m.seq \in Nat /\ m.len \in {0, 1} /\ m.seq + m.len \in Nat BY DEF Cargo
<1>3. Gains(s, marked, z) /\ Reader(marked, z) /\ Receiver(marked, z)
  BY <1>2, SetFinSequenceFits, SetFinSequenceReceiver DEF FinLast
<1> HIDE DEF marked
<1>4. Fits(marked, z) BY <1>3 DEF Gains
<1>5. Receiver(filled, z) /\ Reader(filled, z) /\ Fits(filled, z)
  <2>1. CASE m.len > 0
    <3>1. filled = ReceivedData(marked, m) BY <2>1
    <3> HIDE DEF filled
    <3>2. Gains(marked, filled, z) /\ Reader(filled, z)
      BY <1>3, <1>4, <2>1, <3>1, ReceivedDataFits
    <3> QED BY <1>3, <1>4, <2>1, <3>1, <3>2, ReceivedDataReceiver DEF Gains
  <2>2. CASE m.len = 0 BY <1>3, <1>4, <2>2
  <2> QED BY <1>2, <2>1, <2>2
<1> HIDE DEF filled
<1>6. Finished(filled) => Receiver(t, z)
  <2>1. filled.state # "FIN_WAIT_1" BY <1>5 DEF Receiver
  <2> QED BY <1>5, <2>1, FinishedReader, DoPeerCloseReceiver
<1> HIDE DEF t
<1> QED BY <1>1, <1>5, <1>6

LEMMA ProcessWaitReceiver ==
  ASSUME NEW z \in 1..N, NEW s, Fits(s, z), Receiver(s, z), Reader(s, z), NEW m \in Cargo(z)
  PROVE  Receiver(ProcessWait(s, m), z)
<1> DEFINE r == ReceivedAck(s, m)
           w == Waited(s, m)
<1>1. w = IF m.flags = FINACK THEN SetFinSequence(r, m.seq)
          ELSE IF r.state = "FIN_WAIT_1" /\ TxSize(r) = 0 /\ m.ack = r.highTx + 1
               THEN [r EXCEPT !.state = "FIN_WAIT_2"]
          ELSE r
  BY DEF Waited, Then
<1>2. Fits(r, z) BY ReceivedAckFits DEF Gains
<1>3. Receiver(r, z) BY ReceivedAckReceiver
<1>4. m.seq \in Nat BY DEF Cargo
<1> HIDE DEF r
<1>5. Receiver(w, z)
  <2>1. w \in {r, SetFinSequence(r, m.seq)} BY <1>1, <1>3 DEF Receiver
  <2> QED BY <1>2, <1>3, <1>4, <2>1, SetFinSequenceReceiver
<1>6. FinComplete(w, m) = w BY <1>5 DEF FinComplete, Receiver
<1>7. Then(w, LAMBDA x : FinComplete(x, m)) = FinComplete(w, m) BY DEF Then
<1>8. Receiver(Refuse(s, m), z) BY RefuseStills, StillsReceiver
<1> HIDE DEF w
<1> QED BY <1>5, <1>6, <1>7, <1>8 DEF ProcessWait, w

\* The connection is accepted: its first sequence numbers are known.
LEMMA AcceptedReceiver ==
  ASSUME NEW z \in 1..N, NEW s, Fits(s, z), Receiver(s, z)
  PROVE  Receiver(Accepted(s), z)
<1> DEFINE n == s.nextTx + 1
           c == s.accepted + 1
           t == [s EXCEPT !.retx = NoFlag, !.nextTx = n, !.highTx = n, !.accepted = c,
                          !.head = n, !.txEnd = n]
<1>1. n \in Nat BY DEF Fits, Loose
<1>2. NoFlag # FINACK BY DEF NoFlag, FINACK
<1>3. Accepted(s) = t BY DEF Accepted, SetHeadSequence, Fits, Loose
<1> HIDE DEF n, c
<1>4. /\ t.head = n /\ t.txEnd = n /\ t.read = s.read /\ t.state = s.state
      /\ t.out = s.out /\ t.retx = NoFlag
  BY DEF Fits, Loose
<1> HIDE DEF t
<1> QED BY <1>1, <1>2, <1>3, <1>4 DEF Receiver

LEMMA ProcessSynRcvdReceiver ==
  ASSUME NEW z \in 1..N, NEW s, Fits(s, z), Calm(s), Forked(s), s.out = <<>>,
         Receiver(s, z), Reader(s, z),
         NEW m \in Cargo(z), m.flags = SYN => m.seq = 0, FinLast(m, z), s.state = "SYN_RCVD"
  PROVE  Receiver(ProcessSynRcvd(s, m), z)
<1> DEFINE up == Accepted(s)
           est == [up EXCEPT !.state = "ESTABLISHED", !.delAck = DelAckMax]
           n == m.seq + 1
           again == [s EXCEPT !.rxNext = n]
<1>1. \/ ProcessSynRcvd(s, m) \in {s, ReceivedAck(est, m), Refuse(s, m)}
      \/ m.flags = SYN /\ ProcessSynRcvd(s, m) = SendEmptyPacket(again, SYNACK)
      \/ "FIN" \in m.flags /\ ProcessSynRcvd(s, m) = PeerClose(up, m)
  BY FlagsType DEF ProcessSynRcvd, Accepted
<1>2. /\ Fits(up, z) /\ up.early = {} /\ up.fin = NoFin
      /\ up.rxNext = s.rxNext /\ up.read = s.read /\ up.state = s.state
  BY AcceptedFits
<1>3. Receiver(up, z) BY AcceptedReceiver
<1>4. Reader(up, z) BY <1>2 DEF Reader, Forked, Late
<1> HIDE DEF up
<1>5. Receiver(ReceivedAck(est, m), z)
  <2>1. est \in Loose(z) BY <1>2, ConstantsType DEF Fits, Loose, State
  <2>2. /\ est.head = up.head /\ est.txEnd = up.txEnd /\ est.read = up.read
        /\ est.rxNext = up.rxNext /\ est.early = up.early /\ est.fin = up.fin
        /\ est.state = "ESTABLISHED" /\ est.out = up.out /\ est.retx = up.retx
    BY <1>2 DEF Fits, Loose
  <2> HIDE DEF est
  <2>3. Fits(est, z) BY <1>2, <2>1, <2>2 DEF Fits, Clean
  <2>4. Reader(est, z) BY <1>4, <2>2 DEF Reader, Late
  <2>5. Receiver(est, z) BY <1>3, <2>2 DEF Receiver
  <2> QED BY <2>3, <2>4, <2>5, ReceivedAckReceiver
<1>6. ASSUME m.flags = SYN PROVE Receiver(SendEmptyPacket(again, SYNACK), z)
  <2>1. n = 1 /\ n \in Nat BY <1>6
  <2> HIDE DEF n
  <2>2. again \in Loose(z) BY <2>1 DEF Fits, Loose
  <2>3. /\ again.head = s.head /\ again.txEnd = s.txEnd /\ again.read = s.read
        /\ again.rxNext = 1 /\ again.out = <<>> /\ again.retx = s.retx
        /\ again.state = s.state
    BY <2>1 DEF Fits, Loose
  <2> HIDE DEF again
  <2>4. Fits(again, z) BY <2>2, <2>3 DEF Fits, Clean, Forked
  <2>5. Receiver(again, z) BY <2>3 DEF Receiver
  <2> QED BY <2>4, <2>5, SendEmptyPacketStills, StillsReceiver
<1>7. "FIN" \in m.flags => Receiver(PeerClose(up, m), z)
  BY <1>2, <1>3, <1>4, PeerCloseReceiver
<1>8. Receiver(Refuse(s, m), z) BY RefuseStills, StillsReceiver
<1> HIDE DEF est, again
<1> QED BY <1>1, <1>5, <1>6, <1>7, <1>8

LEMMA ListenReceiver ==
  ASSUME NEW z \in 1..N, NEW s, Fits(s, z), Receiver(s, z), NEW m \in Cargo(z),
         m.flags = SYN => m.seq = 0 /\ s.read = 0
  PROVE  Receiver(ProcessListen(s, m), z)
<1>1. CASE m.flags # SYN BY <1>1 DEF ProcessListen
<1>2. CASE m.flags = SYN
  <2> DEFINE n == m.seq + 1
             u == [Unused EXCEPT !.state = "SYN_RCVD", !.open = TRUE, !.rxNext = n,
                     !.closeOnEmpty = TRUE, !.shutdownSend = TRUE,
                     !.accepted = s.accepted, !.read = s.read]
  <2>1. ProcessListen(s, m) = SendEmptyPacket(u, SYNACK) BY <1>2 DEF ProcessListen
  <2>2. n = 1 BY <1>2
  <2> HIDE DEF n
  <2>3. /\ u.state = "SYN_RCVD" /\ u.rxNext = 1 /\ u.read = 0
        /\ u.head = 0 /\ u.txEnd = 0 /\ u.out = <<>> /\ u.retx = NoFlag
    BY <1>2, <2>2 DEF Unused
  <2>4. u \in Loose(z)
    <3>1. Unused \in Loose(z) BY UnusedFits
    <3>2. ASSUME NEW v \in Loose(z), NEW a \in {0, 1}, NEW r \in Upto(z), NEW w \in Nat
          PROVE  [v EXCEPT !.state = "SYN_RCVD", !.open = TRUE, !.rxNext = w,
                    !.closeOnEmpty = TRUE, !.shutdownSend = TRUE,
                    !.accepted = a, !.read = r] \in Loose(z)
      BY <3>2 DEF Loose, State
    <3>3. s.accepted \in {0, 1} /\ s.read \in Upto(z) /\ n \in Nat
      BY <2>2 DEF Fits, Loose
    <3> QED BY <3>1, <3>2, <3>3
  <2> HIDE DEF u
  <2>5. NoFlag # FINACK BY DEF NoFlag, FINACK
  <2>6. Fits(u, z) /\ Receiver(u, z) BY <2>3, <2>4, <2>5 DEF Fits, Clean, Receiver
  <2> QED BY <2>1, <2>6, SendEmptyPacketStills, StillsReceiver
<1> QED BY <1>1, <1>2

\* Every segment, for the sink as long as it listens.
LEMMA ServerTakenReceiver ==
  ASSUME NEW z \in 1..N, NEW s, Fits(s, z), Calm(s), s.out = <<>>,
         s.state = "SYN_RCVD" => Forked(s), Receiver(s, z),
         s.open => Reader(s, z),
         NEW m \in Cargo(z), m.flags = SYN => m.seq = 0 /\ s.read = 0, FinLast(m, z)
  PROVE  Receiver(Taken("server", s, m), z)
<1>1. Receiver(s, z) /\ Receiver(NoEndPointsFound(s, m), z) /\ Receiver(ProcessListen(s, m), z)
  BY NoEndPointsStills, StillsReceiver, ListenReceiver
<1>2. ASSUME Reader(s, z) PROVE Receiver(Handled(s, m), z)
  <2>1. Receiver(SendEmptyPacket(s, ACK), z) BY SendEmptyPacketStills, StillsReceiver
  <2>2. Receiver(Refuse(s, m), z) BY RefuseStills, StillsReceiver
  <2>3. s.state = "SYN_RCVD" => Receiver(ProcessSynRcvd(s, m), z)
    BY <1>2, ProcessSynRcvdReceiver
  <2>4. Receiver(ProcessEstablished(s, m), z)
    <3>1. m.flags = FINACK => Receiver(PeerClose(s, m), z)
      BY <1>2, PeerCloseReceiver, FlagsType
    <3> QED BY <1>1, <1>2, <2>1, <2>2, <3>1, ReceivedAckReceiver DEF ProcessEstablished
  <2>5. Receiver(ProcessLastAck(s, m), z)
    BY <1>1, <2>2, CloseAndNotifyStills, StillsReceiver DEF ProcessLastAck
  <2> QED
    BY SMTT(30), <1>1, <1>2, <2>1, <2>3, <2>4, <2>5, ProcessWaitReceiver DEF Handled, ProcessInState, Calm, Receiver
<1> QED BY <1>1, <1>2 DEF Taken

LEMMA ServerReceiveReceiver ==
  ASSUME NEW z \in 1..N, NEW s, Fits(s, z), Calm(s), s.out = <<>>,
         s.state = "SYN_RCVD" => Forked(s), Receiver(s, z),
         s.open => Reader(s, z),
         NEW m \in Cargo(z), m.flags = SYN => m.seq = 0 /\ s.read = 0, FinLast(m, z)
  PROVE  Receiver(Receive("server", s, m), z)
<1>1. s \in Loose(z) BY DEF Fits
<1>2. PICK r \in Windowed(s) : Receive("server", s, m) = Taken("server", r, m)
  BY <1>1, ReceiveTaken
<1>3. /\ Fits(r, z) /\ r.out = <<>> /\ Calm(r) /\ Receiver(r, z) /\ (r.open => Reader(r, z))
      /\ r.state = "SYN_RCVD" => Forked(r)
      /\ m.flags = SYN => m.seq = 0 /\ r.read = 0
  BY <1>1, <1>2, WindowedFacts, WindowedFits DEF Receiver, Reader
<1>4. Receiver(Taken("server", r, m), z) BY <1>3, ServerTakenReceiver
<1> QED BY <1>1, <1>2, <1>4, WindowedFacts DEF Receiver

-----------------------------------------------------------------------------
\* The second invariant: every FIN, and every acknowledgement of one, tells
\* that the sink has read the whole flow.

AllRead == Server.read = scenario.size

FinsOK ==
  /\ Server = Unused \/ Reader(Server, scenario.size)
  /\ Sender(Client, scenario.size)
  /\ \A k \in DOMAIN net["server"] : FinLast(net["server"][k], scenario.size)
  /\ \A k \in DOMAIN net["client"] :
       "RST" \notin net["client"][k].flags /\ net["client"][k].ack > scenario.size => AllRead
  /\ Client.state = "FIN_WAIT_2" => AllRead
  /\ listening =>
       /\ Receiver(Server, scenario.size)
       /\ Client.fin # NoFin => AllRead
       /\ \A k \in DOMAIN net["client"] : "FIN" \in net["client"][k].flags => AllRead

FInv == IInv /\ FinsOK

\* Every segment of q was in p.
From(q, p) == \A k \in DOMAIN q : \E j \in DOMAIN p : q[k] = p[j]

LEMMA FromSelf == ASSUME NEW q PROVE From(q, q)
BY DEF From

LEMMA RemoveFrom ==
  ASSUME NEW S, NEW q \in Seq(S), NEW i \in DOMAIN q
  PROVE  From(RemoveAt(q, i), q)
<1> DEFINE r == RemoveAt(q, i)
<1> SUFFICES ASSUME NEW k \in DOMAIN r PROVE \E j \in DOMAIN q : r[k] = q[j] BY DEF From
<1>1. /\ k \in 1..Len(q) /\ k + 1 \in 1..Len(q) /\ i \in 1..Len(q)
      /\ k < i => r[k] = q[k]
      /\ k >= i => r[k] = q[k + 1]
  BY SMTT(30), RemoveFacts
<1> HIDE DEF r
<1>2. k < i \/ k >= i BY <1>1
<1> QED BY <1>1, <1>2

LEMMA TrimmedFrom ==
  ASSUME NEW S, NEW a \in Seq(S), NEW b \in Seq(S), NEW k \in DOMAIN Trimmed(a, b)
  PROVE  \/ \E j \in DOMAIN a : Trimmed(a, b)[k] = a[j]
         \/ \E j \in DOMAIN b : Trimmed(a, b)[k] = b[j]
<1>1. Len(a) \in Nat OBVIOUS
<1> QED BY <1>1, TrimmedFacts

LEMMA StoredSender ==
  ASSUME NEW z \in 1..N, NEW t \in Loose(z), Sender(t, z)
  PROVE  Sender([t EXCEPT !.out = <<>>], z)
<1> DEFINE x == [t EXCEPT !.out = <<>>]
<1>1. /\ x.head = t.head /\ x.txEnd = t.txEnd /\ x.unsent = t.unsent
      /\ x.nextTx = t.nextTx /\ x.highTx = t.highTx /\ x.shutdownSend = t.shutdownSend
      /\ x.fin = t.fin /\ x.open = t.open /\ x.retx = t.retx /\ x.out = <<>>
      /\ x.state = t.state
  BY DEF Loose
<1> HIDE DEF x
<1>2. x.open /\ x.state # "SYN_SENT" => Whole(x, z) BY <1>1 DEF Sender, Whole
<1> QED BY <1>1, <1>2 DEF Sender, x

LEMMA StoredServer ==
  ASSUME NEW z \in 1..N, NEW t, Fits(t, z)
  PROVE  LET x == [t EXCEPT !.out = <<>>]
         IN  (Reader(t, z) => Reader(x, z)) /\ (Receiver(t, z) => Receiver(x, z))
             /\ x.read = t.read
<1> DEFINE x == [t EXCEPT !.out = <<>>]
<1>1. /\ x.head = t.head /\ x.txEnd = t.txEnd /\ x.fin = t.fin /\ x.retx = t.retx
      /\ x.out = <<>> /\ x.state = t.state /\ x.read = t.read /\ x.rxNext = t.rxNext
      /\ x.early = t.early
  BY DEF Fits, Loose
<1> HIDE DEF x
<1> QED BY <1>1 DEF Reader, Receiver, x

\* A step of the server.
LEMMA ServerFins ==
  ASSUME IInv, FinsOK, NEW t, NEW n, Becomes("server", t, n), UNCHANGED scenario,
         listening' => listening,
         Fits(t, scenario.size), t.read >= Server.read,
         \/ Reader(t, scenario.size)
         \/ /\ [t EXCEPT !.out = <<>>] = Unused
            /\ \A k \in DOMAIN t.out : "RST" \in t.out[k].flags,
         listening' => Receiver(t, scenario.size),
         n \in [End -> Seq(Cargo(scenario.size))],
         n["client"] = net["client"], From(n["server"], net["server"])
  PROVE  FinsOK'
<1> DEFINE z == scenario.size
           x == [t EXCEPT !.out = <<>>]
           q == Trimmed(n["client"], t.out)
<1>1. scenario' = scenario /\ z \in 1..N BY ServerFacts
<1>2. sock' = [sock EXCEPT !["server"] = x] /\ net' = [n EXCEPT !["client"] = q]
  BY BecomesFact DEF Peer
<1>3. /\ x = Unused \/ Reader(x, z)
      /\ Receiver(t, z) => Receiver(x, z)
      /\ x.read = t.read
  BY <1>1, StoredServer
<1>4. t.out \in Seq(Cargo(z)) BY CleanSyn
<1>5. ASSUME NEW k \in DOMAIN t.out, "RST" \notin t.out[k].flags, t.out[k].ack > z
      PROVE  t.read = z
  <2>1. Reader(t, z) BY <1>5
  <2>2. t.out[k].ack <= t.rxNext BY <1>5 DEF Fits, Clean
  <2>3. t.out[k].ack \in Nat /\ t.rxNext \in Nat BY <1>4, <1>5 DEF Cargo, Fits, Loose
  <2> QED BY <1>1, <1>5, <2>1, <2>2, <2>3 DEF Reader
<1>6. Server.read = z => t.read = z
  <2>1. t.read \in 0..z BY DEF Fits, Loose, Upto
  <2> QED BY <1>1, <2>1
<1>7. n["client"] \in Seq(Cargo(z)) BY DEF End
<1>8. \A k \in DOMAIN q : \/ \E j \in DOMAIN net["client"] : q[k] = net["client"][j]
                          \/ \E j \in DOMAIN t.out : q[k] = t.out[j]
  BY <1>4, <1>7, TrimmedFrom
<1> HIDE DEF x, q
<1>9. sock'["client"] = Client /\ sock'["server"] = x
  BY <1>2 DEF IInv, SocketsOK, Client, End
<1>10. net'["client"] = q /\ net'["server"] = n["server"] BY <1>2 DEF End
<1>11. AllRead => x.read = z BY <1>3, <1>6 DEF AllRead
<1>12. \A k \in DOMAIN n["server"] : FinLast(n["server"][k], z)
  BY DEF From, FinsOK
<1>13. \A k \in DOMAIN q : "RST" \notin q[k].flags /\ q[k].ack > z => x.read = z
  BY <1>3, <1>5, <1>8, <1>11 DEF FinsOK
<1>14. ASSUME listening'
       PROVE  /\ Receiver(x, z) /\ (Client.fin # NoFin => x.read = z)
              /\ \A k \in DOMAIN q : "FIN" \in q[k].flags => x.read = z
  <2>1. listening /\ Receiver(t, z) BY <1>14
  <2> QED BY <1>3, <1>8, <1>11, <2>1 DEF FinsOK, Receiver
<1>15. (AllRead <=> Server.read = z) /\ (AllRead' <=> x.read = z)
  BY <1>1, <1>9 DEF AllRead, Server
<1>16. Client' = Client /\ Server' = x BY <1>9 DEF Client, Server
<1> QED
  BY <1>1, <1>3, <1>10, <1>11, <1>12, <1>13, <1>14, <1>15, <1>16 DEF FinsOK

\* A step of the client.
LEMMA ClientFins ==
  ASSUME IInv, FinsOK, NEW t, NEW n, Becomes("client", t, n), UNCHANGED <<listening, scenario>>,
         t \in Loose(scenario.size), Sender(t, scenario.size),
         listening /\ t.fin # NoFin => AllRead,
         t.state = "FIN_WAIT_2" => AllRead,
         n \in [End -> Seq(Cargo(scenario.size))],
         n["server"] = net["server"], From(n["client"], net["client"])
  PROVE  FinsOK'
<1> DEFINE z == scenario.size
           x == [t EXCEPT !.out = <<>>]
           q == Trimmed(n["server"], t.out)
<1>1. scenario' = scenario /\ listening' = listening /\ z \in 1..N BY ServerFacts
<1>2. sock' = [sock EXCEPT !["client"] = x] /\ net' = [n EXCEPT !["server"] = q]
  BY BecomesFact DEF Peer
<1>3. Sender(x, z) BY <1>1, StoredSender
<1>4. x.fin = t.fin /\ x.state = t.state BY DEF Loose
<1>5. t.out \in Seq(Cargo(z)) BY DEF Loose, Sent
<1>6. n["server"] \in Seq(Cargo(z)) BY DEF End
<1>7. \A k \in DOMAIN q : \/ \E j \in DOMAIN net["server"] : q[k] = net["server"][j]
                          \/ \E j \in DOMAIN t.out : q[k] = t.out[j]
  BY <1>5, <1>6, TrimmedFrom
<1> HIDE DEF x, q
<1>8. Client' = x /\ Server' = Server
  BY <1>2 DEF IInv, SocketsOK, Client, Server, End
<1>9. net'["server"] = q /\ net'["client"] = n["client"] BY <1>2 DEF End
<1>10. AllRead' = AllRead BY <1>1, <1>8 DEF AllRead
<1>11. \A k \in DOMAIN q : FinLast(q[k], z) BY <1>7 DEF FinsOK, Sender
<1> QED
  BY <1>1, <1>3, <1>4, <1>8, <1>9, <1>10, <1>11 DEF FinsOK, From

\* Every segment, for the sink.
LEMMA DeliverServerFins ==
  ASSUME IInv, FinsOK, Deliver("server")
  PROVE  FinsOK'
<1> DEFINE z == scenario.size
           q == net["server"]
<1>1. PICK i \in Deliverable(q) :
        /\ Becomes("server", Receive("server", Server, q[i]),
                   [net EXCEPT !["server"] = RemoveAt(q, i)])
        /\ UNCHANGED <<listening, scenario>>
  BY DEF Deliver, Server
<1> DEFINE m == q[i]
           t == Receive("server", Server, m)
           n == [net EXCEPT !["server"] = RemoveAt(q, i)]
<1>2. Takes(Server, t, z, m) BY ReceiveServer
<1>3. /\ i \in DOMAIN q /\ q \in Seq(Cargo(z)) /\ SynFirst(q) /\ net \in [End -> Seq(Cargo(z))]
      /\ z \in 1..N /\ Fits(Server, z) /\ Calm(Server) /\ Server.out = <<>>
      /\ Server.state = "SYN_RCVD" => Forked(Server)
  BY ServerFacts DEF Deliverable
<1>4. RemoveAt(q, i) \in Seq(Cargo(z)) /\ From(RemoveAt(q, i), q)
  BY <1>3, RemoveFacts, RemoveFrom
<1>5. m \in Cargo(z) /\ FinLast(m, z) BY <1>3 DEF FinsOK
<1>6. m.flags = SYN => m.seq = 0 /\ m.len = 0 /\ Server.accepted = 0 /\ Server.read = 0
  BY <1>3 DEF SynFirst, HasSyn, IInv, NothingAccepted
<1>7. /\ n \in [End -> Seq(Cargo(z))] /\ n["client"] = net["client"]
      /\ n["server"] = RemoveAt(q, i)
  <2> HIDE DEF q
  <2> QED BY <1>3, <1>4 DEF End
<1>8. From(n["server"], net["server"]) BY <1>4, <1>7
<1>9. \/ Reader(t, z)
      \/ /\ [t EXCEPT !.out = <<>>] = Unused
         /\ \A k \in DOMAIN t.out : "RST" \in t.out[k].flags
  <2>1. CASE Reader(Server, z) BY <1>2, <1>5, <2>1 DEF Takes
  <2>2. CASE Server = Unused
    <3> DEFINE reset == IF "ACK" \in m.flags
                        THEN [flags |-> RST, seq |-> m.ack, ack |-> 0, len |-> 0]
                        ELSE [flags |-> RST \cup ACK, seq |-> 0, ack |-> m.seq + 1, len |-> 0]
               o == <<reset>>
               u == [Unused EXCEPT !.out = o]
    <3>1. t \in {Unused, u} \/ (m.flags = SYN /\ t = ProcessListen(Server, m))
      BY <2>2 DEF Receive, Unused, NoEndPointsFound, ProcessListen
    <3>2. m.flags = SYN => Reader(ProcessListen(Server, m), z)
      BY <1>3, <1>5, <1>6, ListenTakes
    <3>3. [Unused EXCEPT !.out = <<>>] = Unused /\ Unused.out = <<>>
      <4>1. Unused \in Loose(z) /\ Unused.out = <<>> BY <1>3, UnusedFits DEF Unused
      <4>2. ASSUME NEW v \in Loose(z), v.out = <<>>
            PROVE  [v EXCEPT !.out = <<>>] = v
        BY <4>2 DEF Loose
      <4> QED BY <4>1, <4>2
    <3>4. [u EXCEPT !.out = <<>>] = Unused /\ u.out = o
      <4>1. Unused \in Loose(z) /\ Unused.out = <<>> BY <1>3, UnusedFits DEF Unused
      <4>2. ASSUME NEW v \in Loose(z), v.out = <<>>, NEW a
            PROVE  /\ [[v EXCEPT !.out = a] EXCEPT !.out = <<>>] = v
                   /\ [v EXCEPT !.out = a].out = a
        BY <4>2 DEF Loose
      <4> HIDE DEF o
      <4> QED BY <4>1, <4>2
    <3>5. "RST" \in reset.flags BY DEF RST
    <3> HIDE DEF reset
    <3>6. \A k \in DOMAIN o : "RST" \in o[k].flags BY <3>5
    <3> HIDE DEF o
    <3> HIDE DEF u, t
    <3>7. CASE t = Unused
      <4>1. \A k \in DOMAIN Unused.out : "RST" \in Unused.out[k].flags BY <3>3
      <4> QED BY <3>3, <3>7, <4>1
    <3>8. CASE t = u
      <4>1. \A k \in DOMAIN u.out : "RST" \in u.out[k].flags BY <3>4, <3>6
      <4> QED BY <3>4, <3>8, <4>1
    <3>9. CASE m.flags = SYN /\ t = ProcessListen(Server, m) BY <3>2, <3>9
    <3> QED BY <3>1, <3>7, <3>8, <3>9
  <2> QED BY <2>1, <2>2 DEF FinsOK
<1>10. listening => Receiver(t, z)
  <2> SUFFICES ASSUME listening PROVE Receiver(t, z) OBVIOUS
  <2>1. Receiver(Server, z) BY DEF FinsOK
  <2>2. Server.open => Reader(Server, z) BY DEF FinsOK, Unused
  <2> QED BY <1>3, <1>5, <1>6, <2>1, <2>2, ServerReceiveReceiver
<1>11. Fits(t, z) /\ t.read >= Server.read BY <1>2 DEF Takes
<1>12. Becomes("server", t, n) /\ UNCHANGED <<listening, scenario>> BY <1>1
<1> HIDE DEF t, n
<1> QED BY <1>7, <1>8, <1>9, <1>10, <1>11, <1>12, ServerFins

LEMMA DeliverClientFins ==
  ASSUME IInv, FinsOK, Deliver("client")
  PROVE  FinsOK'
<1> DEFINE z == scenario.size
           q == net["client"]
<1>1. PICK i \in Deliverable(q) :
        /\ Becomes("client", Receive("client", Client, q[i]),
                   [net EXCEPT !["client"] = RemoveAt(q, i)])
        /\ UNCHANGED <<listening, scenario>>
  BY DEF Deliver, Client
<1> DEFINE m == q[i]
           t == Receive("client", Client, m)
           n == [net EXCEPT !["client"] = RemoveAt(q, i)]
<1>2. /\ i \in DOMAIN q /\ q \in Seq(Cargo(z)) /\ ~HasSyn(q)
      /\ net \in [End -> Seq(Cargo(z))] /\ z \in 1..N /\ Fits(Client, z) /\ Client.out = <<>>
      /\ Calling(Client) \/ (Calm(Client) /\ Client.state # "SYN_RCVD")
  BY ClientFacts DEF Deliverable
<1>3. m \in Cargo(z) /\ m.flags # SYN BY <1>2 DEF HasSyn
<1>4. RemoveAt(q, i) \in Seq(Cargo(z)) /\ From(RemoveAt(q, i), q)
  BY <1>2, RemoveFacts, RemoveFrom
<1>5. /\ n \in [End -> Seq(Cargo(z))] /\ n["server"] = net["server"]
      /\ From(n["client"], net["client"])
  <2> HIDE DEF q
  <2> QED BY <1>2, <1>4 DEF End, q
<1>6. Becomes("client", t, n) /\ UNCHANGED <<listening, scenario>> BY <1>1
<1>7. GoesOn(Client, t, z, m)
  BY <1>2, <1>3, ClientReceiveGoes DEF FinsOK
<1>8. t \in Loose(z)
  <2>1. t = IF Client.open THEN DoForwardUp(Client, m) ELSE NoEndPointsFound(Client, m)
    BY DEF Receive
  <2>2. Fits(NoEndPointsFound(Client, m), z) BY <1>2, <1>3, NoEndPointsRetains DEF Retains
  <2>3. Fits(DoForwardUp(Client, m), z)
    <3>1. CASE Calling(Client)
      BY <1>2, <1>3, <3>1, ProcessSynSentFits
    <3>2. CASE Calm(Client) /\ Client.state # "SYN_RCVD"
      BY <1>2, <1>3, <3>2, DoForwardUpFits DEF Calm, Advances, Gains
    <3> QED BY <1>2, <3>1, <3>2
  <2> QED BY <2>1, <2>2, <2>3 DEF Fits
<1>9. listening /\ t.fin # NoFin => AllRead
  BY <1>2, <1>7 DEF GoesOn, FinsOK
<1>10. t.state = "FIN_WAIT_2" => AllRead
  BY <1>2, <1>7 DEF GoesOn, FinsOK
<1>11. Sender(t, z) BY <1>7 DEF GoesOn
<1> HIDE DEF t, n
<1> QED BY <1>5, <1>6, <1>8, <1>9, <1>10, <1>11, ClientFins

LEMMA LoseFins ==
  ASSUME IInv, FinsOK, NEW p \in End, Lose(p)
  PROVE  FinsOK'
<1> DEFINE z == scenario.size
<1>1. PICK i \in DOMAIN net[p] : net' = [net EXCEPT ![p] = RemoveAt(@, i)] BY DEF Lose
<1>2. /\ sock' = sock /\ listening' = listening
      /\ scenario' = [scenario EXCEPT !.losses = @ - 1] /\ scenario \in Scenario
  BY DEF Lose, IInv
<1>3. scenario'.size = z BY <1>2 DEF Scenario
<1>4. net \in [End -> Seq(Cargo(z))] BY DEF IInv, NetOK
<1> DEFINE r == RemoveAt(net[p], i)
<1>5. From(r, net[p]) BY <1>1, <1>4, RemoveFrom
<1>6. net' = [net EXCEPT ![p] = r] BY <1>1
<1> HIDE DEF r
<1>7. \A e \in End : From(net'[e], net[e])
  BY <1>4, <1>5, <1>6, FromSelf
<1>8. Client' = Client /\ Server' = Server BY <1>2 DEF Client, Server
<1>9. AllRead' = AllRead BY <1>3, <1>8 DEF AllRead
<1>10. From(net'["client"], net["client"]) /\ From(net'["server"], net["server"])
  BY <1>7 DEF End
<1> QED BY <1>2, <1>3, <1>8, <1>9, <1>10 DEF FinsOK, From

\* A step of the sink that takes no segment.
LEMMA ServerRetainsFins ==
  ASSUME IInv, FinsOK, NEW t, Retains(Server, t, scenario.size), Becomes("server", t, net),
         UNCHANGED scenario, listening' => listening,
         Server = Unused => t = Server,
         listening' => Receiver(t, scenario.size)
  PROVE  FinsOK'
<1> DEFINE z == scenario.size
<1>1. /\ z \in 1..N /\ Fits(Server, z) /\ Server.out = <<>> /\ net \in [End -> Seq(Cargo(z))]
  BY ServerFacts
<1>2. Fits(t, z) /\ t.read >= Server.read
  <2>1. t.read = Server.read /\ Server.read \in 0..z BY <1>1 DEF Retains, Kept, Fits, Loose, Upto
  <2> QED BY <2>1 DEF Retains
<1>3. \/ Reader(t, z)
      \/ /\ [t EXCEPT !.out = <<>>] = Unused
         /\ \A k \in DOMAIN t.out : "RST" \in t.out[k].flags
  <2>1. CASE Reader(Server, z) BY <2>1, RetainsReader
  <2>2. CASE Server = Unused
    <3>1. t = Server /\ t.out = <<>> BY <1>1, <2>2
    <3>2. [t EXCEPT !.out = <<>>] = t BY <1>2, <3>1 DEF Fits, Loose
    <3> QED BY <2>2, <3>1, <3>2
  <2> QED BY <2>1, <2>2 DEF FinsOK
<1>4. PICK n : n = net OBVIOUS
<1>5. /\ n \in [End -> Seq(Cargo(z))] /\ n["client"] = net["client"]
      /\ From(n["server"], net["server"]) /\ Becomes("server", t, n)
  BY <1>1, <1>4, FromSelf
<1> QED BY <1>2, <1>3, <1>5, ServerFins

LEMMA ServerTimersFins ==
  ASSUME IInv, FinsOK, \/ RetxTimeout("server") \/ DelayedAck("server") \/ LastAck("server")
                       \/ TimeWaitOver("server") \/ SendPending("server") \/ SinkStop
  PROVE  FinsOK'
<1> DEFINE z == scenario.size
<1>1. z \in 1..N /\ Fits(Server, z) /\ Calm(Server) BY ServerFacts
<1>2. listening => Receiver(Server, z) BY DEF FinsOK
<1>3. Unused.retx = NoFlag /\ ~Unused.delAckEvent /\ ~Unused.lastAckEvent
      /\ ~Unused.timeWaitEvent /\ ~Unused.pendingEvent /\ Unused.accepted = 0
  BY DEF Unused
<1>4. CASE RetxTimeout("server")
  <2>1. /\ Becomes("server", FireRetx(Server), net) /\ UNCHANGED <<listening, scenario>>
        /\ Server.retx # NoFlag
    BY <1>4 DEF RetxTimeout, Server
  <2>2. Retains(Server, FireRetx(Server), z) BY <1>1, <2>1, FireRetxFits
  <2>3. listening => Receiver(FireRetx(Server), z) BY <1>1, <1>2, <2>1, FireRetxReceiver
  <2> QED BY <1>3, <2>1, <2>2, <2>3, ServerRetainsFins
<1>5. CASE DelayedAck("server")
  <2>1. /\ Becomes("server", DelAckTimeout(Server), net) /\ UNCHANGED <<listening, scenario>>
        /\ Server.delAckEvent
    BY <1>5 DEF DelayedAck, Server
  <2>2. Retains(Server, DelAckTimeout(Server), z) BY <1>1, DelAckTimeoutFits
  <2>3. listening => Receiver(DelAckTimeout(Server), z)
    BY <1>1, <1>2, DelAckTimeoutStills, StillsReceiver
  <2> QED BY <1>3, <2>1, <2>2, <2>3, ServerRetainsFins
<1>6. CASE LastAck("server")
  <2>1. /\ Becomes("server", LastAckTimeout(Server), net) /\ UNCHANGED <<listening, scenario>>
        /\ Server.lastAckEvent
    BY <1>6 DEF LastAck, Server
  <2>2. Retains(Server, LastAckTimeout(Server), z) BY <1>1, LastAckTimeoutFits
  <2>3. listening => Receiver(LastAckTimeout(Server), z)
    BY <1>1, <1>2, LastAckTimeoutStills, StillsReceiver
  <2> QED BY <1>3, <2>1, <2>2, <2>3, ServerRetainsFins
<1>7. CASE TimeWaitOver("server")
  <2>1. /\ Becomes("server", CloseAndNotify(Server), net) /\ UNCHANGED <<listening, scenario>>
        /\ Server.timeWaitEvent
    BY <1>7 DEF TimeWaitOver, Server
  <2>2. Retains(Server, CloseAndNotify(Server), z) BY <1>1, CloseAndNotifyFits
  <2>3. listening => Receiver(CloseAndNotify(Server), z)
    BY <1>1, <1>2, CloseAndNotifyStills, StillsReceiver
  <2> QED BY <1>3, <2>1, <2>2, <2>3, ServerRetainsFins
<1>8. CASE SendPending("server")
  <2> DEFINE t == SendPendingData([Server EXCEPT !.pendingEvent = FALSE])
  <2>1. Becomes("server", t, net) /\ UNCHANGED <<listening, scenario>> /\ Server.pendingEvent
    BY <1>8 DEF SendPending, Server
  <2>2. Retains(Server, t, z) BY <1>1, PendingFits
  <2>3. listening => Receiver(t, z) BY <1>1, <1>2, PendingReceiver
  <2> HIDE DEF t
  <2> QED BY <1>3, <2>1, <2>2, <2>3, ServerRetainsFins
<1>9. CASE SinkStop
  <2> DEFINE t == IF Server.accepted > 0 /\ Server.state # "SYN_RCVD" THEN Close(Server)
                  ELSE Server
  <2>1. Becomes("server", t, net) /\ UNCHANGED scenario /\ ~listening'
    BY <1>9 DEF SinkStop, Server
  <2>2. Retains(Server, t, z) BY <1>1, CloseFits, RetainsSelf
  <2>3. Server = Unused => t = Server BY <1>3
  <2> HIDE DEF t
  <2> QED BY <2>1, <2>2, <2>3, ServerRetainsFins
<1> QED BY <1>4, <1>5, <1>6, <1>7, <1>8, <1>9

\* A step of the client that takes no segment.
LEMMA ClientGoesFins ==
  ASSUME IInv, FinsOK, NEW t, t \in Loose(scenario.size), Goes(Client, t, scenario.size),
         Becomes("client", t, net), UNCHANGED <<listening, scenario>>
  PROVE  FinsOK'
<1>1. net \in [End -> Seq(Cargo(scenario.size))] BY ClientFacts
<1>2. PICK n : n = net OBVIOUS
<1>3. /\ n \in [End -> Seq(Cargo(scenario.size))] /\ n["server"] = net["server"]
      /\ From(n["client"], net["client"]) /\ Becomes("client", t, n)
  BY <1>1, <1>2, FromSelf
<1>4. Sender(t, scenario.size) /\ (listening /\ t.fin # NoFin => AllRead)
      /\ (t.state = "FIN_WAIT_2" => AllRead)
  BY DEF Goes, FinsOK
<1> QED BY <1>3, <1>4, ClientFins

LEMMA ClientTimersFins ==
  ASSUME IInv, FinsOK, \/ RetxTimeout("client") \/ DelayedAck("client") \/ LastAck("client")
                       \/ TimeWaitOver("client") \/ SendPending("client")
  PROVE  FinsOK'
<1> DEFINE z == scenario.size
<1>1. z \in 1..N /\ Fits(Client, z) /\ Client.out = <<>> /\ Sender(Client, z)
  BY ClientFacts DEF FinsOK
<1>2. CASE RetxTimeout("client")
  <2>1. /\ Becomes("client", FireRetx(Client), net) /\ UNCHANGED <<listening, scenario>>
        /\ Client.retx # NoFlag
    BY <1>2 DEF RetxTimeout, Client
  <2>2. CASE ClientCalls
    <3>1. Calling(Client) BY <2>2, ClientFacts
    <3>2. FireRetx(Client) \in Loose(z) BY <1>1, <2>1, <3>1, CallAgain
    <3>3. Goes(Client, FireRetx(Client), z) BY <1>1, <2>1, <3>1, CallAgainGoes
    <3> QED BY <2>1, <3>2, <3>3, ClientGoesFins
  <2>3. CASE ~ClientCalls
    <3>1. Calm(Client) BY <2>3, ClientFacts
    <3>2. FireRetx(Client) \in Loose(z) BY <1>1, <2>1, <3>1, FireRetxFits DEF Retains, Fits
    <3>3. Goes(Client, FireRetx(Client), z) BY <1>1, <2>1, <3>1, FireRetxGoes
    <3> QED BY <2>1, <3>2, <3>3, ClientGoesFins
  <2> QED BY <2>2, <2>3
<1>3. CASE DelayedAck("client")
  <2>1. Becomes("client", DelAckTimeout(Client), net) /\ UNCHANGED <<listening, scenario>>
    BY <1>3 DEF DelayedAck, Client
  <2>2. DelAckTimeout(Client) \in Loose(z) BY <1>1, DelAckTimeoutFits DEF Retains, Fits
  <2>3. Goes(Client, DelAckTimeout(Client), z) BY <1>1, DelAckTimeoutStills, StillsGoes
  <2> QED BY <2>1, <2>2, <2>3, ClientGoesFins
<1>4. CASE LastAck("client")
  <2>1. Becomes("client", LastAckTimeout(Client), net) /\ UNCHANGED <<listening, scenario>>
    BY <1>4 DEF LastAck, Client
  <2>2. LastAckTimeout(Client) \in Loose(z) BY <1>1, LastAckTimeoutFits DEF Retains, Fits
  <2>3. Goes(Client, LastAckTimeout(Client), z) BY <1>1, LastAckTimeoutStills, StillsGoes
  <2> QED BY <2>1, <2>2, <2>3, ClientGoesFins
<1>5. CASE TimeWaitOver("client")
  <2>1. Becomes("client", CloseAndNotify(Client), net) /\ UNCHANGED <<listening, scenario>>
    BY <1>5 DEF TimeWaitOver, Client
  <2>2. CloseAndNotify(Client) \in Loose(z) BY <1>1, CloseAndNotifyFits DEF Retains, Fits
  <2>3. Goes(Client, CloseAndNotify(Client), z) BY <1>1, CloseAndNotifyStills, StillsGoes
  <2> QED BY <2>1, <2>2, <2>3, ClientGoesFins
<1>6. CASE SendPending("client")
  <2> DEFINE t == SendPendingData([Client EXCEPT !.pendingEvent = FALSE])
  <2>1. Becomes("client", t, net) /\ UNCHANGED <<listening, scenario>> /\ Client.pendingEvent
    BY <1>6 DEF SendPending, Client
  <2>2. t \in Loose(z) BY <1>1, PendingFits DEF Retains, Fits
  <2>3. Client.state # "SYN_SENT" BY <2>1, ClientFacts DEF Calling, ClientCalls
  <2>4. Goes(Client, t, z) BY <1>1, <2>3, PendingGoes
  <2> HIDE DEF t
  <2> QED BY <2>1, <2>2, <2>4, ClientGoesFins
<1> QED BY <1>2, <1>3, <1>4, <1>5, <1>6

LEMMA InitFins == Init => FinsOK
<1> SUFFICES ASSUME Init PROVE FinsOK OBVIOUS
<1> DEFINE z == scenario.size
           u == [Unused EXCEPT !.open = TRUE]
           c == [Connect EXCEPT !.state = "SYN_SENT"]
           x == [c EXCEPT !.out = <<>>]
<1>1. scenario \in Scenario /\ z \in 1..N
  BY TcpConnectionAssumption, SizeType DEF Init
<1>2. /\ Fits(x, z) /\ x.out = <<>> /\ Calling(x) /\ c.out \in Sent(z) /\ SynOnly(c.out)
  BY <1>1, ConnectFits
<1>3. x.fin = NoFin /\ ~x.shutdownSend
  BY DEF Connect, SendEmptyPacket, Emit, CloseAndNotify, DeallocateEndPoint, CancelAllTimers, Unused
<1> HIDE DEF c, x
<1>4. sock = [client |-> x, server |-> Unused] /\ net = [client |-> <<>>, server |-> c.out]
  BY DEF Init, c, x
<1>5. Client = x /\ Server = Unused BY <1>4 DEF Client, Server
<1>6. Sender(x, z) BY <1>2, <1>3 DEF Sender, Calling
<1>7. \A k \in DOMAIN c.out : FinLast(c.out[k], z)
  BY <1>2, FlagsType DEF FinLast, SynOnly
<1>8. Receiver(Unused, z)
  <2>1. NoFlag # FINACK BY DEF NoFlag, FINACK
  <2> QED BY <2>1 DEF Receiver, Unused
<1>9. x.state # "FIN_WAIT_2" BY <1>2 DEF Calling
<1> QED BY <1>3, <1>4, <1>5, <1>6, <1>7, <1>8, <1>9 DEF FinsOK

LEMMA NextFins == FInv /\ [Next]_vars => FInv'
<1> SUFFICES ASSUME FInv, [Next]_vars PROVE FInv' OBVIOUS
<1>1. IInv /\ FinsOK BY DEF FInv
<1>2. IInv' BY <1>1, NextIInv
<1>3. CASE UNCHANGED vars
  BY <1>1, <1>2, <1>3 DEF vars, FInv, FinsOK, AllRead, Client, Server
<1>4. CASE SinkStop BY <1>1, <1>2, <1>4, ServerTimersFins DEF FInv
<1>5. CASE \E p \in End : Deliver(p) \/ Lose(p) \/ RetxTimeout(p) \/ DelayedAck(p)
                          \/ LastAck(p) \/ TimeWaitOver(p) \/ SendPending(p)
  <2>1. PICK p \in End : Deliver(p) \/ Lose(p) \/ RetxTimeout(p) \/ DelayedAck(p)
                         \/ LastAck(p) \/ TimeWaitOver(p) \/ SendPending(p)
    BY <1>5
  <2>2. FinsOK'
    <3>1. CASE Lose(p) BY <1>1, <3>1, LoseFins
    <3>2. CASE p = "client" /\ ~Lose(p) BY <1>1, <2>1, <3>2, DeliverClientFins, ClientTimersFins
    <3>3. CASE p = "server" /\ ~Lose(p) BY <1>1, <2>1, <3>3, DeliverServerFins, ServerTimersFins
    <3> QED BY <3>1, <3>2, <3>3 DEF End
  <2> QED BY <1>2, <2>2 DEF FInv
<1> QED BY <1>3, <1>4, <1>5 DEF Next

\* Every FIN on its way to an end, and every acknowledgement of the FIN of the
\* client, tells that the sink has read the whole flow, at every moment.
THEOREM FinsTell == Spec => []FInv
<1>1. Init => FInv BY InitIInv, InitFins DEF FInv
<1> QED BY <1>1, NextFins, PTL DEF Spec

\* A client that has seen its FIN acknowledged, or the FIN of a sink that did
\* not close first, has left no data of the flow behind; neither has a sink
\* that is past the FIN of its client.
THEOREM FinishedMeansDeliveredCorrect == Spec => []FinishedMeansDelivered
<1>1. FInv => FinishedMeansDelivered
  <2> SUFFICES ASSUME FInv PROVE FinishedMeansDelivered OBVIOUS
  <2>1. IInv /\ FinsOK BY DEF FInv
  <2>2. listening /\ Client.state = "TIME_WAIT" => AllRead BY <2>1 DEF FinsOK, Sender
  <2>3. Server.state \in {"LAST_ACK", "CLOSING", "TIME_WAIT"} => AllRead
    BY <2>1 DEF FinsOK, Reader, Late, Unused, AllRead
  <2> QED BY <2>1, <2>2, <2>3 DEF FinishedMeansDelivered, FinsOK, AllRead
<1> QED BY <1>1, FinsTell, PTL

-----------------------------------------------------------------------------
\* Which timers a client keeps.

\* t has the buffers of s, and has sent no data since.
Keeps(s, t) ==
  /\ t.head = s.head /\ t.txEnd = s.txEnd /\ t.unsent = s.unsent
  /\ t.highTx = s.highTx /\ t.window = s.window
  /\ t.early = s.early /\ t.read = s.read
  /\ \A k \in DOMAIN t.out :
       t.out[k].len = 1 => \E j \in DOMAIN s.out : s.out[j] = t.out[k]

\* t is closed, or is as s was and has no timer less.
Stays(s, t) ==
  /\ Keeps(s, t)
  /\ t.open => /\ s.open /\ t.state = s.state
               /\ t.closeOnEmpty = s.closeOnEmpty /\ t.timeWaitEvent = s.timeWaitEvent
               /\ t.pendingEvent = s.pendingEvent
               /\ s.retx # NoFlag => t.retx # NoFlag

\* The application has just written the flow.
Fresh(s, z) == s.pendingEvent /\ s.unsent = 1..z /\ s.head = 1

\* A client that has not sent its FIN has not sent, and so not seen
\* acknowledged, the last segment; neither has one in LAST_ACK seen it
\* acknowledged.
Shape(s, z) ==
  /\ s.window >= 1
  /\ s.open =>
       /\ s.state \notin {"CLOSED", "SYN_RCVD"}
       /\ s.state = "SYN_SENT" => s.highTx = 0
       /\ s.state \in {"ESTABLISHED", "CLOSE_WAIT"} =>
            s.highTx <= z /\ s.head <= z /\ s.closeOnEmpty
       /\ s.state = "LAST_ACK" => s.head <= z
       /\ s.state = "TIME_WAIT" => s.timeWaitEvent
  /\ \A k \in DOMAIN s.out : s.out[k].len = 1 /\ s.out[k].seq = z => s.highTx > z

\* It waits for a timer, or has just the flow to send.
Armed(s, z) ==
  s.open /\ s.state \notin {"FIN_WAIT_2", "TIME_WAIT"} =>
    s.retx # NoFlag \/ (s.state \in {"ESTABLISHED", "CLOSE_WAIT"} /\ Fresh(s, z))

Lives(s, t, z) ==
  Shape(t, z) /\ t.highTx >= s.highTx /\ (Armed(s, z) => Armed(t, z))

LEMMA KeepsTrans ==
  ASSUME NEW s, NEW t, NEW u, Keeps(s, t), Keeps(t, u)
  PROVE  Keeps(s, u)
<1>1. ASSUME NEW k \in DOMAIN u.out, u.out[k].len = 1
      PROVE  \E j \in DOMAIN s.out : s.out[j] = u.out[k]
  <2>1. PICK i \in DOMAIN t.out : t.out[i] = u.out[k] BY <1>1 DEF Keeps
  <2>2. t.out[i].len = 1 BY <1>1, <2>1
  <2>3. PICK j \in DOMAIN s.out : s.out[j] = t.out[i] BY <2>2 DEF Keeps
  <2> QED BY <2>1, <2>3
<1> QED BY <1>1 DEF Keeps

LEMMA StaysSelf == ASSUME NEW s PROVE Stays(s, s)
BY DEF Stays, Keeps

LEMMA StaysTrans ==
  ASSUME NEW s, NEW t, NEW u, Stays(s, t), Stays(t, u)
  PROVE  Stays(s, u)
BY KeepsTrans DEF Stays

LEMMA ClosedStays ==
  ASSUME NEW s, NEW t, Keeps(s, t), ~t.open
  PROVE  Stays(s, t)
BY DEF Stays

LEMMA KeepsShape ==
  ASSUME NEW z, NEW s, NEW t, Shape(s, z), Keeps(s, t)
  PROVE  /\ t.window >= 1
         /\ \A k \in DOMAIN t.out : t.out[k].len = 1 /\ t.out[k].seq = z => t.highTx > z
<1> SUFFICES ASSUME NEW k \in DOMAIN t.out, t.out[k].len = 1, t.out[k].seq = z
             PROVE  t.highTx > z
  BY DEF Keeps, Shape
<1>1. PICK j \in DOMAIN s.out : s.out[j] = t.out[k] BY DEF Keeps
<1> QED BY <1>1 DEF Keeps, Shape

LEMMA StaysLives ==
  ASSUME NEW z \in 1..N, NEW s, Fits(s, z), NEW t, Shape(s, z), Stays(s, t)
  PROVE  Lives(s, t, z)
<1>1. Keeps(s, t) BY DEF Stays
<1>2. Shape(t, z) BY <1>1, KeepsShape DEF Stays, Keeps, Shape
<1>3. s.highTx \in Nat BY DEF Fits, Loose
<1>4. Armed(s, z) => Armed(t, z) BY DEF Stays, Keeps, Armed, Fresh
<1> QED BY <1>1, <1>2, <1>3, <1>4 DEF Lives, Keeps

LEMMA LivesTrans ==
  ASSUME NEW z \in 1..N, NEW s, NEW t, NEW u, Fits(s, z), Fits(t, z), Fits(u, z),
         Lives(s, t, z), Lives(t, u, z)
  PROVE  Lives(s, u, z)
<1>1. s.highTx \in Nat /\ t.highTx \in Nat /\ u.highTx \in Nat BY DEF Fits, Loose
<1> QED BY <1>1 DEF Lives

LEMMA LivesSelf ==
  ASSUME NEW z \in 1..N, NEW s, Fits(s, z), Shape(s, z)
  PROVE  Lives(s, s, z)
BY StaysSelf, StaysLives

LEMMA CancelKeeps ==
  ASSUME NEW z, NEW s \in Loose(z)
  PROVE  /\ Keeps(s, CancelAllTimers(s)) /\ CancelAllTimers(s).open = s.open
         /\ CancelAllTimers(s).state = s.state
BY DEF CancelAllTimers, Loose, Keeps

LEMMA DeallocateKeeps ==
  ASSUME NEW z \in 1..N, NEW s, Fits(s, z)
  PROVE  Keeps(s, DeallocateEndPoint(s)) /\ ~DeallocateEndPoint(s).open
<1>1. ASSUME NEW c \in Loose(z)
      PROVE  Keeps(c, [c EXCEPT !.open = FALSE]) /\ [c EXCEPT !.open = FALSE].open = FALSE
  BY <1>1 DEF Loose, Keeps
<1> DEFINE c == CancelAllTimers(s)
<1>2. Keeps(s, c) BY CancelKeeps DEF Fits
<1>3. c \in Loose(z) BY CancelFits DEF Retains, Fits
<1>4. DeallocateEndPoint(s) = IF s.open THEN [c EXCEPT !.open = FALSE] ELSE s
  BY DEF DeallocateEndPoint
<1> HIDE DEF c
<1>5. Keeps(s, s) BY StaysSelf DEF Stays
<1> QED BY <1>1, <1>2, <1>3, <1>4, <1>5, KeepsTrans

LEMMA CloseAndNotifyKeeps ==
  ASSUME NEW z \in 1..N, NEW s, Fits(s, z)
  PROVE  Keeps(s, CloseAndNotify(s)) /\ ~CloseAndNotify(s).open
<1> DEFINE w == s.told \cup {"normal"}
           c == [s EXCEPT !.state = "CLOSED", !.told = w]
<1>1. CloseAndNotify(s) = DeallocateEndPoint(c) BY DEF CloseAndNotify
<1>2. w \in Calls BY DEF Fits, Loose, Calls
<1> HIDE DEF w
<1>3. Fits(c, z) BY <1>2 DEF Fits, Loose, Clean, State
<1>4. Keeps(s, c) BY DEF Fits, Loose, Keeps
<1> HIDE DEF c
<1> QED BY <1>1, <1>3, <1>4, DeallocateKeeps, KeepsTrans

\* A segment without data; a SYN or a FIN leaves a timer behind.
LEMMA SendEmptyPacketStays ==
  ASSUME NEW z \in 1..N, NEW s, Fits(s, z), NEW f \in {ACK, RST, SYN, SYNACK, FIN, FINACK}
  PROVE  /\ Stays(s, SendEmptyPacket(s, f))
         /\ f \notin {ACK, RST} /\ SendEmptyPacket(s, f).open
              => SendEmptyPacket(s, f).retx # NoFlag
<1> DEFINE flags == IF "FIN" \in f THEN f \cup ACK ELSE f
           pastFin == s.state \in {"FIN_WAIT_1", "LAST_ACK", "CLOSING"} /\ "FIN" \notin f
           seq == IF pastFin THEN s.nextTx + 1 ELSE s.nextTx
           seg == [flags |-> flags, seq |-> seq, ack |-> s.rxNext, len |-> 0]
           o == Append(s.out, seg)
           again == flags \cap {"SYN", "FIN"} # {}
           a == IF "SYN" \in f THEN s.synCount - 1 ELSE s.synCount
           b == IF "ACK" \in flags THEN 0 ELSE s.delAck
           c == IF "ACK" \in flags THEN FALSE ELSE s.delAckEvent
           d == IF again /\ s.retx = NoFlag THEN flags ELSE s.retx
           t == [s EXCEPT !.out = o, !.synCount = a, !.delAck = b, !.delAckEvent = c,
                          !.retx = d]
<1>1. SendEmptyPacket(s, f) = IF ~s.open THEN s
         ELSE IF "SYN" \in f /\ s.synCount = 0 THEN CloseAndNotify(s) ELSE t
  BY DEF SendEmptyPacket, Emit, Fits, Loose
<1>2. flags # NoFlag /\ (f \notin {ACK, RST} => again)
  BY DEF NoFlag, ACK, RST, SYN, SYNACK, FIN, FINACK
<1>3. s.out \in Sent(z) BY DEF Fits, Loose
<1>4. \A k \in DOMAIN o : o[k].len = 1 => \E j \in DOMAIN s.out : s.out[j] = o[k]
  <2>1. seg.len = 0 OBVIOUS
  <2> HIDE DEF seg
  <2>2. DOMAIN o = 1..(Len(s.out) + 1) /\ DOMAIN s.out = 1..Len(s.out)
        /\ \A k \in DOMAIN o : o[k] = IF k <= Len(s.out) THEN s.out[k] ELSE seg
    BY <1>3 DEF Sent
  <2> QED BY <2>1, <2>2
<1>5. (s.retx # NoFlag => d # NoFlag) /\ (f \notin {ACK, RST} => d # NoFlag)
  <2> HIDE DEF flags, again
  <2> QED BY <1>2
<1> HIDE DEF o, a, b, c, d
<1>6. Stays(s, t) /\ t.retx = d
  <2>1. /\ t.head = s.head /\ t.txEnd = s.txEnd /\ t.unsent = s.unsent
        /\ t.highTx = s.highTx /\ t.window = s.window /\ t.early = s.early
        /\ t.read = s.read /\ t.open = s.open /\ t.retx = d /\ t.out = o
        /\ t.state = s.state /\ t.closeOnEmpty = s.closeOnEmpty
        /\ t.timeWaitEvent = s.timeWaitEvent /\ t.pendingEvent = s.pendingEvent
    BY DEF Fits, Loose
  <2> HIDE DEF t
  <2> QED BY <1>4, <1>5, <2>1 DEF Stays, Keeps
<1> HIDE DEF t
<1>7. Stays(s, CloseAndNotify(s)) /\ ~CloseAndNotify(s).open
  BY CloseAndNotifyKeeps, ClosedStays
<1> QED BY <1>1, <1>5, <1>6, <1>7, StaysSelf

LEMMA SendRSTStays ==
  ASSUME NEW z \in 1..N, NEW s, Fits(s, z)
  PROVE  Stays(s, SendRST(s))
<1> DEFINE t == SendEmptyPacket(s, RST)
           w == t.told \cup {"error"}
           u == [t EXCEPT !.told = w]
<1>1. Fits(t, z) /\ Stays(s, t) BY SendEmptyPacketFits, SendEmptyPacketStays DEF Retains
<1>2. SendRST(s) = DeallocateEndPoint(u) BY DEF SendRST
<1> HIDE DEF t
<1>3. w \in Calls BY <1>1 DEF Fits, Loose, Calls
<1> HIDE DEF w
<1>4. Fits(u, z) /\ Keeps(t, u) BY <1>1, <1>3 DEF Fits, Loose, Clean, Keeps
<1> HIDE DEF u
<1>5. Keeps(s, DeallocateEndPoint(u)) /\ ~DeallocateEndPoint(u).open
  BY <1>1, <1>4, DeallocateKeeps, KeepsTrans DEF Stays
<1> QED BY <1>2, <1>5, ClosedStays

LEMMA RefuseStays ==
  ASSUME NEW z \in 1..N, NEW s, NEW m, Fits(s, z)
  PROVE  Stays(s, Refuse(s, m))
<1>1. Fits(SendRST(s), z) /\ Keeps(s, SendRST(s)) BY SendRSTFits, SendRSTStays DEF Retains, Stays
<1>2. /\ Keeps(SendRST(s), CloseAndNotify(SendRST(s)))
      /\ ~CloseAndNotify(SendRST(s)).open
  BY <1>1, CloseAndNotifyKeeps
<1>3. Stays(s, CloseAndNotify(SendRST(s))) BY <1>1, <1>2, KeepsTrans, ClosedStays
<1>4. Stays(s, CloseAndNotify(s)) BY CloseAndNotifyKeeps, ClosedStays
<1> QED BY <1>3, <1>4 DEF Refuse

LEMMA TimeWaitKeeps ==
  ASSUME NEW z \in 1..N, NEW s, Fits(s, z)
  PROVE  /\ Keeps(s, TimeWait(s)) /\ TimeWait(s).open = s.open
         /\ TimeWait(s).state = "TIME_WAIT" /\ TimeWait(s).timeWaitEvent
<1> DEFINE c == CancelAllTimers(s)
           w == c.told \cup {"normal"}
           t == [c EXCEPT !.state = "TIME_WAIT", !.told = w, !.timeWaitEvent = TRUE]
<1>1. TimeWait(s) = t BY DEF TimeWait
<1>2. c \in Loose(z) BY CancelFits DEF Retains, Fits
<1>3. Keeps(s, c) /\ c.open = s.open BY CancelKeeps DEF Fits
<1> HIDE DEF c, w
<1>4. Keeps(c, t) /\ t.open = c.open /\ t.state = "TIME_WAIT" /\ t.timeWaitEvent
  BY <1>2 DEF Loose, Keeps
<1> HIDE DEF t
<1> QED BY <1>1, <1>3, <1>4, KeepsTrans

-----------------------------------------------------------------------------
\* What the client sends leaves a timer behind.

LEMMA SendDataPacketLives ==
  ASSUME NEW z \in 1..N, NEW s, Fits(s, z), Sender(s, z), Shape(s, z), NEW q \in s.unsent,
         s.open, s.state # "SYN_SENT"
  PROVE  Lives(s, SendDataPacket(s, q), z) /\ SendDataPacket(s, q).retx # NoFlag
<1> DEFINE fin == s.closeOnEmpty /\ q + 1 >= s.txEnd
           x == CASE fin /\ s.state = "ESTABLISHED" -> "FIN_WAIT_1"
                  [] fin /\ s.state = "CLOSE_WAIT" -> "LAST_ACK"
                  [] OTHER -> s.state
           flags == IF fin THEN FINACK ELSE ACK
           seg == [flags |-> flags, seq |-> q, ack |-> s.rxNext, len |-> 1]
           o == Append(s.out, seg)
           r == IF s.retx = NoFlag THEN RTO ELSE s.retx
           u == s.unsent \ {q}
           n == q + 1
           h == Larger(s.highTx, n)
           none == 0
           t == [s EXCEPT !.state = x, !.out = o, !.delAck = none, !.delAckEvent = FALSE,
                          !.retx = r, !.unsent = u, !.nextTx = n, !.highTx = h]
<1>1. SendDataPacket(s, q) = t
  BY DEF SendDataPacket, Emit, Fits, Loose
<1>2. Whole(s, z) BY DEF Sender
<1>3. q \in 1..z /\ s.highTx \in Nat /\ s.out \in Sent(z) /\ s.head \in Nat
  BY DEF Fits, Loose, Pieces
<1>4. h \in Nat /\ h >= n /\ h >= s.highTx /\ (h = n \/ h = s.highTx) BY <1>3 DEF Larger
<1>5. r # NoFlag BY DEF RTO, NoFlag
<1>6. \A k \in DOMAIN o : o[k].len = 1 /\ o[k].seq = z => h > z
  <2>1. seg.seq = q OBVIOUS
  <2> HIDE DEF seg, h
  <2>2. DOMAIN o = 1..(Len(s.out) + 1) /\ DOMAIN s.out = 1..Len(s.out)
        /\ \A k \in DOMAIN o : o[k] = IF k <= Len(s.out) THEN s.out[k] ELSE seg
    BY <1>3 DEF Sent
  <2>3. \A k \in DOMAIN s.out : s.out[k].len = 1 /\ s.out[k].seq = z => h > z
    BY <1>3, <1>4 DEF Shape
  <2>4. seg.seq = z => h > z BY <1>3, <1>4, <2>1
  <2> QED BY <2>2, <2>3, <2>4
<1>7. /\ x \in {"ESTABLISHED", "CLOSE_WAIT"} => x = s.state /\ ~fin
      /\ x = "LAST_ACK" => s.state \in {"CLOSE_WAIT", "LAST_ACK"}
      /\ x \in {"CLOSED", "SYN_RCVD", "SYN_SENT", "TIME_WAIT", "FIN_WAIT_2"} => x = s.state
  OBVIOUS
<1>8. ~fin /\ s.state \in {"ESTABLISHED", "CLOSE_WAIT"} => h <= z
  BY <1>2, <1>3, <1>4 DEF Shape, Whole
<1> HIDE DEF fin, x, o, r, u, n, h, none
<1>9. /\ t.head = s.head /\ t.window = s.window /\ t.highTx = h /\ t.open = s.open
      /\ t.retx = r /\ t.out = o /\ t.state = x /\ t.closeOnEmpty = s.closeOnEmpty
      /\ t.timeWaitEvent = s.timeWaitEvent
  BY DEF Fits, Loose
<1> HIDE DEF t
<1>10. Shape(t, z) BY <1>6, <1>7, <1>8, <1>9 DEF Shape
<1>11. Armed(t, z) BY <1>5, <1>9 DEF Armed
<1> QED BY <1>1, <1>4, <1>5, <1>9, <1>10, <1>11 DEF Lives

\* There is something to send, and nothing in the way.
Ready(s) ==
  /\ s.unsent # {} /\ s.window >= 1 /\ s.head..(s.txEnd - 1) \subseteq s.unsent
  /\ s.state = "FIN_WAIT_1" => s.recover # 0

LEMMA SendNextLives ==
  ASSUME NEW z \in 1..N, NEW s, Fits(s, z), Sender(s, z), Shape(s, z),
         s.open, s.state # "SYN_SENT"
  PROVE  /\ Lives(s, SendNext(s), z)
         /\ s.retx # NoFlag \/ Ready(s) => SendNext(s).retx # NoFlag
<1>1. s.unsent \in SUBSET (1..z) BY DEF Fits, Loose, Pieces
<1>2. s.unsent # {} => Least(s.unsent) \in s.unsent BY <1>1, LeastFits
<1>3. Lives(s, s, z) BY LivesSelf
<1>4. SendNext(s) = s \/ (s.unsent # {} /\ SendNext(s) = SendDataPacket(s, Least(s.unsent)))
  BY DEF SendNext
<1>5. ASSUME Ready(s) PROVE SendNext(s) = SendDataPacket(s, Least(s.unsent))
  <2>1. (s.head..(s.txEnd - 1)) \ s.unsent = {} BY <1>5 DEF Ready
  <2>2. InFlight(s) = 0
    <3>1. Cardinality({}) = 0 BY FS_EmptySet
    <3> QED BY <2>1, <3>1 DEF InFlight
  <2>3. s.window \in Nat BY DEF Fits, Loose
  <2>4. ~(InFlight(s) >= s.window) BY <1>5, <2>2, <2>3 DEF Ready
  <2> QED BY <1>5, <2>4 DEF SendNext, Ready
<1> QED BY <1>2, <1>3, <1>4, <1>5, SendDataPacketLives DEF Ready

LEMMA SendPendingDataLives ==
  ASSUME NEW z \in 1..N, NEW s, Fits(s, z), Sender(s, z), Shape(s, z), s.state # "SYN_SENT"
  PROVE  /\ Lives(s, SendPendingData(s), z)
         /\ s.open /\ TxSize(s) # 0 /\ Ready(s) => SendPendingData(s).retx # NoFlag
<1>1. Lives(s, s, z) BY LivesSelf
<1>2. CASE s.open
  <2> DEFINE t == SendNext(s)
             u == SendNext(t)
  <2>1. Goes(s, t, z) /\ t.open /\ t.state # "SYN_SENT" BY <1>2, SendNextGoes
  <2>2. Fits(t, z) BY SendNextFits DEF Retains
  <2>3. Then(SendNext(s), SendNext) = u BY DEF Then
  <2>4. Lives(s, t, z) /\ (Ready(s) => t.retx # NoFlag) BY <1>2, SendNextLives
  <2> HIDE DEF t
  <2>5. Sender(t, z) /\ Shape(t, z) BY <2>1, <2>4 DEF Goes, Lives
  <2>6. Lives(t, u, z) /\ (t.retx # NoFlag => u.retx # NoFlag) BY <2>1, <2>2, <2>5, SendNextLives
  <2>7. Fits(u, z) BY <2>2, SendNextFits DEF Retains
  <2> HIDE DEF u
  <2>8. Lives(s, u, z) BY <2>2, <2>4, <2>6, <2>7, LivesTrans
  <2>9. SendPendingData(s) = IF TxSize(s) = 0 THEN s ELSE u
    BY <1>2, <2>3 DEF SendPendingData, t
  <2> QED BY <1>1, <2>4, <2>6, <2>8, <2>9
<1>3. CASE ~s.open BY <1>1, <1>3 DEF SendPendingData
<1> QED BY <1>2, <1>3

\* The client acknowledges the FIN of a sink that closed first.
LEMMA DoPeerCloseLives ==
  ASSUME NEW z \in 1..N, NEW s, Fits(s, z), Sender(s, z), Shape(s, z), s.state = "ESTABLISHED"
  PROVE  Lives(s, DoPeerClose(s), z)
<1> DEFINE w == s.told \cup {"normal"}
           x == [s EXCEPT !.state = "CLOSE_WAIT", !.told = w]
           answer == SendEmptyPacket(x, ACK)
           late == answer.lastAckEvent \/ answer.state = "LAST_ACK"
           t == [answer EXCEPT !.lastAckEvent = late]
<1>1. w \in Calls BY DEF Fits, Loose, Calls
<1>2. DoPeerClose(s) = t
  <2>1. ~s.shutdownSend BY DEF Sender
  <2>2. x.shutdownSend = s.shutdownSend BY DEF Fits, Loose
  <2> QED BY <2>1, <2>2 DEF DoPeerClose
<1> HIDE DEF w
<1>3. Fits(x, z)
  <2>1. x \in Loose(z) BY <1>1 DEF Fits, Loose, State
  <2>2. /\ x.head = s.head /\ x.txEnd = s.txEnd /\ x.read = s.read /\ x.rxNext = s.rxNext
        /\ x.out = s.out
    BY DEF Fits, Loose
  <2> HIDE DEF x
  <2> QED BY <2>1, <2>2 DEF Fits, Clean
<1>4. Lives(s, x, z)
  <2>1. /\ x.head = s.head /\ x.unsent = s.unsent /\ x.highTx = s.highTx
        /\ x.window = s.window /\ x.out = s.out /\ x.open = s.open
        /\ x.retx = s.retx /\ x.closeOnEmpty = s.closeOnEmpty
        /\ x.pendingEvent = s.pendingEvent /\ x.state = "CLOSE_WAIT"
    BY DEF Fits, Loose
  <2>2. s.highTx \in Nat BY DEF Fits, Loose
  <2> HIDE DEF x
  <2> QED BY <2>1, <2>2 DEF Lives, Shape, Armed, Fresh
<1> HIDE DEF x
<1>5. Fits(answer, z) /\ Stays(x, answer)
  BY <1>3, SendEmptyPacketFits, SendEmptyPacketStays DEF Retains
<1> HIDE DEF answer
<1>6. late \in BOOLEAN
  <2>1. answer.lastAckEvent \in BOOLEAN BY <1>5 DEF Fits, Loose
  <2> QED BY <2>1, Zenon
<1> HIDE DEF late
<1>7. Stays(answer, t) /\ Fits(t, z) BY <1>5, <1>6 DEF Fits, Loose, Stays, Keeps, Clean
<1> HIDE DEF t
<1>8. Lives(x, t, z) BY <1>3, <1>4, <1>5, <1>7, StaysTrans, StaysLives DEF Lives
<1> QED BY <1>2, <1>3, <1>4, <1>7, <1>8, LivesTrans

\* An acknowledgement of less than the last segment leaves data to send, and
\* the timer with them.
LEMMA AckedLives ==
  ASSUME NEW z \in 1..N, NEW s, Fits(s, z), Sender(s, z), Shape(s, z), s.open,
         s.state \in Closable, NEW a \in Nat,
         s.state \in {"ESTABLISHED", "CLOSE_WAIT"} => a <= z
  PROVE  Lives(s, ProcessAck(DiscardUpTo(s, a), a, s.head), z)
<1> DEFINE h == Larger(s.head, a)
           u == {q \in s.unsent : q >= a}
           d == DiscardUpTo(s, a)
           t == ProcessAck(d, a, s.head)
<1>1. /\ h \in Nat /\ h >= s.head /\ h >= a /\ (a <= s.head => h = s.head)
      /\ (a > s.head => h = a) /\ s.head \in Nat /\ s.highTx \in Nat /\ z \in Nat
  BY DEF Larger, Fits, Loose
<1>2. Fits(d, z) BY DiscardUpToFits DEF Retains
<1>3. /\ d.head = h /\ d.txEnd = s.txEnd /\ d.unsent = u /\ d.highTx = s.highTx
      /\ d.open = s.open /\ d.retx = s.retx /\ d.out = s.out /\ d.state = s.state
      /\ d.window = s.window /\ d.closeOnEmpty = s.closeOnEmpty
      /\ d.timeWaitEvent = s.timeWaitEvent /\ d.pendingEvent = s.pendingEvent
  BY DEF DiscardUpTo, Fits, Loose
<1>4. Whole(s, z) BY DEF Sender, Closable
<1>5. a <= s.head => u = s.unsent BY <1>1, <1>4 DEF Whole, Fits, Loose, Pieces
<1>6. s.state \in {"ESTABLISHED", "CLOSE_WAIT"} => h <= z BY <1>1 DEF Shape
<1> HIDE DEF d, h, u
<1>7. CASE a > s.head
  <2> DEFINE restarted == IF d.state = "SYN_RCVD" THEN d.retx ELSE RTO
             idle == TxSize(d) = 0 /\ d.state \notin {"FIN_WAIT_1", "CLOSING"}
             n == Larger(d.nextTx, a)
             r == IF idle THEN NoFlag ELSE restarted
             v == IF a < d.recover THEN d.recover ELSE 0
  <2>1. t = [d EXCEPT !.dataRetr = DataRetries, !.nextTx = n, !.retx = r,
                      !.window = N, !.recover = v]
    BY <1>7 DEF ProcessAck, NewAck
  <2>2. d.state # "FIN_WAIT_2" => r # NoFlag
    <3>1. RTO # NoFlag BY DEF RTO, NoFlag
    <3>2. d.state \in {"ESTABLISHED", "CLOSE_WAIT"} => ~idle
      BY <1>1, <1>3, <1>4, <1>6 DEF TxSize, Larger, Whole
    <3> HIDE DEF idle
    <3>3. d.state # "FIN_WAIT_2" => ~idle BY <1>3, <3>2 DEF Closable, idle
    <3>4. d.state # "SYN_RCVD" BY <1>3 DEF Closable
    <3> QED BY <3>1, <3>3, <3>4
  <2>3. N >= 1 BY ConstantsType
  <2> HIDE DEF n, r, v, t
  <2>4. /\ t.head = h /\ t.highTx = s.highTx /\ t.open = s.open /\ t.retx = r
        /\ t.out = s.out /\ t.state = s.state /\ t.window = N
        /\ t.closeOnEmpty = s.closeOnEmpty /\ t.timeWaitEvent = s.timeWaitEvent
    BY <1>2, <1>3, <2>1 DEF Fits, Loose
  <2>5. Shape(t, z) BY <1>1, <1>6, <2>3, <2>4 DEF Shape, Closable
  <2>6. Armed(t, z) BY <1>3, <2>2, <2>4 DEF Armed
  <2> QED BY <1>1, <2>4, <2>5, <2>6 DEF Lives, t, d
<1>8. CASE a <= s.head
  <2> DEFINE n == IF a = s.head /\ a > d.highTx THEN a ELSE d.nextTx
  <2>1. t = [d EXCEPT !.nextTx = n]
    <3>1. ~(a > s.head) BY <1>1, <1>8
    <3>2. d = [d EXCEPT !.nextTx = d.nextTx] BY <1>2 DEF Fits, Loose
    <3> QED BY <3>1, <3>2 DEF ProcessAck
  <2> HIDE DEF n, t
  <2>2. /\ t.head = s.head /\ t.unsent = s.unsent /\ t.highTx = s.highTx /\ t.open = s.open
        /\ t.retx = s.retx /\ t.out = s.out /\ t.state = s.state /\ t.window = s.window
        /\ t.closeOnEmpty = s.closeOnEmpty /\ t.timeWaitEvent = s.timeWaitEvent
        /\ t.pendingEvent = s.pendingEvent
    BY <1>1, <1>2, <1>3, <1>5, <1>8, <2>1 DEF Fits, Loose
  <2> QED BY <1>1, <2>2 DEF Lives, Shape, Armed, Fresh, t, d
<1> QED BY <1>1, <1>7, <1>8

\* A segment without data that acknowledges less than the flow to a client
\* that has not sent the whole of it.
Short(s, m, z) ==
  /\ m.len = 0
  /\ s.state = "CLOSE_WAIT" /\ "RST" \notin m.flags => m.ack <= z

LEMMA ReceivedAckLives ==
  ASSUME NEW z \in 1..N, NEW s, Fits(s, z), Calm(s), Sender(s, z), Shape(s, z), s.open,
         s.state \in Closable, NEW m \in Cargo(z), m.len = 0,
         s.state \in {"ESTABLISHED", "CLOSE_WAIT"} => m.ack <= z
  PROVE  Lives(s, ReceivedAck(s, m), z)
<1> DEFINE d == DiscardUpTo(s, m.ack)
           acked == ProcessAck(d, m.ack, s.head)
<1>1. m.ack \in Nat BY DEF Cargo
<1>2. Retains(s, acked, z)
  <2>1. Retains(s, d, z) BY <1>1, DiscardUpToFits
  <2> HIDE DEF d
  <2>2. Retains(d, acked, z) BY <1>1, <2>1, ProcessAckFits DEF Retains
  <2> HIDE DEF acked
  <2> QED BY <2>1, <2>2, RetainsTrans
<1>3. Goes(s, acked, z) BY <1>1, AckedGoes DEF Calm
<1>4. Lives(s, acked, z) BY <1>1, AckedLives
<1>5. ReceivedAck(s, m) = SendPendingData(acked) BY ReceivedAckIs
<1> HIDE DEF d, acked
<1>6. Fits(acked, z) /\ acked.state # "SYN_SENT" /\ Sender(acked, z) /\ Shape(acked, z)
  BY <1>2, <1>3, <1>4 DEF Retains, Goes, Lives, Calm
<1>7. Lives(acked, SendPendingData(acked), z) BY <1>6, SendPendingDataLives
<1>8. Fits(SendPendingData(acked), z) BY <1>6, SendPendingDataFits DEF Retains
<1> QED BY <1>4, <1>5, <1>6, <1>7, <1>8, LivesTrans

LEMMA SetFinSequenceStays ==
  ASSUME NEW z \in 1..N, NEW s, Fits(s, z), NEW f \in Nat
  PROVE  Stays(s, SetFinSequence(s, f)) /\ SetFinSequence(s, f).state = s.state
<1> DEFINE x == IF s.rxNext = f THEN f + 1 ELSE s.rxNext
           t == [s EXCEPT !.fin = f, !.rxNext = x]
<1>1. SetFinSequence(s, f) = t BY DEF SetFinSequence
<1> HIDE DEF x
<1>2. Stays(s, t) /\ t.state = s.state BY DEF Fits, Loose, Stays, Keeps
<1> QED BY <1>1, <1>2

LEMMA PeerCloseLives ==
  ASSUME NEW z \in 1..N, NEW s, Fits(s, z), Calm(s), Sender(s, z), Shape(s, z),
         s.state = "ESTABLISHED", NEW m \in Cargo(z), m.len = 0, "FIN" \in m.flags
  PROVE  Lives(s, PeerClose(s, m), z)
<1> DEFINE marked == SetFinSequence(s, m.seq + m.len)
<1>1. m.seq \in Nat /\ m.seq + m.len \in Nat /\ ~(m.len > 0) BY DEF Cargo
<1>2. /\ Gains(s, marked, z) /\ GoesOn(s, marked, z, m) /\ Stays(s, marked)
      /\ marked.state = "ESTABLISHED"
  BY <1>1, SetFinSequenceFits, SetFinSequenceGoes, SetFinSequenceStays
<1>3. PeerClose(s, m) \in {s, marked, DoPeerClose(marked)}
  BY <1>1, <1>2 DEF PeerClose
<1> HIDE DEF marked
<1>4. Fits(marked, z) /\ Sender(marked, z) /\ Lives(s, marked, z) /\ Shape(marked, z)
  BY <1>2, StaysLives DEF Gains, GoesOn, Lives
<1>5. Lives(marked, DoPeerClose(marked), z) BY <1>2, <1>4, DoPeerCloseLives
<1>6. Fits(DoPeerClose(marked), z) BY <1>4, PeerClosed DEF Gains
<1> QED BY <1>3, <1>4, <1>5, <1>6, LivesTrans, LivesSelf

\* A change of state alone, after the FIN was sent.
LEMMA TurnLives ==
  ASSUME NEW z \in 1..N, NEW s, Fits(s, z), Shape(s, z), s.state = "FIN_WAIT_1",
         NEW x \in {"FIN_WAIT_2", "CLOSING"}
  PROVE  Lives(s, [s EXCEPT !.state = x], z)
<1> DEFINE t == [s EXCEPT !.state = x]
<1>1. /\ t.window = s.window /\ t.highTx = s.highTx /\ t.out = s.out /\ t.open = s.open
      /\ t.retx = s.retx /\ t.state = x /\ s.highTx \in Nat
  BY DEF Fits, Loose
<1> HIDE DEF t
<1> QED BY <1>1 DEF Lives, Shape, Armed, t

LEMMA TimeWaitLives ==
  ASSUME NEW z \in 1..N, NEW s, Fits(s, z), Shape(s, z)
  PROVE  Lives(s, TimeWait(s), z)
<1> DEFINE t == TimeWait(s)
<1>1. Keeps(s, t) /\ t.open = s.open /\ t.state = "TIME_WAIT" /\ t.timeWaitEvent
  BY TimeWaitKeeps
<1>2. s.highTx \in Nat BY DEF Fits, Loose
<1> HIDE DEF t
<1>3. Shape(t, z) BY <1>1, KeepsShape DEF Shape
<1> QED BY <1>1, <1>2, <1>3 DEF Lives, Armed, Keeps, t

LEMMA WaitedLives ==
  ASSUME NEW z \in 1..N, NEW s, Fits(s, z), Calm(s), Sender(s, z), Shape(s, z), s.open,
         s.state \in {"FIN_WAIT_1", "FIN_WAIT_2", "CLOSE_WAIT"}, NEW m \in Cargo(z),
         m.flags \in {ACK, FINACK}, Short(s, m, z)
  PROVE  Lives(s, Waited(s, m), z)
<1> DEFINE r == ReceivedAck(s, m)
           w == [r EXCEPT !.state = "FIN_WAIT_2"]
<1>1. \/ m.flags = FINACK /\ Waited(s, m) = SetFinSequence(r, m.seq)
      \/ r.state = "FIN_WAIT_1" /\ Waited(s, m) = w
      \/ Waited(s, m) = r
  BY DEF Waited, Then
<1>2. "RST" \notin m.flags BY DEF ACK, FINACK
<1>3. Fits(r, z) /\ Lives(s, r, z)
  BY <1>2, ReceivedAckFits, ReceivedAckLives DEF Gains, Short, Closable
<1> HIDE DEF r
<1>4. m.seq \in Nat BY DEF Cargo
<1>5. Shape(r, z) BY <1>3 DEF Lives
<1>6. CASE Waited(s, m) = SetFinSequence(r, m.seq)
  <2>1. Lives(r, SetFinSequence(r, m.seq), z) BY <1>3, <1>4, <1>5, SetFinSequenceStays, StaysLives
  <2>2. Fits(SetFinSequence(r, m.seq), z) BY <1>3, <1>4, SetFinSequenceFits DEF Gains
  <2> QED BY <1>3, <1>6, <2>1, <2>2, LivesTrans
<1>7. CASE r.state = "FIN_WAIT_1" /\ Waited(s, m) = w
  <2>1. Lives(r, w, z) BY <1>3, <1>5, <1>7, TurnLives
  <2>2. Fits(w, z) BY <1>3, TurnFits DEF State
  <2> HIDE DEF w
  <2> QED BY <1>3, <1>7, <2>1, <2>2, LivesTrans
<1> QED BY <1>1, <1>3, <1>6, <1>7

LEMMA FinCompleteLives ==
  ASSUME NEW z \in 1..N, NEW r, Fits(r, z), Shape(r, z), NEW m
  PROVE  Lives(r, FinComplete(r, m), z)
<1> DEFINE c == [r EXCEPT !.state = "CLOSING"]
<1>1. \/ FinComplete(r, m) = r
      \/ r.state = "FIN_WAIT_1" /\ FinComplete(r, m) = SendEmptyPacket(c, ACK)
      \/ FinComplete(r, m) = SendEmptyPacket(TimeWait(r), ACK)
  BY DEF FinComplete
<1>2. ASSUME NEW x, Fits(x, z), Lives(r, x, z)
      PROVE  Lives(r, SendEmptyPacket(x, ACK), z)
  <2>1. Fits(SendEmptyPacket(x, ACK), z) /\ Lives(x, SendEmptyPacket(x, ACK), z)
    BY <1>2, SendEmptyPacketFits, SendEmptyPacketStays, StaysLives DEF Lives, Retains
  <2> QED BY <1>2, <2>1, LivesTrans
<1>3. r.state = "FIN_WAIT_1" => Fits(c, z) /\ Lives(r, c, z) BY TurnLives, TurnFits DEF State
<1>4. Fits(TimeWait(r), z) /\ Lives(r, TimeWait(r), z)
  BY TimeWaitLives, TimeWaitFits DEF Retains
<1> HIDE DEF c
<1> QED BY <1>1, <1>2, <1>3, <1>4, LivesSelf

LEMMA ProcessWaitLives ==
  ASSUME NEW z \in 1..N, NEW s, Fits(s, z), Calm(s), Sender(s, z), Shape(s, z), s.open,
         s.state \in {"FIN_WAIT_1", "FIN_WAIT_2", "CLOSE_WAIT"}, NEW m \in Cargo(z),
         Short(s, m, z)
  PROVE  Lives(s, ProcessWait(s, m), z)
<1> DEFINE w == Waited(s, m)
<1>1. Then(w, LAMBDA r : FinComplete(r, m)) = FinComplete(w, m) BY DEF Then
<1>2. ASSUME m.flags \in {ACK, FINACK} PROVE Lives(s, FinComplete(w, m), z)
  <2>1. Lives(s, w, z) /\ Fits(w, z)
    BY <1>2, WaitedLives, WaitedFits DEF Advances, Gains
  <2> HIDE DEF w
  <2>2. Lives(w, FinComplete(w, m), z) /\ Fits(FinComplete(w, m), z)
    BY <2>1, FinCompleteLives, FinCompleteFits DEF Lives, Advances, Gains
  <2> QED BY <2>1, <2>2, LivesTrans
<1>3. Lives(s, Refuse(s, m), z) BY RefuseStays, StaysLives
<1>4. Lives(s, s, z) BY LivesSelf
<1> QED BY <1>1, <1>2, <1>3, <1>4 DEF ProcessWait

LEMMA ProcessClosingLives ==
  ASSUME NEW z \in 1..N, NEW s, Fits(s, z), Shape(s, z), NEW m
  PROVE  Lives(s, ProcessClosing(s, m), z)
<1>1. Lives(s, TimeWait(s), z) BY TimeWaitLives
<1>2. Lives(s, CloseAndNotify(SendEmptyPacket(s, ACK)), z)
  <2>1. Fits(SendEmptyPacket(s, ACK), z) /\ Stays(s, SendEmptyPacket(s, ACK))
    BY SendEmptyPacketFits, SendEmptyPacketStays DEF Retains
  <2>2. Stays(s, CloseAndNotify(SendEmptyPacket(s, ACK)))
    BY <2>1, CloseAndNotifyKeeps, ClosedStays, StaysTrans
  <2> QED BY <2>2, StaysLives
<1>3. Lives(s, Refuse(s, m), z) /\ Lives(s, s, z) BY RefuseStays, StaysLives, LivesSelf
<1> QED BY <1>1, <1>2, <1>3 DEF ProcessClosing

\* Every segment, for a client past its SYN.
LEMMA HandledLives ==
  ASSUME NEW z \in 1..N, NEW s, Fits(s, z), Calm(s), Sender(s, z), Shape(s, z), s.open,
         s.state # "SYN_RCVD", NEW m \in Cargo(z), Short(s, m, z)
  PROVE  Lives(s, Handled(s, m), z)
<1>1. Lives(s, SendEmptyPacket(s, ACK), z) BY SendEmptyPacketStays, StaysLives
<1>2. Lives(s, s, z) /\ Lives(s, Refuse(s, m), z) BY LivesSelf, RefuseStays, StaysLives
<1>3. Lives(s, CloseAndNotify(s), z) BY CloseAndNotifyKeeps, ClosedStays, StaysLives
<1>4. s.state = "ESTABLISHED" => Lives(s, ProcessEstablished(s, m), z)
  <2> SUFFICES ASSUME s.state = "ESTABLISHED" PROVE Lives(s, ProcessEstablished(s, m), z)
    OBVIOUS
  <2>1. m.flags = FINACK => Lives(s, PeerClose(s, m), z)
    BY PeerCloseLives, FlagsType DEF Short
  <2>2. ~(m.ack > s.highTx) => Lives(s, ReceivedAck(s, m), z)
    <3>1. m.ack \in Nat /\ s.highTx \in Nat BY DEF Cargo, Fits, Loose
    <3>2. s.highTx <= z BY DEF Shape
    <3>3. ~(m.ack > s.highTx) => m.ack <= z BY <3>1, <3>2
    <3> QED BY <3>3, ReceivedAckLives DEF Short, Closable
  <2> QED BY <1>1, <1>2, <2>1, <2>2 DEF ProcessEstablished
<1>5. Lives(s, ProcessLastAck(s, m), z) BY <1>2, <1>3 DEF ProcessLastAck
<1>6. Lives(s, ProcessClosing(s, m), z) BY ProcessClosingLives
<1> QED BY <1>2, <1>4, <1>5, <1>6, ProcessWaitLives DEF Handled, ProcessInState, Calm, Short

\* The application writes the flow when the connection succeeds, and the event
\* that sends it is on its way.
LEMMA ProcessSynSentLives ==
  ASSUME NEW z \in 1..N, scenario.size = z, NEW s, Fits(s, z), Calling(s), Shape(s, z),
         s.out = <<>>, NEW m \in Cargo(z), m.flags # SYN
  PROVE  Lives(s, Handled(s, m), z)
<1> DEFINE n == m.seq + 1
           k == s.nextTx + 1
           up == [s EXCEPT !.state = "ESTABLISHED", !.retx = NoFlag, !.rxNext = n,
                           !.nextTx = k, !.highTx = k, !.head = k, !.txEnd = k]
           a == SendEmptyPacket(up, ACK)
           e == z + 1
           u == 1..z
           t == [a EXCEPT !.txEnd = e, !.unsent = u, !.closeOnEmpty = TRUE,
                          !.pendingEvent = TRUE, !.delAck = DelAckMax]
<1>1. Handled(s, m) = ProcessSynSent(s, m)
  BY DEF Handled, ProcessInState, OutOfRange, Calling
<1>2. n \in Nat /\ n > 0 /\ k = 1 BY DEF Cargo, Calling
<1>3. NoFlag \in Events BY DEF Events
<1>4. ProcessSynSent(s, m) \in {s, t, Refuse(s, m)}
  <2>1. SetHeadSequence([s EXCEPT !.state = "ESTABLISHED", !.retx = NoFlag,
                                  !.rxNext = m.seq + 1, !.nextTx = @ + 1,
                                  !.highTx = s.nextTx + 1], s.nextTx + 1) = up
    BY DEF SetHeadSequence, Fits, Loose
  <2> HIDE DEF up
  <2> QED BY <2>1 DEF ProcessSynSent
<1>5. Lives(s, t, z)
  <2> HIDE DEF n, k
  <2>1. up \in Loose(z)
    <3>1. ASSUME NEW v \in Loose(z), NEW st \in State, NEW f \in Events, NEW g \in Nat,
                 NEW b \in Nat
          PROVE  [v EXCEPT !.state = st, !.retx = f, !.rxNext = g, !.nextTx = b,
                           !.highTx = b, !.head = b, !.txEnd = b] \in Loose(z)
      BY ZenonT(60), <3>1 DEF Loose
    <3>2. s \in Loose(z) /\ "ESTABLISHED" \in State /\ k \in Nat BY <1>2 DEF Fits, State
    <3> QED BY <1>2, <1>3, <3>1, <3>2
  <2>2. /\ up.head = 1 /\ up.txEnd = 1 /\ up.highTx = 1 /\ up.read = 0 /\ up.rxNext = n
        /\ up.out = <<>> /\ up.state = "ESTABLISHED" /\ up.window = s.window
    BY <1>2 DEF Fits, Loose, Calling
  <2> HIDE DEF up
  <2>3. Fits(up, z) BY <1>2, <2>1, <2>2 DEF Fits, Clean
  <2>4. Fits(a, z) /\ Stays(up, a)
    BY <2>3, SendEmptyPacketFits, SendEmptyPacketStays DEF Retains
  <2> HIDE DEF a, u, e
  <2>5. /\ t.head = a.head /\ t.unsent = u /\ t.highTx = a.highTx /\ t.window = a.window
        /\ t.out = a.out /\ t.state = a.state /\ t.open = a.open /\ t.retx = a.retx
        /\ t.closeOnEmpty /\ t.pendingEvent
    BY <2>4 DEF Fits, Loose
  <2> HIDE DEF t
  <2>6. /\ t.head = 1 /\ t.highTx = 1 /\ t.window = s.window
        /\ t.open => t.state = "ESTABLISHED"
        /\ \A i \in DOMAIN t.out : t.out[i].len # 1
    BY <2>2, <2>4, <2>5 DEF Stays, Keeps
  <2>7. Shape(t, z) BY <2>5, <2>6 DEF Shape
  <2>8. Fresh(t, z) BY <2>5, <2>6 DEF Fresh, u
  <2>9. s.highTx = 0 BY DEF Calling, Shape
  <2> QED BY <2>6, <2>7, <2>8, <2>9 DEF Lives, Armed
<1>6. Lives(s, Refuse(s, m), z) BY RefuseStays, StaysLives
<1> QED BY <1>1, <1>4, <1>5, <1>6, LivesSelf

LEMMA NoEndPointsKeeps ==
  ASSUME NEW z \in 1..N, NEW s, Fits(s, z), NEW m
  PROVE  Keeps(s, NoEndPointsFound(s, m)) /\ NoEndPointsFound(s, m).open = s.open
<1> DEFINE reset == IF "ACK" \in m.flags
                    THEN [flags |-> RST, seq |-> m.ack, ack |-> 0, len |-> 0]
                    ELSE [flags |-> RST \cup ACK, seq |-> 0, ack |-> m.seq + 1, len |-> 0]
           o == <<reset>>
           t == [s EXCEPT !.out = o]
<1>1. NoEndPointsFound(s, m) = IF "RST" \in m.flags THEN s ELSE t
  BY DEF NoEndPointsFound
<1>2. reset.len = 0 OBVIOUS
<1> HIDE DEF reset
<1>3. \A k \in DOMAIN o : o[k].len = 0 BY <1>2
<1> HIDE DEF o
<1>4. Keeps(s, t) /\ t.open = s.open BY <1>3 DEF Fits, Loose, Keeps
<1> HIDE DEF t
<1>5. Keeps(s, s) BY StaysSelf DEF Stays
<1> QED BY <1>1, <1>4, <1>5

\* Every segment, for the client.
LEMMA ClientTakenLives ==
  ASSUME NEW z \in 1..N, scenario.size = z, NEW s, Fits(s, z), s.out = <<>>, Sender(s, z),
         Shape(s, z), Calling(s) \/ (Calm(s) /\ s.state # "SYN_RCVD"),
         NEW m \in Cargo(z), m.flags # SYN, s.open => Short(s, m, z)
  PROVE  Lives(s, Taken("client", s, m), z)
<1>1. Taken("client", s, m) = IF s.open THEN Handled(s, m) ELSE NoEndPointsFound(s, m)
  BY DEF Taken
<1>2. ~s.open => Lives(s, NoEndPointsFound(s, m), z)
  BY NoEndPointsKeeps, ClosedStays, StaysLives
<1>3. s.open => Lives(s, Handled(s, m), z) BY ProcessSynSentLives, HandledLives
<1> QED BY <1>1, <1>2, <1>3

LEMMA ClientReceiveLives ==
  ASSUME NEW z \in 1..N, scenario.size = z, NEW s, Fits(s, z), s.out = <<>>, Sender(s, z),
         Shape(s, z), Calling(s) \/ (Calm(s) /\ s.state # "SYN_RCVD"),
         NEW m \in Cargo(z), m.flags # SYN, s.open => Short(s, m, z)
  PROVE  Lives(s, Receive("client", s, m), z)
<1>1. s \in Loose(z) BY DEF Fits
<1>2. PICK r \in Windowed(s) : Receive("client", s, m) = Taken("client", r, m)
  BY <1>1, ReceiveTaken
<1>3. /\ Fits(r, z) /\ r.out = <<>> /\ Sender(r, z)
      /\ Calling(r) \/ (Calm(r) /\ r.state # "SYN_RCVD")
      /\ r.open => Short(r, m, z)
  BY <1>1, <1>2, WindowedFacts, WindowedFits DEF Sender, Whole, Short
<1>4. Shape(r, z)
  <2>1. N >= 1 BY TcpConnectionAssumption
  <2> QED BY <1>1, <1>2, <2>1, WindowedFacts DEF Shape
<1>5. Lives(r, Taken("client", r, m), z) BY <1>3, <1>4, ClientTakenLives
<1> QED BY <1>1, <1>2, <1>5, WindowedFacts DEF Lives, Armed, Fresh

\* The retransmission timer sets itself again, or gives up, or was not needed.
LEMMA ReTxTimeoutLives ==
  ASSUME NEW z \in 1..N, NEW s, Fits(s, z), Sender(s, z), Shape(s, z), s.state # "SYN_SENT"
  PROVE  Lives(s, ReTxTimeout(s), z) /\ Armed(ReTxTimeout(s), z)
<1> DEFINE w == s.told \cup {"error"}
           u == s.head..(s.txEnd - 1)
           one == 1
           d == s.dataRetr - 1
           v == [s EXCEPT !.told = w]
           backOff == [s EXCEPT !.dataRetr = @ - 1, !.unsent = s.head..(s.txEnd - 1),
                                !.window = 1, !.recover = s.highTx]
<1>1. Lives(s, DeallocateEndPoint(v), z) /\ ~DeallocateEndPoint(v).open
  <2>1. w \in Calls BY DEF Fits, Loose, Calls
  <2> HIDE DEF w
  <2>2. Fits(v, z) /\ Keeps(s, v) BY <2>1 DEF Fits, Loose, Clean, Keeps
  <2> HIDE DEF v
  <2>3. Keeps(s, DeallocateEndPoint(v)) /\ ~DeallocateEndPoint(v).open
    BY <2>2, DeallocateKeeps, KeepsTrans
  <2> QED BY <2>3, ClosedStays, StaysLives
<1>2. ASSUME TxSize(s) # 0
      PROVE  /\ Lives(s, SendPendingData(backOff), z)
             /\ SendPendingData(backOff).open => SendPendingData(backOff).retx # NoFlag
  <2>1. u \in Pieces(z) /\ one \in Nat /\ d \in Int /\ s.highTx \in Nat /\ s.head \in Nat
        /\ s.txEnd \in Nat /\ one >= 1
    BY DEF Fits, Loose, Pieces
  <2>2. backOff = [s EXCEPT !.dataRetr = d, !.unsent = u, !.window = one,
                            !.recover = s.highTx]
    OBVIOUS
  <2>3. \A q \in u : q >= s.head BY <2>1
  <2>4. u # {}
    <3>1. s.txEnd - s.head > 0 BY <1>2, <2>1 DEF TxSize, Larger
    <3>2. s.head \in u BY <2>1, <3>1
    <3> QED BY <3>2
  <2> HIDE DEF one, d, backOff
  <2>5. backOff \in Loose(z)
    <3> HIDE DEF u
    <3> QED BY <2>1, <2>2 DEF Fits, Loose
  <2>6. /\ backOff.head = s.head /\ backOff.txEnd = s.txEnd /\ backOff.unsent = u
        /\ backOff.nextTx = s.nextTx /\ backOff.highTx = s.highTx
        /\ backOff.shutdownSend = s.shutdownSend /\ backOff.fin = s.fin
        /\ backOff.open = s.open /\ backOff.retx = s.retx /\ backOff.out = s.out
        /\ backOff.state = s.state /\ backOff.window = one /\ backOff.recover = s.highTx
        /\ backOff.closeOnEmpty = s.closeOnEmpty /\ backOff.timeWaitEvent = s.timeWaitEvent
        /\ backOff.read = s.read /\ backOff.rxNext = s.rxNext
    <3> HIDE DEF u
    <3> QED BY <2>2 DEF Fits, Loose
  <2>7. Fits(backOff, z) BY <2>5, <2>6 DEF Fits, Clean
  <2>8. s.open => Whole(backOff, z) BY <2>3, <2>6 DEF Sender, Whole
  <2>9. Sender(backOff, z) BY <2>6, <2>8 DEF Sender
  <2>10. Shape(backOff, z) BY <2>1, <2>6 DEF Shape
  <2>11. Ready(backOff)
    <3>1. s.state = "FIN_WAIT_1" => s.highTx # 0 BY <2>1 DEF Sender
    <3>2. backOff.head..(backOff.txEnd - 1) \subseteq backOff.unsent BY <2>6
    <3> HIDE DEF u
    <3> QED BY <2>1, <2>4, <2>6, <3>1, <3>2 DEF Ready
  <2>12. TxSize(backOff) # 0 BY <1>2, <2>6 DEF TxSize
  <2>13. backOff.state # "SYN_SENT" BY <2>6
  <2> DEFINE t == SendPendingData(backOff)
  <2>14. Lives(backOff, t, z) /\ (backOff.open => t.retx # NoFlag)
    BY <2>7, <2>9, <2>10, <2>11, <2>12, <2>13, SendPendingDataLives
  <2>15. ~backOff.open => t = backOff BY DEF SendPendingData
  <2> HIDE DEF t
  <2>16. t.open => t.retx # NoFlag BY <2>14, <2>15
  <2> QED BY <2>6, <2>14, <2>16 DEF Lives, Armed, t
<1>3. Lives(s, s, z) BY LivesSelf
<1>4. CASE s.state \in {"CLOSED", "TIME_WAIT"}
  <2>1. Armed(s, z) BY <1>4 DEF Armed, Shape
  <2>2. ReTxTimeout(s) = s BY <1>4 DEF ReTxTimeout
  <2> QED BY <1>3, <2>1, <2>2
<1>5. CASE s.state \notin {"CLOSED", "TIME_WAIT"} /\ TxSize(s) = 0
  <2>1. s.open => s.head > z BY <1>5 DEF Sender, Whole, TxSize, Larger, Fits, Loose
  <2>2. s.state \in {"FIN_WAIT_1", "CLOSING"} => ReTxTimeout(s) = SendEmptyPacket(s, FIN)
    BY <1>5 DEF ReTxTimeout
  <2>3. s.state \notin {"FIN_WAIT_1", "CLOSING"} => ReTxTimeout(s) = s BY <1>5 DEF ReTxTimeout
  <2>4. /\ Lives(s, SendEmptyPacket(s, FIN), z)
        /\ SendEmptyPacket(s, FIN).open => SendEmptyPacket(s, FIN).retx # NoFlag
    <3>1. FIN \notin {ACK, RST} BY DEF FIN, ACK, RST
    <3> QED BY <3>1, SendEmptyPacketStays, StaysLives
  <2>5. ASSUME s.state \notin {"FIN_WAIT_1", "CLOSING"} PROVE Armed(s, z)
    <3>1. s.open => s.state \notin {"ESTABLISHED", "CLOSE_WAIT", "LAST_ACK"}
      BY <2>1 DEF Shape, Fits, Loose
    <3>2. s.state \in State BY DEF Fits, Loose
    <3> QED BY <1>5, <2>5, <3>1, <3>2 DEF Armed, Shape, State
  <2> QED BY <1>3, <2>2, <2>3, <2>4, <2>5 DEF Armed
<1>6. CASE s.state \notin {"CLOSED", "TIME_WAIT"} /\ TxSize(s) # 0
  <2>1. ReTxTimeout(s) \in {SendPendingData(backOff), DeallocateEndPoint(v)}
    BY <1>6 DEF ReTxTimeout
  <2> HIDE DEF backOff, v
  <2> QED BY <1>1, <1>2, <1>6, <2>1 DEF Armed
<1> QED BY <1>4, <1>5, <1>6

LEMMA FireRetxLives ==
  ASSUME NEW z \in 1..N, NEW s, Fits(s, z), Sender(s, z), Shape(s, z), Calm(s),
         s.retx # NoFlag
  PROVE  Lives(s, FireRetx(s), z)
<1> DEFINE fired == [s EXCEPT !.retx = NoFlag]
           t == FireRetx(s)
<1>1. NoFlag \in Events /\ NoFlag # FINACK BY DEF Events, NoFlag, FINACK
<1>2. /\ Fits(fired, z) /\ Stills(s, fired) /\ Keeps(s, fired) /\ fired.state = s.state
      /\ fired.open = s.open /\ fired.closeOnEmpty = s.closeOnEmpty
      /\ fired.timeWaitEvent = s.timeWaitEvent
  BY <1>1 DEF Fits, Loose, Clean, Stills, Keeps
<1>3. s.retx = RTO \/ s.retx \in {SYNACK, FINACK}
  BY DEF Fits, Loose, Events, Calm
<1>4. t = IF s.retx = RTO THEN ReTxTimeout(fired) ELSE SendEmptyPacket(fired, s.retx)
  BY DEF FireRetx
<1> HIDE DEF fired, t
<1>5. Sender(fired, z) /\ fired.state # "SYN_SENT" BY <1>2, StillsSender DEF Calm
<1>6. Shape(fired, z) BY <1>2, KeepsShape DEF Shape, Keeps
<1>7. Lives(fired, t, z) /\ Armed(t, z)
  <2>1. SYNACK \notin {ACK, RST} /\ FINACK \notin {ACK, RST} BY DEF SYNACK, FINACK, ACK, RST
  <2>2. ASSUME NEW f \in {SYNACK, FINACK}
        PROVE  Lives(fired, SendEmptyPacket(fired, f), z) /\ Armed(SendEmptyPacket(fired, f), z)
    BY <1>2, <1>6, <2>1, SendEmptyPacketStays, StaysLives DEF Armed
  <2> QED BY <1>2, <1>3, <1>4, <1>5, <1>6, <2>2, ReTxTimeoutLives
<1> QED BY <1>2, <1>7 DEF Lives, Keeps, t

LEMMA CallAgainLives ==
  ASSUME NEW z \in 1..N, NEW s, Fits(s, z), Calling(s), Shape(s, z), s.retx # NoFlag
  PROVE  Lives(s, FireRetx(s), z)
<1> DEFINE f == [s EXCEPT !.retx = NoFlag]
           t == SendEmptyPacket(f, SYN)
<1>1. NoFlag \in Events /\ SYN # RTO /\ SYN \notin {ACK, RST}
  BY FlagsType DEF Events, NoFlag, SYN, RTO, ACK, RST
<1>2. FireRetx(s) = t BY <1>1 DEF FireRetx, Calling
<1>3. /\ Fits(f, z) /\ Keeps(s, f) /\ f.state = s.state /\ f.open = s.open
      /\ f.closeOnEmpty = s.closeOnEmpty /\ f.timeWaitEvent = s.timeWaitEvent
  BY <1>1 DEF Fits, Loose, Clean, Keeps
<1> HIDE DEF f
<1>4. Shape(f, z) BY <1>3, KeepsShape DEF Shape, Keeps
<1>5. Stays(f, t) /\ (t.open => t.retx # NoFlag) BY <1>1, <1>3, SendEmptyPacketStays
<1>6. Lives(f, t, z) BY <1>3, <1>4, <1>5, StaysLives
<1> HIDE DEF t
<1> QED BY <1>2, <1>3, <1>5, <1>6 DEF Lives, Keeps, Armed

LEMMA DelAckTimeoutStays ==
  ASSUME NEW z \in 1..N, NEW s, Fits(s, z)
  PROVE  Stays(s, DelAckTimeout(s))
<1> DEFINE none == 0
           t == [s EXCEPT !.delAck = none, !.delAckEvent = FALSE]
<1>1. Fits(t, z) /\ Stays(s, t)
  <2>1. none \in Int OBVIOUS
  <2> HIDE DEF none
  <2> QED BY <2>1 DEF Fits, Loose, Clean, Stays, Keeps
<1>2. DelAckTimeout(s) = SendEmptyPacket(t, ACK) BY DEF DelAckTimeout
<1> HIDE DEF t
<1> QED BY <1>1, <1>2, SendEmptyPacketStays, StaysTrans

LEMMA LastAckTimeoutStays ==
  ASSUME NEW z \in 1..N, NEW s, Fits(s, z)
  PROVE  Stays(s, LastAckTimeout(s))
<1> DEFINE t == [s EXCEPT !.lastAckEvent = FALSE]
<1>1. Fits(t, z) /\ Stays(s, t) BY DEF Fits, Loose, Clean, Stays, Keeps
<1>2. LastAckTimeout(s) = IF s.state = "LAST_ACK" THEN CloseAndNotify(t) ELSE t
  BY DEF LastAckTimeout
<1> HIDE DEF t
<1>3. Stays(t, CloseAndNotify(t)) BY <1>1, CloseAndNotifyKeeps, ClosedStays
<1> QED BY <1>1, <1>2, <1>3, StaysTrans

\* The event the application's write left behind sends data.
LEMMA PendingLives ==
  ASSUME NEW z \in 1..N, NEW s, Fits(s, z), Sender(s, z), Shape(s, z), s.state # "SYN_SENT"
  PROVE  Lives(s, SendPendingData([s EXCEPT !.pendingEvent = FALSE]), z)
<1> DEFINE p == [s EXCEPT !.pendingEvent = FALSE]
           t == SendPendingData(p)
<1>1. /\ Fits(p, z) /\ Stills(s, p) /\ Keeps(s, p) /\ p.state = s.state /\ p.open = s.open
      /\ p.closeOnEmpty = s.closeOnEmpty /\ p.timeWaitEvent = s.timeWaitEvent
      /\ p.retx = s.retx
  BY DEF Fits, Loose, Clean, Stills, Keeps
<1> HIDE DEF p
<1>2. Sender(p, z) /\ p.state # "SYN_SENT" BY <1>1, StillsSender
<1>3. Shape(p, z) BY <1>1, KeepsShape DEF Shape, Keeps
<1>4. Lives(p, t, z) /\ (p.open /\ TxSize(p) # 0 /\ Ready(p) => t.retx # NoFlag)
  BY <1>1, <1>2, <1>3, SendPendingDataLives
<1>5. ASSUME s.open, s.state \in {"ESTABLISHED", "CLOSE_WAIT"}, Fresh(s, z)
      PROVE  TxSize(p) # 0 /\ Ready(p)
  <2>1. p.head = 1 /\ p.unsent = 1..z /\ p.txEnd = z + 1
    <3>1. s.txEnd = z + 1 BY <1>5 DEF Sender, Whole
    <3> QED BY <1>1, <1>5, <3>1 DEF Keeps, Fresh
  <2>2. p.window >= 1 BY <1>3 DEF Shape
  <2>3. p.head..(p.txEnd - 1) \subseteq p.unsent /\ p.unsent # {} BY <2>1
  <2>4. TxSize(p) # 0 BY <2>1 DEF TxSize, Larger
  <2> QED BY <1>1, <1>5, <2>2, <2>3, <2>4 DEF Ready
<1> HIDE DEF t
<1>6. Armed(s, z) /\ ~Armed(p, z) => Armed(t, z)
  BY <1>1, <1>4, <1>5 DEF Armed
<1>7. Shape(t, z) /\ t.highTx >= s.highTx BY <1>1, <1>4 DEF Lives, Keeps
<1> QED BY <1>4, <1>6, <1>7 DEF Lives, t, p

-----------------------------------------------------------------------------
\* What the sink reads it was sent, and it sends no data.

Mute(s) == s.txEnd <= s.head /\ \A k \in DOMAIN s.out : s.out[k].len # 1

\* The last segment of the flow has come.
HasLast(s, z) == z \in s.early \/ s.read = z

Hears(s, t, z, m) ==
  /\ Mute(s) => Mute(t)
  /\ HasLast(t, z) => HasLast(s, z) \/ (m.len = 1 /\ m.seq = z)

LEMMA HearsTrans ==
  ASSUME NEW z, NEW m, NEW s, NEW t, NEW u, Hears(s, t, z, m), Hears(t, u, z, m)
  PROVE  Hears(s, u, z, m)
BY DEF Hears

LEMMA KeepsMute == ASSUME NEW s, NEW t, Mute(s), Keeps(s, t) PROVE Mute(t)
<1>1. ASSUME NEW k \in DOMAIN t.out, t.out[k].len = 1 PROVE FALSE
  <2>1. PICK j \in DOMAIN s.out : s.out[j] = t.out[k] BY <1>1 DEF Keeps
  <2> QED BY <1>1, <2>1 DEF Mute
<1> QED BY <1>1 DEF Mute, Keeps

LEMMA KeepsHears ==
  ASSUME NEW z, NEW m, NEW s, NEW t, Keeps(s, t)
  PROVE  Hears(s, t, z, m)
BY KeepsMute DEF Hears, HasLast, Keeps

LEMMA HearsSelf == ASSUME NEW z, NEW m, NEW s PROVE Hears(s, s, z, m)
BY DEF Hears

LEMMA TurnKeeps ==
  ASSUME NEW z \in 1..N, NEW s, Fits(s, z), NEW x
  PROVE  Keeps(s, [s EXCEPT !.state = x])
BY DEF Fits, Loose, Keeps

LEMMA SendEmptyPacketKeeps ==
  ASSUME NEW z \in 1..N, NEW s, Fits(s, z), NEW f \in {ACK, RST, SYN, SYNACK, FIN, FINACK}
  PROVE  Keeps(s, SendEmptyPacket(s, f))
BY SendEmptyPacketStays DEF Stays

LEMMA CloseKeeps ==
  ASSUME NEW z \in 1..N, NEW s, Fits(s, z)
  PROVE  Keeps(s, Close(s))
<1>1. Fits(SendRST(s), z) /\ Keeps(s, SendRST(s))
  BY SendRSTFits, SendRSTStays DEF Retains, Stays
<1>2. Keeps(s, [s EXCEPT !.closeOnEmpty = TRUE]) BY DEF Keeps, Fits, Loose
<1>3. ASSUME NEW f \in {FIN, FINACK}, NEW x
      PROVE  Keeps(s, [SendEmptyPacket(s, f) EXCEPT !.state = x])
  <2> DEFINE t == SendEmptyPacket(s, f)
  <2>1. Fits(t, z) /\ Keeps(s, t) BY SendEmptyPacketFits, SendEmptyPacketKeeps DEF Retains
  <2> HIDE DEF t
  <2>2. Keeps(t, [t EXCEPT !.state = x]) BY <2>1, TurnKeeps
  <2> QED BY <2>1, <2>2, KeepsTrans DEF t
<1>4. Keeps(s, CloseAndNotify(SendRST(s))) BY <1>1, CloseAndNotifyKeeps, KeepsTrans
<1>5. Keeps(s, CloseAndNotify(s)) /\ Keeps(s, s) BY CloseAndNotifyKeeps, StaysSelf DEF Stays
<1>6. Keeps(s, DoClose(s)) BY <1>3, <1>4, <1>5 DEF DoClose
<1> QED BY <1>1, <1>2, <1>6 DEF Close

LEMMA DoPeerCloseKeeps ==
  ASSUME NEW z \in 1..N, NEW s, Fits(s, z)
  PROVE  Keeps(s, DoPeerClose(s))
<1> DEFINE x == [s EXCEPT !.state = "CLOSE_WAIT"]
           w == x.told \cup {"normal"}
           waits == [x EXCEPT !.told = w]
           answer == IF s.shutdownSend THEN Close(waits) ELSE SendEmptyPacket(waits, ACK)
           late == answer.lastAckEvent \/ answer.state = "LAST_ACK"
           t == [answer EXCEPT !.lastAckEvent = late]
<1>1. Fits(x, z) /\ Keeps(s, x) BY TurnFits, TurnKeeps DEF State
<1>2. w \in Calls BY <1>1 DEF Fits, Loose, Calls
<1>3. DoPeerClose(s) = t
  <2>1. [s EXCEPT !.state = "CLOSE_WAIT", !.told = @ \cup {"normal"}] = waits
    BY DEF Fits, Loose
  <2> HIDE DEF waits
  <2> QED BY <2>1 DEF DoPeerClose
<1> HIDE DEF x, w
<1>4. Fits(waits, z) /\ Keeps(x, waits) BY <1>1, <1>2 DEF Fits, Loose, Clean, Keeps
<1> HIDE DEF waits
<1>5. Fits(answer, z) /\ Keeps(waits, answer)
  <2>1. Fits(Close(waits), z) /\ Keeps(waits, Close(waits))
    BY <1>4, CloseFits, CloseKeeps DEF Retains
  <2>2. Fits(SendEmptyPacket(waits, ACK), z) /\ Keeps(waits, SendEmptyPacket(waits, ACK))
    BY <1>4, SendEmptyPacketFits, SendEmptyPacketKeeps DEF Retains
  <2> QED BY <2>1, <2>2
<1> HIDE DEF answer, late
<1>6. Keeps(answer, t) BY <1>5 DEF Fits, Loose, Keeps
<1> HIDE DEF t
<1> QED BY <1>1, <1>3, <1>4, <1>5, <1>6, KeepsTrans

\* Nothing to send.
LEMMA MuteSends ==
  ASSUME NEW z \in 1..N, NEW s, Fits(s, z), Mute(s)
  PROVE  TxSize(s) = 0 /\ SendPendingData(s) = s
<1>1. s.txEnd <= s.head /\ s.txEnd \in Nat /\ s.head \in Nat BY DEF Mute, Fits, Loose
<1>2. TxSize(s) = 0 BY <1>1 DEF TxSize, Larger
<1> QED BY <1>2 DEF SendPendingData

LEMMA SendPendingDataHears ==
  ASSUME NEW z \in 1..N, NEW s, Fits(s, z), NEW m
  PROVE  Hears(s, SendPendingData(s), z, m)
<1>1. Retains(s, SendPendingData(s), z) BY SendPendingDataFits
<1> QED BY <1>1, MuteSends DEF Hears, HasLast, Retains, Kept

LEMMA AckedHears ==
  ASSUME NEW z \in 1..N, NEW s, Fits(s, z), NEW a \in Nat, NEW m
  PROVE  Hears(s, ProcessAck(DiscardUpTo(s, a), a, s.head), z, m)
<1> DEFINE h == Larger(s.head, a)
           u == {q \in s.unsent : q >= a}
           d == DiscardUpTo(s, a)
           t == ProcessAck(d, a, s.head)
<1>1. h >= s.head /\ s.head \in Nat /\ s.txEnd \in Nat /\ h \in Nat
  BY DEF Larger, Fits, Loose
<1>2. Fits(d, z) BY DiscardUpToFits DEF Retains
<1>3. /\ d.head = h /\ d.txEnd = s.txEnd /\ d.out = s.out /\ d.early = s.early
      /\ d.read = s.read
  BY DEF DiscardUpTo, Fits, Loose
<1> HIDE DEF d, h
<1>4. Hears(s, d, z, m) BY <1>1, <1>3 DEF Hears, HasLast, Mute
<1>5. t.head = d.head /\ t.txEnd = d.txEnd /\ t.out = d.out /\ t.early = d.early
      /\ t.read = d.read
  <2> DEFINE restarted == IF d.state = "SYN_RCVD" THEN d.retx ELSE RTO
             idle == TxSize(d) = 0 /\ d.state \notin {"FIN_WAIT_1", "CLOSING"}
             n == Larger(d.nextTx, a)
             r == IF idle THEN NoFlag ELSE restarted
             v == IF a < d.recover THEN d.recover ELSE 0
             x == [d EXCEPT !.dataRetr = DataRetries, !.nextTx = n, !.retx = r,
                            !.window = N, !.recover = v]
             y == [d EXCEPT !.nextTx = a]
  <2>1. t \in {d, x, y} BY DEF ProcessAck, NewAck
  <2> HIDE DEF n, r, v, t
  <2>2. x.head = d.head /\ x.txEnd = d.txEnd /\ x.out = d.out /\ x.early = d.early
        /\ x.read = d.read
    BY <1>2 DEF Fits, Loose
  <2>3. y.head = d.head /\ y.txEnd = d.txEnd /\ y.out = d.out /\ y.early = d.early
        /\ y.read = d.read
    BY <1>2 DEF Fits, Loose
  <2> HIDE DEF x, y
  <2> QED BY <2>1, <2>2, <2>3
<1> HIDE DEF t
<1>6. Hears(d, t, z, m) BY <1>5 DEF Hears, HasLast, Mute
<1> QED BY <1>4, <1>6, HearsTrans DEF t, d

\* The last segment is read when it has come.
LEMMA BufferedHears ==
  ASSUME NEW z \in 1..N, NEW s, Fits(s, z), s.rxNext >= 1, NEW m \in Cargo(z),
         ~NothingToBuffer(s, m)
  PROVE  Hears(s, Buffered(s, m), z, m)
<1> DEFINE have == s.early \cup {m.seq}
           next == FirstMissing(s, m)
           e == {q \in have : q > next}
           x == IF next = s.fin THEN next + 1 ELSE next
           r == s.read + (next - s.rxNext)
           t == [s EXCEPT !.early = e, !.rxNext = x, !.read = r]
<1>1. Buffered(s, m) = t BY DEF Buffered, FirstMissing
<1>2. m.seq \in 1..z /\ m.len = 1 /\ s.rxNext <= m.seq /\ s.rxNext \in Nat /\ s.read \in 0..z
  BY DEF Fits, Loose, Pieces, Upto, NothingToBuffer, Cargo
<1>3. next \in Nat /\ s.rxNext <= next /\ next <= z + 1
      /\ \A q \in Nat : s.rxNext <= q /\ q < next => q \in have
  BY NextFact
<1>4. s.read = 0 \/ s.read < s.rxNext BY DEF Fits
<1> HIDE DEF have, next
<1>5. r = z => z \in have
  <2> SUFFICES ASSUME r = z PROVE z \in have OBVIOUS
  <2>1. next = z + 1 BY <1>2, <1>3, <1>4
  <2> QED BY <1>2, <1>3, <2>1
<1>6. z \in e => z \in have OBVIOUS
<1> HIDE DEF e, x, r
<1>7. /\ t.read = r /\ t.early = e /\ t.head = s.head /\ t.txEnd = s.txEnd /\ t.out = s.out
  BY DEF Fits, Loose
<1> HIDE DEF t
<1>8. z \in have => z \in s.early \/ m.seq = z BY DEF have
<1> QED BY <1>1, <1>2, <1>5, <1>6, <1>7, <1>8 DEF Hears, HasLast, Mute

LEMMA ReceivedDataHears ==
  ASSUME NEW z \in 1..N, NEW s, Fits(s, z), s.rxNext >= 1, NEW m \in Cargo(z), m.len > 0
  PROVE  Hears(s, ReceivedData(s, m), z, m)
<1>1. CASE NothingToBuffer(s, m)
  <2>1. ReceivedData(s, m) = SendEmptyPacket(s, ACK) BY <1>1 DEF ReceivedData
  <2> QED BY <2>1, SendEmptyPacketKeeps, KeepsHears
<1>2. CASE ~NothingToBuffer(s, m)
  <2> DEFINE r == Buffered(s, m)
             d == r.delAck + 1
             u == [r EXCEPT !.delAck = @ + 1, !.delAckEvent = TRUE]
  <2>1. Fits(r, z) BY <1>2, BufferedFits DEF Gains
  <2>2. Hears(s, r, z, m) BY <1>2, BufferedHears
  <2>3. ReceivedData(s, m) \in {u, SendEmptyPacket(r, ACK), DoPeerClose(r)}
    BY <1>2 DEF ReceivedData
  <2> HIDE DEF r
  <2>4. Keeps(r, u)
    <3>1. d \in Int BY <2>1 DEF Fits, Loose
    <3>2. u = [r EXCEPT !.delAck = d, !.delAckEvent = TRUE] OBVIOUS
    <3> HIDE DEF d, u
    <3> QED BY <2>1, <3>1, <3>2 DEF Fits, Loose, Keeps
  <2> HIDE DEF u
  <2>5. Keeps(r, SendEmptyPacket(r, ACK)) /\ Keeps(r, DoPeerClose(r))
    BY <2>1, SendEmptyPacketKeeps, DoPeerCloseKeeps
  <2> QED BY <2>2, <2>3, <2>4, <2>5, KeepsHears, HearsTrans
<1> QED BY <1>1, <1>2

LEMMA ReceivedAckHears ==
  ASSUME NEW z \in 1..N, NEW s, Fits(s, z), s.rxNext >= 1, NEW m \in Cargo(z)
  PROVE  Hears(s, ReceivedAck(s, m), z, m)
<1> DEFINE d == DiscardUpTo(s, m.ack)
           acked == ProcessAck(d, m.ack, s.head)
           filled == IF m.len > 0 THEN ReceivedData(acked, m) ELSE acked
<1>1. m.ack \in Nat BY DEF Cargo
<1>2. Retains(s, acked, z)
  <2>1. Retains(s, d, z) BY <1>1, DiscardUpToFits
  <2> HIDE DEF d
  <2>2. Retains(d, acked, z) BY <1>1, <2>1, ProcessAckFits DEF Retains
  <2> HIDE DEF acked
  <2> QED BY <2>1, <2>2, RetainsTrans
<1>3. Hears(s, acked, z, m) BY <1>1, AckedHears
<1>4. ReceivedAck(s, m) = SendPendingData(filled) BY ReceivedAckIs
<1> HIDE DEF d, acked
<1>5. Fits(acked, z) /\ acked.rxNext >= 1 BY <1>2 DEF Retains, Kept
<1>6. Hears(s, filled, z, m) /\ Fits(filled, z)
  <2>1. CASE m.len > 0
    <3>1. filled = ReceivedData(acked, m) BY <2>1
    <3> HIDE DEF filled
    <3>2. Gains(acked, filled, z) BY <1>5, <2>1, <3>1, ReceivedDataFits
    <3>3. Hears(acked, filled, z, m) BY <1>5, <2>1, <3>1, ReceivedDataHears
    <3> QED BY <1>3, <3>2, <3>3, HearsTrans DEF Gains
  <2>2. CASE ~(m.len > 0) BY <1>3, <1>5, <2>2
  <2> QED BY <2>1, <2>2
<1> HIDE DEF filled
<1> QED BY <1>4, <1>6, SendPendingDataHears, HearsTrans

LEMMA PeerCloseHears ==
  ASSUME NEW z \in 1..N, NEW s, Fits(s, z), s.rxNext >= 1, NEW m \in Cargo(z)
  PROVE  Hears(s, PeerClose(s, m), z, m)
<1> DEFINE marked == SetFinSequence(s, m.seq + m.len)
           filled == IF m.len > 0 THEN ReceivedData(marked, m) ELSE marked
           turned == [filled EXCEPT !.state = "CLOSING"]
<1>1. PeerClose(s, m) \in {s, filled, turned, DoPeerClose(filled)} BY DEF PeerClose
<1>2. m.seq + m.len \in Nat BY DEF Cargo
<1>3. Gains(s, marked, z) /\ Keeps(s, marked)
  BY <1>2, SetFinSequenceFits, SetFinSequenceStays DEF Stays
<1> HIDE DEF marked
<1>4. Fits(marked, z) /\ marked.rxNext >= 1 BY <1>3 DEF Gains, Fits, Loose
<1>5. Hears(s, marked, z, m) BY <1>3, KeepsHears
<1>6. Hears(s, filled, z, m) /\ Fits(filled, z)
  <2>1. CASE m.len > 0
    <3>1. filled = ReceivedData(marked, m) BY <2>1
    <3> HIDE DEF filled
    <3>2. Gains(marked, filled, z) BY <1>4, <2>1, <3>1, ReceivedDataFits
    <3>3. Hears(marked, filled, z, m) BY <1>4, <2>1, <3>1, ReceivedDataHears
    <3> QED BY <1>5, <3>2, <3>3, HearsTrans DEF Gains
  <2>2. CASE ~(m.len > 0) BY <1>4, <1>5, <2>2
  <2> QED BY <2>1, <2>2
<1> HIDE DEF filled
<1>7. Keeps(filled, turned) /\ Keeps(filled, DoPeerClose(filled))
  BY <1>6, TurnKeeps, DoPeerCloseKeeps
<1> HIDE DEF turned
<1> QED BY <1>1, <1>6, <1>7, KeepsHears, HearsTrans, HearsSelf

LEMMA ProcessWaitHears ==
  ASSUME NEW z \in 1..N, NEW s, Fits(s, z), s.rxNext >= 1, NEW m \in Cargo(z)
  PROVE  Hears(s, ProcessWait(s, m), z, m)
<1> DEFINE r == ReceivedAck(s, m)
           w == Waited(s, m)
           turned == [r EXCEPT !.state = "FIN_WAIT_2"]
<1>1. w \in {r, SetFinSequence(r, m.seq), turned} BY DEF Waited, Then
<1>2. Fits(r, z) BY ReceivedAckFits DEF Gains
<1>3. Hears(s, r, z, m) BY ReceivedAckHears
<1>4. m.seq \in Nat BY DEF Cargo
<1>5. Fits(w, z) BY WaitedFits DEF Advances, Gains
<1> HIDE DEF r
<1>6. Keeps(r, SetFinSequence(r, m.seq)) /\ Keeps(r, turned) /\ Keeps(r, r)
  BY <1>2, <1>4, SetFinSequenceStays, TurnKeeps, StaysSelf DEF Stays
<1> HIDE DEF turned, w
<1>7. Hears(s, w, z, m) BY <1>1, <1>3, <1>6, KeepsHears, HearsTrans
<1>8. Keeps(w, FinComplete(w, m))
  <2> DEFINE c == [w EXCEPT !.state = "CLOSING"]
  <2>1. FinComplete(w, m) \in {w, SendEmptyPacket(c, ACK), SendEmptyPacket(TimeWait(w), ACK)}
    BY DEF FinComplete
  <2>2. Fits(c, z) /\ Keeps(w, c) BY <1>5, TurnFits, TurnKeeps DEF State
  <2>3. Fits(TimeWait(w), z) /\ Keeps(w, TimeWait(w))
    <3>1. Fits([w EXCEPT !.state = "TIME_WAIT"], z) BY <1>5, TurnFits DEF State
    <3>2. Fits(TimeWait(w), z) BY <1>5, TimeWaitFits DEF Retains
    <3> QED BY <1>5, <3>2, TimeWaitKeeps
  <2> HIDE DEF c
  <2>4. Keeps(w, SendEmptyPacket(c, ACK)) /\ Keeps(w, SendEmptyPacket(TimeWait(w), ACK))
    BY <2>2, <2>3, SendEmptyPacketKeeps, KeepsTrans
  <2> QED BY <2>1, <2>4, StaysSelf DEF Stays
<1>9. Then(w, LAMBDA x : FinComplete(x, m)) = FinComplete(w, m) BY DEF Then
<1>10. Hears(s, FinComplete(w, m), z, m) BY <1>7, <1>8, KeepsHears, HearsTrans
<1>11. Hears(s, Refuse(s, m), z, m) /\ Hears(s, s, z, m)
  BY RefuseStays, KeepsHears, HearsSelf DEF Stays
<1> QED BY <1>9, <1>10, <1>11 DEF ProcessWait, w

LEMMA ProcessClosingHears ==
  ASSUME NEW z \in 1..N, NEW s, Fits(s, z), NEW m
  PROVE  Hears(s, ProcessClosing(s, m), z, m)
<1>1. Keeps(s, TimeWait(s)) /\ Keeps(s, Refuse(s, m)) /\ Keeps(s, s)
  BY TimeWaitKeeps, RefuseStays, StaysSelf DEF Stays
<1>2. Keeps(s, CloseAndNotify(SendEmptyPacket(s, ACK)))
  <2>1. Fits(SendEmptyPacket(s, ACK), z) /\ Keeps(s, SendEmptyPacket(s, ACK))
    BY SendEmptyPacketFits, SendEmptyPacketKeeps DEF Retains
  <2> QED BY <2>1, CloseAndNotifyKeeps, KeepsTrans
<1> QED BY <1>1, <1>2, KeepsHears DEF ProcessClosing

LEMMA ProcessSynRcvdHears ==
  ASSUME NEW z \in 1..N, NEW s, Fits(s, z), Calm(s), Forked(s), s.rxNext >= 1,
         s.out = <<>>, NEW m \in Cargo(z), m.flags = SYN => m.seq = 0
  PROVE  Hears(s, ProcessSynRcvd(s, m), z, m)
<1> DEFINE up == Accepted(s)
           est == [up EXCEPT !.state = "ESTABLISHED", !.delAck = DelAckMax]
           n == m.seq + 1
           again == [s EXCEPT !.rxNext = n]
<1>1. \/ ProcessSynRcvd(s, m) \in {s, ReceivedAck(est, m), PeerClose(up, m), Refuse(s, m)}
      \/ m.flags = SYN /\ ProcessSynRcvd(s, m) = SendEmptyPacket(again, SYNACK)
  BY FlagsType DEF ProcessSynRcvd, Accepted
<1>2. Fits(up, z) /\ up.rxNext >= 1 BY AcceptedFits
<1>3. Hears(s, up, z, m)
  <2> DEFINE k == s.nextTx + 1
             c == s.accepted + 1
             t == [s EXCEPT !.retx = NoFlag, !.nextTx = k, !.highTx = k, !.accepted = c,
                            !.head = k, !.txEnd = k]
  <2>1. up = t BY DEF Accepted, SetHeadSequence, Fits, Loose
  <2>2. k \in Nat BY DEF Fits, Loose
  <2> HIDE DEF k, c, up
  <2>3. /\ t.head = k /\ t.txEnd = k /\ t.out = s.out /\ t.early = s.early /\ t.read = s.read
    BY DEF Fits, Loose
  <2> HIDE DEF t
  <2>4. t.txEnd <= t.head BY <2>2, <2>3
  <2> QED BY <2>1, <2>3, <2>4 DEF Hears, HasLast, Mute
<1> HIDE DEF up
<1>4. Hears(s, PeerClose(up, m), z, m) BY <1>2, <1>3, PeerCloseHears, HearsTrans
<1>5. Hears(s, ReceivedAck(est, m), z, m)
  <2>1. est \in Loose(z) BY <1>2, ConstantsType DEF Fits, Loose, State
  <2>2. /\ est.head = up.head /\ est.txEnd = up.txEnd /\ est.read = up.read
        /\ est.rxNext = up.rxNext /\ est.early = up.early /\ est.out = up.out
        /\ est.unsent = up.unsent /\ est.highTx = up.highTx /\ est.window = up.window
    BY <1>2 DEF Fits, Loose
  <2> HIDE DEF est
  <2>3. Fits(est, z) /\ est.rxNext >= 1 /\ Keeps(up, est)
    BY <1>2, <2>1, <2>2 DEF Fits, Clean, Keeps
  <2>4. Hears(up, est, z, m) /\ Hears(est, ReceivedAck(est, m), z, m)
    BY <2>3, KeepsHears, ReceivedAckHears
  <2> QED BY <1>3, <2>4, HearsTrans
<1>6. m.flags = SYN => Hears(s, SendEmptyPacket(again, SYNACK), z, m)
  <2> SUFFICES ASSUME m.flags = SYN PROVE Hears(s, SendEmptyPacket(again, SYNACK), z, m)
    OBVIOUS
  <2>1. n = 1 OBVIOUS
  <2> HIDE DEF n
  <2>2. again \in Loose(z) BY <2>1 DEF Fits, Loose
  <2>3. /\ again.head = s.head /\ again.txEnd = s.txEnd /\ again.read = s.read
        /\ again.rxNext = 1 /\ again.out = s.out /\ again.early = s.early
        /\ again.unsent = s.unsent /\ again.highTx = s.highTx /\ again.window = s.window
    BY <2>1 DEF Fits, Loose
  <2> HIDE DEF again
  <2>4. Fits(again, z) /\ Keeps(s, again) BY <2>2, <2>3 DEF Fits, Clean, Forked, Keeps
  <2> QED BY <2>4, SendEmptyPacketKeeps, KeepsTrans, KeepsHears
<1>7. Hears(s, Refuse(s, m), z, m) /\ Hears(s, s, z, m)
  BY RefuseStays, KeepsHears, HearsSelf DEF Stays
<1> HIDE DEF est, again
<1> QED BY <1>1, <1>4, <1>5, <1>6, <1>7

\* The forked socket takes over what the sink has read.
LEMMA ListenHears ==
  ASSUME NEW z \in 1..N, NEW s, Fits(s, z), NEW m \in Cargo(z),
         m.flags = SYN => m.seq = 0 /\ s.read = 0
  PROVE  Hears(s, ProcessListen(s, m), z, m)
<1>1. CASE m.flags # SYN BY <1>1, HearsSelf DEF ProcessListen
<1>2. CASE m.flags = SYN
  <2> DEFINE n == m.seq + 1
             u == [Unused EXCEPT !.state = "SYN_RCVD", !.open = TRUE, !.rxNext = n,
                     !.closeOnEmpty = TRUE, !.shutdownSend = TRUE,
                     !.accepted = s.accepted, !.read = s.read]
  <2>1. ProcessListen(s, m) = SendEmptyPacket(u, SYNACK) BY <1>2 DEF ProcessListen
  <2>2. n = 1 BY <1>2
  <2> HIDE DEF n
  <2>3. /\ u.read = s.read /\ u.early = {} /\ u.head = 0 /\ u.txEnd = 0 /\ u.out = <<>>
        /\ u.rxNext = 1
    BY <2>2 DEF Unused
  <2>4. u \in Loose(z)
    <3>1. Unused \in Loose(z) BY UnusedFits
    <3>2. ASSUME NEW v \in Loose(z), NEW a \in {0, 1}, NEW r \in Upto(z), NEW w \in Nat
          PROVE  [v EXCEPT !.state = "SYN_RCVD", !.open = TRUE, !.rxNext = w,
                    !.closeOnEmpty = TRUE, !.shutdownSend = TRUE,
                    !.accepted = a, !.read = r] \in Loose(z)
      BY <3>2 DEF Loose, State
    <3>3. s.accepted \in {0, 1} /\ s.read \in Upto(z) /\ n \in Nat
      BY <2>2 DEF Fits, Loose
    <3> QED BY <3>1, <3>2, <3>3
  <2> HIDE DEF u
  <2>5. Fits(u, z) BY <1>2, <2>3, <2>4 DEF Fits, Clean
  <2>6. Hears(s, u, z, m) BY <2>3 DEF Hears, HasLast, Mute
  <2>7. Hears(u, SendEmptyPacket(u, SYNACK), z, m)
    BY <2>5, SendEmptyPacketKeeps, KeepsHears
  <2> QED BY <2>1, <2>6, <2>7, HearsTrans
<1> QED BY <1>1, <1>2

\* Every segment, for the sink.
LEMMA ServerTakenHears ==
  ASSUME NEW z \in 1..N, NEW s, Fits(s, z), Calm(s), s.out = <<>>,
         s.state = "SYN_RCVD" => Forked(s), s.open => s.rxNext >= 1,
         NEW m \in Cargo(z), m.flags = SYN => m.seq = 0 /\ s.read = 0
  PROVE  Hears(s, Taken("server", s, m), z, m)
<1>1. Hears(s, NoEndPointsFound(s, m), z, m) /\ Hears(s, ProcessListen(s, m), z, m)
  BY NoEndPointsKeeps, KeepsHears, ListenHears
<1>2. ASSUME s.open PROVE Hears(s, Handled(s, m), z, m)
  <2>1. Hears(s, SendEmptyPacket(s, ACK), z, m) /\ Hears(s, CloseAndNotify(s), z, m)
        /\ Hears(s, Refuse(s, m), z, m) /\ Hears(s, s, z, m)
    BY SendEmptyPacketKeeps, CloseAndNotifyKeeps, RefuseStays, KeepsHears, HearsSelf DEF Stays
  <2>2. s.state = "SYN_RCVD" => Hears(s, ProcessSynRcvd(s, m), z, m)
    BY <1>2, ProcessSynRcvdHears
  <2>3. Hears(s, ProcessEstablished(s, m), z, m)
    BY <1>2, <2>1, PeerCloseHears, ReceivedAckHears DEF ProcessEstablished
  <2>4. Hears(s, ProcessWait(s, m), z, m) BY <1>2, ProcessWaitHears
  <2>5. Hears(s, ProcessClosing(s, m), z, m) BY ProcessClosingHears
  <2>6. Hears(s, ProcessLastAck(s, m), z, m) BY <2>1 DEF ProcessLastAck
  <2> QED BY <2>1, <2>2, <2>3, <2>4, <2>5, <2>6 DEF Handled, ProcessInState, Calm
<1> QED BY <1>1, <1>2 DEF Taken

LEMMA ServerReceiveHears ==
  ASSUME NEW z \in 1..N, NEW s, Fits(s, z), Calm(s), s.out = <<>>,
         s.state = "SYN_RCVD" => Forked(s), s.open => s.rxNext >= 1,
         NEW m \in Cargo(z), m.flags = SYN => m.seq = 0 /\ s.read = 0
  PROVE  Hears(s, Receive("server", s, m), z, m)
<1>1. s \in Loose(z) BY DEF Fits
<1>2. PICK r \in Windowed(s) : Receive("server", s, m) = Taken("server", r, m)
  BY <1>1, ReceiveTaken
<1>3. /\ Fits(r, z) /\ r.out = <<>> /\ Calm(r) /\ (r.open => r.rxNext >= 1)
      /\ r.state = "SYN_RCVD" => Forked(r)
      /\ m.flags = SYN => m.seq = 0 /\ r.read = 0
  BY <1>1, <1>2, WindowedFacts, WindowedFits DEF Calm
<1>4. Hears(r, Taken("server", r, m), z, m) BY <1>3, ServerTakenHears
<1> QED BY <1>1, <1>2, <1>4, WindowedFacts DEF Hears, Mute, HasLast

\* The timers of the sink find no data to send.
LEMMA FireRetxMute ==
  ASSUME NEW z \in 1..N, NEW s, Fits(s, z), Calm(s), s.retx # NoFlag, Mute(s)
  PROVE  Mute(FireRetx(s))
<1> DEFINE fired == [s EXCEPT !.retx = NoFlag]
<1>1. NoFlag \in Events BY DEF Events
<1>2. Fits(fired, z) /\ Keeps(s, fired) /\ fired.state = s.state
  BY <1>1 DEF Fits, Loose, Clean, Keeps
<1>3. s.retx = RTO \/ s.retx \in {SYNACK, FINACK}
  BY DEF Fits, Loose, Events, Calm
<1>4. FireRetx(s) = IF s.retx = RTO THEN ReTxTimeout(fired) ELSE SendEmptyPacket(fired, s.retx)
  BY DEF FireRetx
<1> HIDE DEF fired
<1>5. Mute(fired) BY <1>2, KeepsMute
<1>6. ReTxTimeout(fired) \in {fired, SendEmptyPacket(fired, FIN)}
  BY <1>2, <1>5, MuteSends DEF ReTxTimeout, Calm
<1>7. \A f \in {FIN, SYNACK, FINACK} : Mute(SendEmptyPacket(fired, f))
  BY <1>2, <1>5, SendEmptyPacketKeeps, KeepsMute
<1> QED BY <1>3, <1>4, <1>5, <1>6, <1>7

LEMMA PendingMute ==
  ASSUME NEW z \in 1..N, NEW s, Fits(s, z), Mute(s)
  PROVE  Mute(SendPendingData([s EXCEPT !.pendingEvent = FALSE]))
<1> DEFINE t == [s EXCEPT !.pendingEvent = FALSE]
<1>1. Fits(t, z) /\ Keeps(s, t) BY DEF Fits, Loose, Clean, Keeps
<1> HIDE DEF t
<1>2. Mute(t) BY <1>1, KeepsMute
<1>3. SendPendingData(t) = t BY <1>1, <1>2, MuteSends
<1> QED BY <1>2, <1>3 DEF t

-----------------------------------------------------------------------------
\* The third invariant: a client that is not done waits for a timer, and what
\* the sink has of the last segment the client has sent.

LastSent ==
  \/ HasLast(Server, scenario.size)
  \/ \E k \in DOMAIN net["server"] :
       net["server"][k].len = 1 /\ net["server"][k].seq = scenario.size
  => Client.highTx > scenario.size

TimersOK ==
  /\ Shape(Client, scenario.size) /\ Armed(Client, scenario.size)
  /\ Mute(Server)
  /\ \A k \in DOMAIN net["client"] : net["client"][k].len # 1
  /\ LastSent

TInv == FInv /\ TimersOK

\* A step of the server.
LEMMA ServerTimed ==
  ASSUME IInv, TimersOK, NEW t, NEW n, Becomes("server", t, n), UNCHANGED scenario,
         Fits(t, scenario.size), Mute(t),
         HasLast(t, scenario.size) => Client.highTx > scenario.size,
         n \in [End -> Seq(Cargo(scenario.size))],
         n["client"] = net["client"], From(n["server"], net["server"])
  PROVE  TimersOK'
<1> DEFINE z == scenario.size
           x == [t EXCEPT !.out = <<>>]
           q == Trimmed(n["client"], t.out)
<1>1. scenario' = scenario /\ z \in 1..N BY ServerFacts
<1>2. sock' = [sock EXCEPT !["server"] = x] /\ net' = [n EXCEPT !["client"] = q]
  BY BecomesFact DEF Peer
<1>3. Mute(x) /\ (HasLast(x, z) => HasLast(t, z)) BY DEF Mute, HasLast, Fits, Loose
<1>4. t.out \in Seq(Cargo(z)) BY CleanSyn
<1>5. n["client"] \in Seq(Cargo(z)) BY DEF End
<1>6. \A k \in DOMAIN q : \/ \E j \in DOMAIN net["client"] : q[k] = net["client"][j]
                          \/ \E j \in DOMAIN t.out : q[k] = t.out[j]
  BY <1>4, <1>5, TrimmedFrom
<1> HIDE DEF x, q
<1>7. Client' = Client /\ Server' = x
  BY <1>2 DEF IInv, SocketsOK, Client, Server, End
<1>8. net'["client"] = q /\ net'["server"] = n["server"] BY <1>2 DEF End
<1>9. \A k \in DOMAIN q : q[k].len # 1 BY <1>6 DEF TimersOK, Mute
<1>10. LastSent' BY <1>1, <1>3, <1>7, <1>8 DEF TimersOK, LastSent, From
<1> QED BY <1>1, <1>3, <1>7, <1>8, <1>9, <1>10 DEF TimersOK

\* A step of the client.
LEMMA ClientTimed ==
  ASSUME IInv, TimersOK, NEW t, NEW n, Becomes("client", t, n), UNCHANGED scenario,
         t \in Loose(scenario.size), Lives(Client, t, scenario.size),
         n \in [End -> Seq(Cargo(scenario.size))],
         n["server"] = net["server"], From(n["client"], net["client"])
  PROVE  TimersOK'
<1> DEFINE z == scenario.size
           x == [t EXCEPT !.out = <<>>]
           q == Trimmed(n["server"], t.out)
<1>1. scenario' = scenario /\ z \in 1..N BY ServerFacts
<1>2. sock' = [sock EXCEPT !["client"] = x] /\ net' = [n EXCEPT !["server"] = q]
  BY BecomesFact DEF Peer
<1>3. Shape(t, z) /\ Armed(t, z) BY DEF Lives, TimersOK
<1>4. /\ x.window = t.window /\ x.open = t.open /\ x.state = t.state /\ x.highTx = t.highTx
      /\ x.head = t.head /\ x.closeOnEmpty = t.closeOnEmpty /\ x.unsent = t.unsent
      /\ x.timeWaitEvent = t.timeWaitEvent /\ x.retx = t.retx
      /\ x.pendingEvent = t.pendingEvent /\ x.out = <<>>
  BY DEF Loose
<1>5. t.out \in Seq(Cargo(z)) BY DEF Loose, Sent
<1>6. n["server"] \in Seq(Cargo(z)) BY DEF End
<1>7. \A k \in DOMAIN q : \/ \E j \in DOMAIN net["server"] : q[k] = net["server"][j]
                          \/ \E j \in DOMAIN t.out : q[k] = t.out[j]
  BY <1>5, <1>6, TrimmedFrom
<1> HIDE DEF x, q
<1>8. Client' = x /\ Server' = Server
  BY <1>2 DEF IInv, SocketsOK, Client, Server, End
<1>9. net'["server"] = q /\ net'["client"] = n["client"] BY <1>2 DEF End
<1>10. Shape(x, z) /\ Armed(x, z) BY <1>3, <1>4 DEF Shape, Armed, Fresh
<1>11. Client.highTx > z => x.highTx > z
  <2>1. Client.highTx \in Nat /\ t.highTx \in Nat /\ t.highTx >= Client.highTx
    BY ClientFacts DEF Fits, Loose, Lives
  <2> QED BY <1>1, <1>4, <2>1
<1>12. \A k \in DOMAIN q : q[k].len = 1 /\ q[k].seq = z => x.highTx > z
  BY <1>3, <1>4, <1>7, <1>11 DEF TimersOK, LastSent, Shape
<1>13. LastSent' BY <1>1, <1>8, <1>9, <1>11, <1>12 DEF TimersOK, LastSent
<1>14. \A k \in DOMAIN n["client"] : n["client"][k].len # 1 BY DEF TimersOK, From
<1>15. Mute(Server) BY DEF TimersOK
<1> QED BY <1>1, <1>8, <1>9, <1>10, <1>13, <1>14, <1>15 DEF TimersOK

\* Every segment, for the sink.
LEMMA DeliverServerTimed ==
  ASSUME IInv, FinsOK, TimersOK, Deliver("server")
  PROVE  TimersOK'
<1> DEFINE z == scenario.size
           q == net["server"]
<1>1. PICK i \in Deliverable(q) :
        /\ Becomes("server", Receive("server", Server, q[i]),
                   [net EXCEPT !["server"] = RemoveAt(q, i)])
        /\ UNCHANGED scenario
  BY DEF Deliver, Server
<1> DEFINE m == q[i]
           t == Receive("server", Server, m)
           n == [net EXCEPT !["server"] = RemoveAt(q, i)]
<1>2. Fits(t, z) BY ReceiveServer DEF Takes
<1>3. /\ i \in DOMAIN q /\ q \in Seq(Cargo(z)) /\ SynFirst(q) /\ net \in [End -> Seq(Cargo(z))]
      /\ z \in 1..N /\ Fits(Server, z) /\ Calm(Server) /\ Server.out = <<>>
      /\ Server.state = "SYN_RCVD" => Forked(Server)
  BY ServerFacts DEF Deliverable
<1>4. RemoveAt(q, i) \in Seq(Cargo(z)) /\ From(RemoveAt(q, i), q)
  BY <1>3, RemoveFacts, RemoveFrom
<1>5. m \in Cargo(z) BY <1>3
<1>6. m.flags = SYN => m.seq = 0 /\ Server.read = 0
  BY <1>3 DEF SynFirst, HasSyn, IInv, NothingAccepted
<1>7. /\ n \in [End -> Seq(Cargo(z))] /\ n["client"] = net["client"]
      /\ n["server"] = RemoveAt(q, i)
  <2> HIDE DEF q
  <2> QED BY <1>3, <1>4 DEF End
<1>8. From(n["server"], net["server"]) BY <1>4, <1>7
<1>9. Server.open => Server.rxNext >= 1 BY DEF FinsOK, Reader, Unused
<1>10. Hears(Server, t, z, m) BY <1>3, <1>5, <1>6, <1>9, ServerReceiveHears
<1>11. Mute(t) BY <1>10 DEF Hears, TimersOK
<1>12. HasLast(t, z) => Client.highTx > z
  BY <1>3, <1>10 DEF Hears, TimersOK, LastSent
<1>13. Becomes("server", t, n) /\ UNCHANGED scenario BY <1>1
<1> HIDE DEF t, n
<1> QED BY <1>2, <1>7, <1>8, <1>11, <1>12, <1>13, ServerTimed

LEMMA DeliverClientTimed ==
  ASSUME IInv, FinsOK, TimersOK, Deliver("client")
  PROVE  TimersOK'
<1> DEFINE z == scenario.size
           q == net["client"]
<1>1. PICK i \in Deliverable(q) :
        /\ Becomes("client", Receive("client", Client, q[i]),
                   [net EXCEPT !["client"] = RemoveAt(q, i)])
        /\ UNCHANGED scenario
  BY DEF Deliver, Client
<1> DEFINE m == q[i]
           t == Receive("client", Client, m)
           n == [net EXCEPT !["client"] = RemoveAt(q, i)]
<1>2. /\ i \in DOMAIN q /\ q \in Seq(Cargo(z)) /\ ~HasSyn(q)
      /\ net \in [End -> Seq(Cargo(z))] /\ z \in 1..N /\ Fits(Client, z) /\ Client.out = <<>>
      /\ Calling(Client) \/ (Calm(Client) /\ Client.state # "SYN_RCVD")
  BY ClientFacts DEF Deliverable
<1>3. m \in Cargo(z) /\ m.flags # SYN BY <1>2 DEF HasSyn
<1>4. RemoveAt(q, i) \in Seq(Cargo(z)) /\ From(RemoveAt(q, i), q)
  BY <1>2, RemoveFacts, RemoveFrom
<1>5. /\ n \in [End -> Seq(Cargo(z))] /\ n["server"] = net["server"]
      /\ From(n["client"], net["client"])
  <2> HIDE DEF q
  <2> QED BY <1>2, <1>4 DEF End, q
<1>6. Becomes("client", t, n) /\ UNCHANGED scenario BY <1>1
<1>7. Client.open => Short(Client, m, z)
  <2> SUFFICES ASSUME Client.open PROVE Short(Client, m, z) OBVIOUS
  <2>1. m.len = 0 BY <1>2, <1>3 DEF TimersOK, Cargo
  <2>2. m.ack \in Nat /\ Client.highTx \in Nat BY <1>2, <1>3 DEF Cargo, Fits, Loose
  <2>3. ASSUME Client.state = "CLOSE_WAIT", "RST" \notin m.flags, m.ack > z PROVE FALSE
    <3>1. Server.read = z BY <1>2, <2>3 DEF FinsOK, AllRead
    <3>2. Client.highTx > z BY <3>1 DEF TimersOK, LastSent, HasLast
    <3>3. Client.highTx <= z BY <2>3 DEF TimersOK, Shape
    <3> QED BY <1>2, <2>2, <3>2, <3>3
  <2> QED BY <1>2, <2>1, <2>2, <2>3 DEF Short
<1>8. Lives(Client, t, z)
  <2>1. Sender(Client, z) /\ Shape(Client, z) BY DEF FinsOK, TimersOK
  <2> QED BY <1>2, <1>3, <1>7, <2>1, ClientReceiveLives
<1>9. t \in Loose(z)
  <2>1. t = IF Client.open THEN DoForwardUp(Client, m) ELSE NoEndPointsFound(Client, m)
    BY DEF Receive
  <2>2. Fits(NoEndPointsFound(Client, m), z) BY <1>2, <1>3, NoEndPointsRetains DEF Retains
  <2>3. Fits(DoForwardUp(Client, m), z)
    <3>1. CASE Calling(Client)
      BY <1>2, <1>3, <3>1, ProcessSynSentFits
    <3>2. CASE Calm(Client) /\ Client.state # "SYN_RCVD"
      BY <1>2, <1>3, <3>2, DoForwardUpFits DEF Calm, Advances, Gains
    <3> QED BY <1>2, <3>1, <3>2
  <2> QED BY <2>1, <2>2, <2>3 DEF Fits
<1> HIDE DEF t, n
<1> QED BY <1>5, <1>6, <1>8, <1>9, ClientTimed

LEMMA LoseTimed ==
  ASSUME IInv, TimersOK, NEW p \in End, Lose(p)
  PROVE  TimersOK'
<1> DEFINE z == scenario.size
<1>1. PICK i \in DOMAIN net[p] : net' = [net EXCEPT ![p] = RemoveAt(@, i)] BY DEF Lose
<1>2. /\ sock' = sock /\ scenario' = [scenario EXCEPT !.losses = @ - 1]
      /\ scenario \in Scenario
  BY DEF Lose, IInv
<1>3. scenario'.size = z BY <1>2 DEF Scenario
<1>4. net \in [End -> Seq(Cargo(z))] BY DEF IInv, NetOK
<1> DEFINE r == RemoveAt(net[p], i)
<1>5. From(r, net[p]) BY <1>1, <1>4, RemoveFrom
<1>6. net' = [net EXCEPT ![p] = r] BY <1>1
<1> HIDE DEF r
<1>7. \A e \in End : From(net'[e], net[e])
  BY <1>4, <1>5, <1>6, FromSelf
<1>8. Client' = Client /\ Server' = Server BY <1>2 DEF Client, Server
<1>9. From(net'["client"], net["client"]) /\ From(net'["server"], net["server"])
  BY <1>7 DEF End
<1> QED BY <1>3, <1>8, <1>9 DEF TimersOK, LastSent, From

\* A step of the sink that takes no segment.
LEMMA ServerRetainsTimed ==
  ASSUME IInv, TimersOK, NEW t, Retains(Server, t, scenario.size), Mute(t),
         Becomes("server", t, net), UNCHANGED scenario
  PROVE  TimersOK'
<1> DEFINE z == scenario.size
<1>1. HasLast(t, z) => Client.highTx > z
  BY DEF Retains, Kept, HasLast, TimersOK, LastSent
<1>2. net \in [End -> Seq(Cargo(z))] BY ServerFacts
<1>3. PICK n : n = net OBVIOUS
<1>4. /\ n \in [End -> Seq(Cargo(z))] /\ n["client"] = net["client"]
      /\ From(n["server"], net["server"]) /\ Becomes("server", t, n)
  BY <1>2, <1>3, FromSelf
<1> QED BY <1>1, <1>4, ServerTimed DEF Retains

LEMMA ServerTimersTimed ==
  ASSUME IInv, TimersOK, \/ RetxTimeout("server") \/ DelayedAck("server") \/ LastAck("server")
                         \/ TimeWaitOver("server") \/ SendPending("server") \/ SinkStop
  PROVE  TimersOK'
<1> DEFINE z == scenario.size
<1>1. z \in 1..N /\ Fits(Server, z) /\ Calm(Server) /\ Mute(Server)
  BY ServerFacts DEF TimersOK
<1>2. CASE RetxTimeout("server")
  <2>1. Becomes("server", FireRetx(Server), net) /\ UNCHANGED scenario /\ Server.retx # NoFlag
    BY <1>2 DEF RetxTimeout, Server
  <2> QED BY <1>1, <2>1, FireRetxFits, FireRetxMute, ServerRetainsTimed
<1>3. CASE DelayedAck("server")
  <2>1. Becomes("server", DelAckTimeout(Server), net) /\ UNCHANGED scenario
    BY <1>3 DEF DelayedAck, Server
  <2>2. Mute(DelAckTimeout(Server)) BY <1>1, DelAckTimeoutStays, KeepsMute DEF Stays
  <2> QED BY <1>1, <2>1, <2>2, DelAckTimeoutFits, ServerRetainsTimed
<1>4. CASE LastAck("server")
  <2>1. Becomes("server", LastAckTimeout(Server), net) /\ UNCHANGED scenario
    BY <1>4 DEF LastAck, Server
  <2>2. Mute(LastAckTimeout(Server)) BY <1>1, LastAckTimeoutStays, KeepsMute DEF Stays
  <2> QED BY <1>1, <2>1, <2>2, LastAckTimeoutFits, ServerRetainsTimed
<1>5. CASE TimeWaitOver("server")
  <2>1. Becomes("server", CloseAndNotify(Server), net) /\ UNCHANGED scenario
    BY <1>5 DEF TimeWaitOver, Server
  <2>2. Mute(CloseAndNotify(Server)) BY <1>1, CloseAndNotifyKeeps, KeepsMute
  <2> QED BY <1>1, <2>1, <2>2, CloseAndNotifyFits, ServerRetainsTimed
<1>6. CASE SendPending("server")
  <2> DEFINE t == SendPendingData([Server EXCEPT !.pendingEvent = FALSE])
  <2>1. Becomes("server", t, net) /\ UNCHANGED scenario BY <1>6 DEF SendPending, Server
  <2>2. Retains(Server, t, z) /\ Mute(t) BY <1>1, PendingFits, PendingMute
  <2> HIDE DEF t
  <2> QED BY <2>1, <2>2, ServerRetainsTimed
<1>7. CASE SinkStop
  <2> DEFINE t == IF Server.accepted > 0 /\ Server.state # "SYN_RCVD" THEN Close(Server)
                  ELSE Server
  <2>1. Becomes("server", t, net) /\ UNCHANGED scenario BY <1>7 DEF SinkStop, Server
  <2>2. Retains(Server, t, z) BY <1>1, CloseFits, RetainsSelf
  <2>3. Mute(t) BY <1>1, CloseKeeps, KeepsMute
  <2> HIDE DEF t
  <2> QED BY <2>1, <2>2, <2>3, ServerRetainsTimed
<1> QED BY <1>2, <1>3, <1>4, <1>5, <1>6, <1>7

\* A step of the client that takes no segment.
LEMMA ClientLivesTimed ==
  ASSUME IInv, TimersOK, NEW t, t \in Loose(scenario.size), Lives(Client, t, scenario.size),
         Becomes("client", t, net), UNCHANGED scenario
  PROVE  TimersOK'
<1>1. net \in [End -> Seq(Cargo(scenario.size))] BY ClientFacts
<1>2. PICK n : n = net OBVIOUS
<1>3. /\ n \in [End -> Seq(Cargo(scenario.size))] /\ n["server"] = net["server"]
      /\ From(n["client"], net["client"]) /\ Becomes("client", t, n)
  BY <1>1, <1>2, FromSelf
<1> QED BY <1>3, ClientTimed

LEMMA ClientTimersTimed ==
  ASSUME IInv, FinsOK, TimersOK,
         \/ RetxTimeout("client") \/ DelayedAck("client") \/ LastAck("client")
         \/ TimeWaitOver("client") \/ SendPending("client")
  PROVE  TimersOK'
<1> DEFINE z == scenario.size
<1>1. /\ z \in 1..N /\ Fits(Client, z) /\ Client.out = <<>> /\ Sender(Client, z)
      /\ Shape(Client, z)
  BY ClientFacts DEF FinsOK, TimersOK
<1>2. CASE RetxTimeout("client")
  <2>1. /\ Becomes("client", FireRetx(Client), net) /\ UNCHANGED scenario
        /\ Client.retx # NoFlag
    BY <1>2 DEF RetxTimeout, Client
  <2>2. CASE ClientCalls
    <3>1. Calling(Client) BY <2>2, ClientFacts
    <3>2. FireRetx(Client) \in Loose(z) BY <1>1, <2>1, <3>1, CallAgain
    <3>3. Lives(Client, FireRetx(Client), z) BY <1>1, <2>1, <3>1, CallAgainLives
    <3> QED BY <2>1, <3>2, <3>3, ClientLivesTimed
  <2>3. CASE ~ClientCalls
    <3>1. Calm(Client) BY <2>3, ClientFacts
    <3>2. FireRetx(Client) \in Loose(z) BY <1>1, <2>1, <3>1, FireRetxFits DEF Retains, Fits
    <3>3. Lives(Client, FireRetx(Client), z) BY <1>1, <2>1, <3>1, FireRetxLives
    <3> QED BY <2>1, <3>2, <3>3, ClientLivesTimed
  <2> QED BY <2>2, <2>3
<1>3. CASE DelayedAck("client")
  <2>1. Becomes("client", DelAckTimeout(Client), net) /\ UNCHANGED scenario
    BY <1>3 DEF DelayedAck, Client
  <2>2. DelAckTimeout(Client) \in Loose(z) BY <1>1, DelAckTimeoutFits DEF Retains, Fits
  <2>3. Lives(Client, DelAckTimeout(Client), z) BY <1>1, DelAckTimeoutStays, StaysLives
  <2> QED BY <2>1, <2>2, <2>3, ClientLivesTimed
<1>4. CASE LastAck("client")
  <2>1. Becomes("client", LastAckTimeout(Client), net) /\ UNCHANGED scenario
    BY <1>4 DEF LastAck, Client
  <2>2. LastAckTimeout(Client) \in Loose(z) BY <1>1, LastAckTimeoutFits DEF Retains, Fits
  <2>3. Lives(Client, LastAckTimeout(Client), z) BY <1>1, LastAckTimeoutStays, StaysLives
  <2> QED BY <2>1, <2>2, <2>3, ClientLivesTimed
<1>5. CASE TimeWaitOver("client")
  <2>1. Becomes("client", CloseAndNotify(Client), net) /\ UNCHANGED scenario
    BY <1>5 DEF TimeWaitOver, Client
  <2>2. CloseAndNotify(Client) \in Loose(z) BY <1>1, CloseAndNotifyFits DEF Retains, Fits
  <2>3. Lives(Client, CloseAndNotify(Client), z)
    BY <1>1, CloseAndNotifyKeeps, ClosedStays, StaysLives
  <2> QED BY <2>1, <2>2, <2>3, ClientLivesTimed
<1>6. CASE SendPending("client")
  <2> DEFINE t == SendPendingData([Client EXCEPT !.pendingEvent = FALSE])
  <2>1. Becomes("client", t, net) /\ UNCHANGED scenario /\ Client.pendingEvent
    BY <1>6 DEF SendPending, Client
  <2>2. t \in Loose(z) BY <1>1, PendingFits DEF Retains, Fits
  <2>3. Client.state # "SYN_SENT" BY <2>1, ClientFacts DEF Calling, ClientCalls
  <2>4. Lives(Client, t, z) BY <1>1, <2>3, PendingLives
  <2> HIDE DEF t
  <2> QED BY <2>1, <2>2, <2>4, ClientLivesTimed
<1> QED BY <1>2, <1>3, <1>4, <1>5, <1>6

LEMMA InitTimed == Init => TimersOK
<1> SUFFICES ASSUME Init PROVE TimersOK OBVIOUS
<1> DEFINE z == scenario.size
           u == [Unused EXCEPT !.open = TRUE]
           c == [Connect EXCEPT !.state = "SYN_SENT"]
           x == [c EXCEPT !.out = <<>>]
<1>1. scenario \in Scenario /\ z \in 1..N
  BY TcpConnectionAssumption, SizeType DEF Init
<1>2. /\ x.out = <<>> /\ Calling(x) /\ c.out \in Sent(z) /\ SynOnly(c.out)
      /\ SynFirst(c.out)
  BY <1>1, ConnectFits
<1>3. x.highTx = 0 /\ x.window = N /\ x.retx # NoFlag
  <2>1. SynRetries # 0 BY TcpConnectionAssumption
  <2>2. "SYN" \in SYN /\ "FIN" \notin SYN /\ SYN # NoFlag BY DEF SYN, NoFlag
  <2>3. SYN \cap {"SYN", "FIN"} # {} BY <2>2
  <2> QED
    BY <2>1, <2>2, <2>3 DEF Connect, SendEmptyPacket, Emit, CloseAndNotify,
       DeallocateEndPoint, CancelAllTimers, Unused
<1> HIDE DEF c, x
<1>4. sock = [client |-> x, server |-> Unused] /\ net = [client |-> <<>>, server |-> c.out]
  BY DEF Init, c, x
<1>5. Client = x /\ Server = Unused BY <1>4 DEF Client, Server
<1>6. Shape(x, z) /\ Armed(x, z)
  <2>1. N >= 1 BY ConstantsType, <1>1
  <2> QED BY <1>2, <1>3, <2>1 DEF Shape, Armed, Calling
<1>7. Mute(Unused) /\ ~HasLast(Unused, z) BY <1>1 DEF Mute, HasLast, Unused
<1>8. \A k \in DOMAIN c.out : c.out[k].len # 1 BY <1>2 DEF SynOnly, SynFirst
<1> QED BY <1>4, <1>5, <1>6, <1>7, <1>8 DEF TimersOK, LastSent

LEMMA NextTimed == TInv /\ [Next]_vars => TInv'
<1> SUFFICES ASSUME TInv, [Next]_vars PROVE TInv' OBVIOUS
<1>1. FInv /\ IInv /\ FinsOK /\ TimersOK BY DEF TInv, FInv
<1>2. FInv' BY <1>1, NextFins
<1>3. CASE UNCHANGED vars
  BY <1>1, <1>2, <1>3 DEF vars, TInv, TimersOK, LastSent, Client, Server
<1>4. CASE SinkStop BY <1>1, <1>2, <1>4, ServerTimersTimed DEF TInv
<1>5. CASE \E p \in End : Deliver(p) \/ Lose(p) \/ RetxTimeout(p) \/ DelayedAck(p)
                          \/ LastAck(p) \/ TimeWaitOver(p) \/ SendPending(p)
  <2>1. PICK p \in End : Deliver(p) \/ Lose(p) \/ RetxTimeout(p) \/ DelayedAck(p)
                         \/ LastAck(p) \/ TimeWaitOver(p) \/ SendPending(p)
    BY <1>5
  <2>2. TimersOK'
    <3>1. CASE Lose(p) BY <1>1, <3>1, LoseTimed
    <3>2. CASE p = "client" /\ ~Lose(p) BY <1>1, <2>1, <3>2, DeliverClientTimed, ClientTimersTimed
    <3>3. CASE p = "server" /\ ~Lose(p) BY <1>1, <2>1, <3>3, DeliverServerTimed, ServerTimersTimed
    <3> QED BY <3>1, <3>2, <3>3 DEF End
  <2> QED BY <1>2, <2>2 DEF TInv
<1> QED BY <1>3, <1>4, <1>5 DEF Next

\* At every moment a client that is neither in FIN_WAIT_2 nor in TIME_WAIT
\* has its retransmission timer set, or has just been given the flow; and what
\* the sink has of the last segment the client has sent.
THEOREM TimersKept == Spec => []TInv
<1>1. Init => TInv BY InitIInv, InitFins, InitTimed DEF TInv, FInv
<1> QED BY <1>1, NextTimed, PTL DEF Spec

\* When nothing will ever happen again, no client is left open in a state
\* other than FIN_WAIT_2: no path through timers and acknowledgements stops
\* the last timer of an unfinished flow.
THEOREM OnlyFinWait2HangsCorrect == Spec => []OnlyFinWait2Hangs
<1>1. TInv => OnlyFinWait2Hangs
  <2> SUFFICES ASSUME TInv, Quiet, Client.open PROVE Client.state = "FIN_WAIT_2"
    BY DEF OnlyFinWait2Hangs
  <2>1. /\ Client.retx = NoFlag /\ ~Client.timeWaitEvent /\ ~Client.pendingEvent
    BY DEF Quiet, End, Client
  <2>2. Client.state # "TIME_WAIT" BY <2>1 DEF TInv, TimersOK, Shape
  <2> QED BY <2>1, <2>2 DEF TInv, TimersOK, Armed, Fresh
<1> QED BY <1>1, TimersKept, PTL

-----------------------------------------------------------------------------
\* Who resets: what a socket tells its application and what it sends.

LEMMA DeallocateSays ==
  ASSUME NEW z \in 1..N, NEW s, Fits(s, z)
  PROVE  LET t == DeallocateEndPoint(s)
         IN  /\ t.told = s.told /\ t.state = s.state /\ t.fin = s.fin
             /\ t.rxNext = s.rxNext /\ t.early = s.early /\ t.out = s.out /\ ~t.open
             /\ t.retx \in {s.retx, NoFlag}
             /\ s.open => t.retx = NoFlag /\ ~t.timeWaitEvent
<1> DEFINE c == CancelAllTimers(s)
           d == [c EXCEPT !.open = FALSE]
<1>1. /\ c \in Loose(z) /\ c.told = s.told /\ c.state = s.state /\ c.fin = s.fin
      /\ c.rxNext = s.rxNext /\ c.early = s.early /\ c.out = s.out
      /\ c.retx = NoFlag /\ ~c.timeWaitEvent
  <2>1. c \in Loose(z) BY CancelFits DEF Retains, Fits
  <2> QED BY <2>1 DEF CancelAllTimers, Fits, Loose
<1> HIDE DEF c
<1>2. /\ d.told = c.told /\ d.state = c.state /\ d.fin = c.fin
      /\ d.rxNext = c.rxNext /\ d.early = c.early /\ d.out = c.out /\ ~d.open
      /\ d.retx = c.retx /\ d.timeWaitEvent = c.timeWaitEvent
  BY <1>1 DEF Loose
<1>3. DeallocateEndPoint(s) = IF s.open THEN d ELSE s BY DEF DeallocateEndPoint, c
<1> HIDE DEF d
<1> QED BY <1>1, <1>2, <1>3

LEMMA CloseAndNotifySays ==
  ASSUME NEW z \in 1..N, NEW s, Fits(s, z)
  PROVE  LET t == CloseAndNotify(s)
         IN  /\ t.told = s.told \cup {"normal"} /\ t.state = "CLOSED" /\ t.fin = s.fin
             /\ t.rxNext = s.rxNext /\ t.early = s.early /\ t.out = s.out /\ ~t.open
             /\ t.retx \in {s.retx, NoFlag}
             /\ s.open => t.retx = NoFlag /\ ~t.timeWaitEvent
<1> DEFINE w == s.told \cup {"normal"}
           c == [s EXCEPT !.state = "CLOSED", !.told = w]
           t == CloseAndNotify(s)
<1>1. t = DeallocateEndPoint(c) BY DEF CloseAndNotify
<1>2. w \in Calls BY DEF Fits, Loose, Calls
<1>3. w = s.told \cup {"normal"} OBVIOUS
<1> HIDE DEF w
<1>4. Fits(c, z) BY <1>2 DEF Fits, Loose, Clean, State
<1>5. /\ c.told = w /\ c.state = "CLOSED" /\ c.fin = s.fin /\ c.rxNext = s.rxNext
      /\ c.early = s.early /\ c.out = s.out /\ c.open = s.open /\ c.retx = s.retx
  BY DEF Fits, Loose
<1> HIDE DEF c, t
<1> QED BY <1>1, <1>3, <1>4, <1>5, DeallocateSays DEF t

LEMMA SendEmptyPacketSays ==
  ASSUME NEW z \in 1..N, NEW s, Fits(s, z), s.open, NEW f \in {ACK, FIN, FINACK, SYN, SYNACK},
         f \in {SYN, SYNACK} => s.synCount # 0
  PROVE  LET t == SendEmptyPacket(s, f)
             g == IF f \in {FIN, FINACK} THEN FINACK ELSE f
         IN  /\ t.told = s.told /\ t.state = s.state /\ t.fin = s.fin /\ t.open
             /\ t.rxNext = s.rxNext /\ t.early = s.early /\ t.nextTx = s.nextTx
             /\ t.timeWaitEvent = s.timeWaitEvent
             /\ t.retx \in {s.retx, g}
             /\ f = ACK => t.retx = s.retx
             /\ \A k \in DOMAIN t.out :
                  \/ k \in DOMAIN s.out /\ t.out[k] = s.out[k]
                  \/ /\ t.out[k].flags = g /\ t.out[k].ack = s.rxNext
                     /\ s.state = "SYN_RCVD" => t.out[k].seq = s.nextTx
<1> DEFINE flags == IF "FIN" \in f THEN f \cup ACK ELSE f
           pastFin == s.state \in {"FIN_WAIT_1", "LAST_ACK", "CLOSING"} /\ "FIN" \notin f
           seq == IF pastFin THEN s.nextTx + 1 ELSE s.nextTx
           seg == [flags |-> flags, seq |-> seq, ack |-> s.rxNext, len |-> 0]
           o == Append(s.out, seg)
           again == flags \cap {"SYN", "FIN"} # {}
           a == IF "SYN" \in f THEN s.synCount - 1 ELSE s.synCount
           b == IF "ACK" \in flags THEN 0 ELSE s.delAck
           c == IF "ACK" \in flags THEN FALSE ELSE s.delAckEvent
           d == IF again /\ s.retx = NoFlag THEN flags ELSE s.retx
           g == IF f \in {FIN, FINACK} THEN FINACK ELSE f
           t == [s EXCEPT !.out = o, !.synCount = a, !.delAck = b, !.delAckEvent = c,
                          !.retx = d]
<1>1. ~("SYN" \in f /\ s.synCount = 0)
  BY FlagsType
<1>2. SendEmptyPacket(s, f) = t
  BY <1>1 DEF SendEmptyPacket, Emit, Fits, Loose
<1>3. flags = g BY FlagsType DEF FIN, FINACK, SYN, SYNACK, ACK
<1>4. f = ACK => ~again BY DEF ACK
<1>5. s.out \in Sent(z) BY DEF Fits, Loose
<1>6. seg.flags = g /\ seg.ack = s.rxNext /\ (s.state = "SYN_RCVD" => seg.seq = s.nextTx)
  <2> HIDE DEF flags, g
  <2> QED BY <1>3
<1>7. \A k \in DOMAIN o : (k \in DOMAIN s.out /\ o[k] = s.out[k]) \/ o[k] = seg
  <2> HIDE DEF seg
  <2> QED BY <1>5 DEF Sent
<1>8. d \in {s.retx, g} /\ (f = ACK => d = s.retx)
  <2> HIDE DEF flags, g, again
  <2> QED BY <1>3, <1>4
<1> HIDE DEF o, a, b, c, d, seg, g
<1>9. /\ t.told = s.told /\ t.state = s.state /\ t.fin = s.fin /\ t.open = s.open
      /\ t.rxNext = s.rxNext /\ t.early = s.early /\ t.nextTx = s.nextTx
      /\ t.timeWaitEvent = s.timeWaitEvent /\ t.retx = d /\ t.out = o
  BY DEF Fits, Loose
<1> HIDE DEF t
<1> QED BY <1>2, <1>6, <1>7, <1>8, <1>9 DEF g

-----------------------------------------------------------------------------
\* The sink resets nobody.

\* It has seen no error, and what it sends are acknowledgements and FINs.
Polite(s, z) ==
  /\ "error" \notin s.told
  /\ s.rxNext > z => s.early = {}
  /\ s.retx # SYNACK
  /\ \A k \in DOMAIN s.out : s.out[k].flags \in {ACK, FINACK}

LEMMA SendEmptyPacketPolite ==
  ASSUME NEW z \in 1..N, NEW s, Fits(s, z), NEW f \in {ACK, FIN, FINACK}, Polite(s, z)
  PROVE  Polite(SendEmptyPacket(s, f), z)
<1> DEFINE t == SendEmptyPacket(s, f)
<1>1. f \notin {SYN, SYNACK} /\ SYNACK # FINACK /\ SYNACK # ACK BY FlagsType
<1>2. CASE s.open
  <2>1. /\ t.told = s.told /\ t.rxNext = s.rxNext /\ t.early = s.early
        /\ t.retx \in {s.retx, ACK, FINACK}
        /\ \A k \in DOMAIN t.out :
             (k \in DOMAIN s.out /\ t.out[k] = s.out[k]) \/ t.out[k].flags \in {ACK, FINACK}
    BY <1>1, <1>2, SendEmptyPacketSays
  <2> HIDE DEF t
  <2> QED BY <1>1, <2>1 DEF Polite, t
<1>3. CASE ~s.open BY <1>3 DEF SendEmptyPacket
<1> QED BY <1>2, <1>3

LEMMA CloseAndNotifyPolite ==
  ASSUME NEW z \in 1..N, NEW s, Fits(s, z), Polite(s, z)
  PROVE  Polite(CloseAndNotify(s), z)
<1>1. NoFlag # SYNACK BY DEF NoFlag, SYNACK
<1> QED BY <1>1, CloseAndNotifySays DEF Polite

\* The close after the FIN of the peer.
LEMMA ClosePolite ==
  ASSUME NEW z \in 1..N, NEW s, Fits(s, z), Polite(s, z), s.state = "CLOSE_WAIT", s.early = {}
  PROVE  Polite(Close(s), z)
<1> DEFINE t == SendEmptyPacket(s, FINACK)
<1>1. Polite([s EXCEPT !.closeOnEmpty = TRUE], z) BY DEF Polite, Fits, Loose
<1>2. Fits(t, z) /\ Polite(t, z)
  BY SendEmptyPacketFits, SendEmptyPacketPolite DEF Retains
<1>3. DoClose(s) = [t EXCEPT !.state = "LAST_ACK"] BY DEF DoClose
<1> HIDE DEF t
<1>4. Polite([t EXCEPT !.state = "LAST_ACK"], z) BY <1>2 DEF Polite, Fits, Loose
<1> QED BY <1>1, <1>3, <1>4 DEF Close

LEMMA DoPeerClosePolite ==
  ASSUME NEW z \in 1..N, NEW s, Fits(s, z), Polite(s, z), s.early = {}
  PROVE  Polite(DoPeerClose(s), z)
<1> DEFINE w == s.told \cup {"normal"}
           waits == [s EXCEPT !.state = "CLOSE_WAIT", !.told = w]
           answer == IF s.shutdownSend THEN Close(waits) ELSE SendEmptyPacket(waits, ACK)
           late == answer.lastAckEvent \/ answer.state = "LAST_ACK"
           t == [answer EXCEPT !.lastAckEvent = late]
<1>1. w \in Calls /\ ("error" \in w => "error" \in s.told) BY DEF Fits, Loose, Calls
<1>2. DoPeerClose(s) = t BY DEF DoPeerClose
<1> HIDE DEF w
<1>3. waits \in Loose(z) BY <1>1 DEF Fits, Loose, State
<1>4. /\ waits.head = s.head /\ waits.txEnd = s.txEnd /\ waits.read = s.read
      /\ waits.rxNext = s.rxNext /\ waits.out = s.out /\ waits.early = s.early
      /\ waits.told = w /\ waits.retx = s.retx /\ waits.state = "CLOSE_WAIT"
  BY DEF Fits, Loose
<1> HIDE DEF waits
<1>5. Fits(waits, z) /\ Polite(waits, z) BY <1>1, <1>3, <1>4 DEF Fits, Clean, Polite
<1>6. Fits(answer, z) /\ Polite(answer, z)
  <2>1. Fits(Close(waits), z) /\ Polite(Close(waits), z)
    BY <1>4, <1>5, CloseFits, ClosePolite DEF Retains
  <2>2. Fits(SendEmptyPacket(waits, ACK), z) /\ Polite(SendEmptyPacket(waits, ACK), z)
    BY <1>5, SendEmptyPacketFits, SendEmptyPacketPolite DEF Retains
  <2> QED BY <2>1, <2>2
<1> HIDE DEF answer, late
<1>7. Polite(t, z) BY <1>6 DEF Polite, Fits, Loose
<1> HIDE DEF t
<1> QED BY <1>2, <1>7


LEMMA BufferedPolite ==
  ASSUME NEW z \in 1..N, NEW s, Fits(s, z), Polite(s, z), NEW m \in Cargo(z),
         ~NothingToBuffer(s, m)
  PROVE  Polite(Buffered(s, m), z)
<1> DEFINE have == s.early \cup {m.seq}
           next == FirstMissing(s, m)
           e == {q \in have : q > next}
           x == IF next = s.fin THEN next + 1 ELSE next
           r == s.read + (next - s.rxNext)
           t == [s EXCEPT !.early = e, !.rxNext = x, !.read = r]
<1>1. Buffered(s, m) = t BY DEF Buffered, FirstMissing
<1>2. have \subseteq 1..z BY DEF Fits, Loose, Pieces, NothingToBuffer, Cargo
<1>3. next \in Nat BY NextFact
<1> HIDE DEF have, next
<1>4. x > z => e = {}
  <2>1. x > z => next >= z BY <1>3
  <2>2. \A q \in have : q \in Int /\ q <= z BY <1>2
  <2>3. next >= z => \A q \in have : ~(q > next) BY <1>3, <2>2
  <2> HIDE DEF x
  <2> QED BY <2>1, <2>3
<1> HIDE DEF e, x, r
<1>5. /\ t.told = s.told /\ t.rxNext = x /\ t.early = e /\ t.retx = s.retx /\ t.out = s.out
  BY DEF Fits, Loose
<1> HIDE DEF t
<1> QED BY <1>1, <1>4, <1>5 DEF Polite

LEMMA SetFinSequencePolite ==
  ASSUME NEW z \in 1..N, NEW s, Fits(s, z), Polite(s, z), NEW f \in Nat,
         s.rxNext = f => f > z
  PROVE  Polite(SetFinSequence(s, f), z)
<1> DEFINE x == IF s.rxNext = f THEN f + 1 ELSE s.rxNext
           t == [s EXCEPT !.fin = f, !.rxNext = x]
<1>1. SetFinSequence(s, f) = t BY DEF SetFinSequence
<1>2. x > z => s.rxNext > z OBVIOUS
<1> HIDE DEF x
<1>3. /\ t.told = s.told /\ t.rxNext = x /\ t.early = s.early /\ t.retx = s.retx
      /\ t.out = s.out
  BY DEF Fits, Loose
<1> HIDE DEF t
<1> QED BY <1>1, <1>2, <1>3 DEF Polite

\* Behind a FIN that is complete nothing is left.
LEMMA FinishedEmpty ==
  ASSUME NEW z \in 1..N, NEW s, Fits(s, z), Polite(s, z), Reader(s, z), Finished(s)
  PROVE  s.early = {}
<1>1. s.fin \in Int /\ s.rxNext \in Nat BY DEF Fits, Loose
<1>2. s.fin >= z BY <1>1 DEF Reader, Finished
<1> QED BY <1>1, <1>2 DEF Finished, Polite

LEMMA ReceivedDataPolite ==
  ASSUME NEW z \in 1..N, NEW s, Fits(s, z), Polite(s, z), Reader(s, z),
         NEW m \in Cargo(z), m.len > 0
  PROVE  Polite(ReceivedData(s, m), z)
<1>1. CASE NothingToBuffer(s, m)
  <2>1. ReceivedData(s, m) = SendEmptyPacket(s, ACK) BY <1>1 DEF ReceivedData
  <2> QED BY <2>1, SendEmptyPacketPolite
<1>2. CASE ~NothingToBuffer(s, m)
  <2> DEFINE r == Buffered(s, m)
             d == r.delAck + 1
             u == [r EXCEPT !.delAck = @ + 1, !.delAckEvent = TRUE]
  <2>1. Fits(r, z) /\ Reader(r, z) BY <1>2, BufferedFits DEF Gains
  <2>2. Polite(r, z) BY <1>2, BufferedPolite
  <2>3. \/ ReceivedData(s, m) \in {u, SendEmptyPacket(r, ACK)}
        \/ Finished(r) /\ ReceivedData(s, m) = DoPeerClose(r)
    BY <1>2 DEF ReceivedData
  <2> HIDE DEF r
  <2>4. Polite(u, z)
    <3>1. d \in Int BY <2>1 DEF Fits, Loose
    <3>2. u = [r EXCEPT !.delAck = d, !.delAckEvent = TRUE] OBVIOUS
    <3> HIDE DEF d, u
    <3> QED BY <2>1, <2>2, <3>1, <3>2 DEF Fits, Loose, Polite
  <2> HIDE DEF u
  <2>5. Polite(SendEmptyPacket(r, ACK), z) BY <2>1, <2>2, SendEmptyPacketPolite
  <2>6. Finished(r) => Polite(DoPeerClose(r), z)
    BY <2>1, <2>2, FinishedEmpty, DoPeerClosePolite
  <2> QED BY <2>3, <2>4, <2>5, <2>6
<1> QED BY <1>1, <1>2

LEMMA AckedPolite ==
  ASSUME NEW z \in 1..N, NEW s, Fits(s, z), Polite(s, z), NEW a \in Nat
  PROVE  Polite(ProcessAck(DiscardUpTo(s, a), a, s.head), z)
<1> DEFINE h == Larger(s.head, a)
           u == {q \in s.unsent : q >= a}
           d == DiscardUpTo(s, a)
           t == ProcessAck(d, a, s.head)
<1>1. Fits(d, z) BY DiscardUpToFits DEF Retains
<1>2. /\ d.told = s.told /\ d.rxNext = s.rxNext /\ d.early = s.early /\ d.out = s.out
      /\ d.retx = s.retx
  BY DEF DiscardUpTo, Fits, Loose
<1> HIDE DEF d
<1>3. /\ t.told = d.told /\ t.rxNext = d.rxNext /\ t.early = d.early /\ t.out = d.out
      /\ t.retx \in {d.retx, RTO, NoFlag}
  <2> DEFINE restarted == IF d.state = "SYN_RCVD" THEN d.retx ELSE RTO
             idle == TxSize(d) = 0 /\ d.state \notin {"FIN_WAIT_1", "CLOSING"}
             n == Larger(d.nextTx, a)
             r == IF idle THEN NoFlag ELSE restarted
             v == IF a < d.recover THEN d.recover ELSE 0
             x == [d EXCEPT !.dataRetr = DataRetries, !.nextTx = n, !.retx = r,
                            !.window = N, !.recover = v]
             y == [d EXCEPT !.nextTx = a]
  <2>1. t \in {d, x, y} BY DEF ProcessAck, NewAck
  <2>2. r \in {d.retx, RTO, NoFlag} OBVIOUS
  <2> HIDE DEF n, r, v, t
  <2>3. /\ x.told = d.told /\ x.rxNext = d.rxNext /\ x.early = d.early /\ x.out = d.out
        /\ x.retx = r
    BY <1>1 DEF Fits, Loose
  <2>4. /\ y.told = d.told /\ y.rxNext = d.rxNext /\ y.early = d.early /\ y.out = d.out
        /\ y.retx = d.retx
    BY <1>1 DEF Fits, Loose
  <2> HIDE DEF x, y
  <2> QED BY <2>1, <2>2, <2>3, <2>4
<1> HIDE DEF t
<1>4. RTO # SYNACK /\ NoFlag # SYNACK
  <2>1. "SYN" \notin RTO /\ "SYN" \notin NoFlag /\ "SYN" \in SYNACK BY DEF RTO, NoFlag, SYNACK
  <2> QED BY <2>1
<1> QED BY <1>2, <1>3, <1>4 DEF Polite, t, d

LEMMA ReceivedAckPolite ==
  ASSUME NEW z \in 1..N, NEW s, Fits(s, z), Polite(s, z), Reader(s, z), Mute(s),
         NEW m \in Cargo(z)
  PROVE  Polite(ReceivedAck(s, m), z)
<1> DEFINE d == DiscardUpTo(s, m.ack)
           acked == ProcessAck(d, m.ack, s.head)
           filled == IF m.len > 0 THEN ReceivedData(acked, m) ELSE acked
<1>1. m.ack \in Nat BY DEF Cargo
<1>2. Retains(s, acked, z)
  <2>1. Retains(s, d, z) BY <1>1, DiscardUpToFits
  <2> HIDE DEF d
  <2>2. Retains(d, acked, z) BY <1>1, <2>1, ProcessAckFits DEF Retains
  <2> HIDE DEF acked
  <2> QED BY <2>1, <2>2, RetainsTrans
<1>3. Polite(acked, z) BY <1>1, AckedPolite
<1>4. Mute(acked) BY <1>1, AckedHears DEF Hears
<1>5. ReceivedAck(s, m) = SendPendingData(filled) BY ReceivedAckIs
<1> HIDE DEF d, acked
<1>6. Fits(acked, z) /\ Reader(acked, z) BY <1>2, RetainsReader DEF Retains
<1>7. acked.rxNext >= 1 BY <1>6 DEF Reader
<1>8. Polite(filled, z) /\ Mute(filled) /\ Fits(filled, z)
  <2>1. CASE m.len > 0
    <3>1. filled = ReceivedData(acked, m) BY <2>1
    <3> HIDE DEF filled
    <3>2. Fits(filled, z) BY <1>6, <2>1, <3>1, ReceivedDataFits DEF Gains
    <3>3. Polite(filled, z) BY <1>3, <1>6, <2>1, <3>1, ReceivedDataPolite
    <3>4. Mute(filled) BY <1>4, <1>6, <1>7, <2>1, <3>1, ReceivedDataHears DEF Hears
    <3> QED BY <3>2, <3>3, <3>4
  <2>2. CASE ~(m.len > 0) BY <1>3, <1>4, <1>6, <2>2
  <2> QED BY <2>1, <2>2
<1> HIDE DEF filled
<1> QED BY <1>5, <1>8, MuteSends

LEMMA PeerClosePolite ==
  ASSUME NEW z \in 1..N, NEW s, Fits(s, z), Polite(s, z), Reader(s, z), NEW m \in Cargo(z),
         "FIN" \in m.flags, FinLast(m, z)
  PROVE  Polite(PeerClose(s, m), z)
<1> DEFINE f == m.seq + m.len
           marked == SetFinSequence(s, f)
           filled == IF m.len > 0 THEN ReceivedData(marked, m) ELSE marked
           turned == [filled EXCEPT !.state = "CLOSING"]
<1>1. \/ PeerClose(s, m) \in {s, filled, turned}
      \/ Finished(filled) /\ PeerClose(s, m) = DoPeerClose(filled)
  BY DEF PeerClose
<1>2. f \in Nat /\ f > z BY DEF Cargo, FinLast
<1> HIDE DEF f
<1>3. Fits(marked, z) /\ Reader(marked, z) /\ Polite(marked, z)
  BY <1>2, SetFinSequenceFits, SetFinSequencePolite DEF Gains
<1> HIDE DEF marked
<1>4. Fits(filled, z) /\ Reader(filled, z) /\ Polite(filled, z)
  <2>1. CASE m.len > 0
    <3>1. filled = ReceivedData(marked, m) BY <2>1
    <3> HIDE DEF filled
    <3> QED BY <1>3, <2>1, <3>1, ReceivedDataFits, ReceivedDataPolite DEF Gains
  <2>2. CASE ~(m.len > 0) BY <1>3, <2>2
  <2> QED BY <2>1, <2>2
<1> HIDE DEF filled
<1>5. Polite(turned, z) BY <1>4 DEF Polite, Fits, Loose
<1>6. Finished(filled) => Polite(DoPeerClose(filled), z)
  BY <1>4, FinishedEmpty, DoPeerClosePolite
<1> HIDE DEF turned
<1> QED BY <1>1, <1>4, <1>5, <1>6

\* What a sink that listens may be sent.
Kind(m) == m.flags \in {SYN, ACK, FINACK, RST}

LEMMA KindFlags ==
  /\ SYN # ACK /\ SYN # FINACK /\ SYN # RST /\ ACK # FINACK /\ ACK # RST /\ FINACK # RST
  /\ SYNACK # SYN /\ SYNACK # ACK /\ SYNACK # FINACK /\ SYNACK # RST
  /\ "FIN" \in FINACK /\ "FIN" \notin ACK /\ "FIN" \notin SYNACK
  /\ "RST" \in RST /\ "RST" \notin ACK /\ "RST" \notin FINACK /\ "RST" \notin SYNACK
  /\ "RST" \notin SYN /\ "ACK" \in ACK /\ "ACK" \in SYNACK /\ "ACK" \in FINACK
BY DEF SYN, ACK, FINACK, RST, SYNACK

LEMMA ProcessEstablishedPolite ==
  ASSUME NEW z \in 1..N, NEW s, Fits(s, z), Polite(s, z), Reader(s, z), Mute(s),
         NEW m \in Cargo(z), Kind(m), FinLast(m, z)
  PROVE  Polite(ProcessEstablished(s, m), z)
<1>1. Polite(SendEmptyPacket(s, ACK), z) BY SendEmptyPacketPolite
<1>2. Polite(ReceivedAck(s, m), z) BY ReceivedAckPolite
<1>3. m.flags = FINACK => Polite(PeerClose(s, m), z) BY KindFlags, PeerClosePolite
<1>4. m.flags = RST => Polite(Refuse(s, m), z) BY CloseAndNotifyPolite DEF Refuse
<1> QED BY <1>1, <1>2, <1>3, <1>4, KindFlags DEF ProcessEstablished, Kind

LEMMA ProcessWaitPolite ==
  ASSUME NEW z \in 1..N, NEW s, Fits(s, z), Polite(s, z), Reader(s, z), Mute(s),
         Receiver(s, z), s.state = "CLOSE_WAIT", NEW m \in Cargo(z), Kind(m)
  PROVE  Polite(ProcessWait(s, m), z)
<1> DEFINE r == ReceivedAck(s, m)
           w == Waited(s, m)
<1>1. w = IF m.flags = FINACK THEN SetFinSequence(r, m.seq)
          ELSE IF r.state = "FIN_WAIT_1" /\ TxSize(r) = 0 /\ m.ack = r.highTx + 1
               THEN [r EXCEPT !.state = "FIN_WAIT_2"]
          ELSE r
  BY DEF Waited, Then
<1>2. Gains(s, r, z) BY ReceivedAckFits
<1>3. Receiver(r, z) /\ Polite(r, z) BY ReceivedAckReceiver, ReceivedAckPolite
<1>4. m.seq \in Nat BY DEF Cargo
<1>5. r.rxNext > z
  <2>1. s.read = z BY DEF Reader, Late
  <2>2. s.rxNext > z BY <2>1 DEF Fits
  <2>3. r.rxNext \in Nat /\ s.rxNext \in Nat BY <1>2 DEF Gains, Fits, Loose
  <2> QED BY <1>2, <2>2, <2>3 DEF Gains
<1> HIDE DEF r
<1>6. Polite(w, z) /\ Receiver(w, z)
  <2>1. w \in {r, SetFinSequence(r, m.seq)} BY <1>1, <1>3 DEF Receiver
  <2>2. Fits(r, z) BY <1>2 DEF Gains
  <2> QED BY <1>3, <1>4, <1>5, <2>1, <2>2, SetFinSequenceReceiver, SetFinSequencePolite
<1>7. FinComplete(w, m) = w BY <1>6 DEF FinComplete, Receiver
<1>8. Then(w, LAMBDA x : FinComplete(x, m)) = FinComplete(w, m) BY DEF Then
<1>9. m.flags = RST => Polite(Refuse(s, m), z) BY CloseAndNotifyPolite DEF Refuse
<1> HIDE DEF w
<1> QED BY <1>6, <1>7, <1>8, <1>9, KindFlags DEF ProcessWait, w, Kind


\* A socket that waits for the acknowledgement of its SYN|ACK.
Young(s) ==
  /\ s.open /\ s.nextTx = 0 /\ s.rxNext = 1 /\ "error" \notin s.told
  /\ \A k \in DOMAIN s.out :
       /\ s.out[k].flags \in {ACK, SYNACK}
       /\ s.out[k].flags = SYNACK => s.out[k].seq = 0 /\ s.out[k].ack = 1

Answers(s, z) == IF s.state = "SYN_RCVD" THEN Young(s) ELSE Polite(s, z)

LEMMA YoungCloses ==
  ASSUME NEW z \in 1..N, NEW s, Fits(s, z), Young(s), s.out = <<>>
  PROVE  Answers(CloseAndNotify(s), z)
<1> DEFINE t == CloseAndNotify(s)
<1>1. /\ t.told = s.told \cup {"normal"} /\ t.state = "CLOSED" /\ t.rxNext = 1
      /\ t.out = <<>> /\ t.retx = NoFlag
  BY CloseAndNotifySays DEF Young
<1>2. NoFlag # SYNACK BY DEF NoFlag, SYNACK
<1>3. z \in Nat /\ z >= 1 OBVIOUS
<1>4. t.rxNext > z => t.early = {} BY <1>1, <1>3
<1> HIDE DEF t
<1>5. "error" \notin t.told BY <1>1 DEF Young
<1> QED BY <1>1, <1>2, <1>4, <1>5 DEF Answers, Polite, t

LEMMA YoungSends ==
  ASSUME NEW z \in 1..N, NEW s, Fits(s, z), Young(s), s.out = <<>>, s.state = "SYN_RCVD",
         NEW f \in {ACK, SYNACK}
  PROVE  Answers(SendEmptyPacket(s, f), z)
<1> DEFINE t == SendEmptyPacket(s, f)
<1>1. s.open BY DEF Young
<1>2. CASE f = SYNACK /\ s.synCount = 0
  <2>1. t = CloseAndNotify(s) BY <1>1, <1>2, FlagsType DEF SendEmptyPacket
  <2> QED BY <2>1, YoungCloses
<1>3. CASE f = SYNACK => s.synCount # 0
  <2>1. f \notin {SYN, FIN, FINACK} BY FlagsType
  <2>2. /\ t.told = s.told /\ t.state = "SYN_RCVD" /\ t.open /\ t.rxNext = s.rxNext
        /\ t.nextTx = s.nextTx
        /\ \A k \in DOMAIN t.out :
             t.out[k].flags = f /\ t.out[k].ack = s.rxNext /\ t.out[k].seq = s.nextTx
    BY <1>1, <1>3, <2>1, SendEmptyPacketSays
  <2> HIDE DEF t
  <2> QED BY <2>2 DEF Answers, Young, t
<1> QED BY <1>2, <1>3

LEMMA ProcessSynRcvdAnswers ==
  ASSUME NEW z \in 1..N, NEW s, Fits(s, z), Calm(s), Forked(s), s.out = <<>>,
         s.state = "SYN_RCVD", Young(s), Reader(s, z), NEW m \in Cargo(z), Kind(m),
         FinLast(m, z), m.flags = SYN => m.seq = 0, m.flags = ACK => m.ack = 1
  PROVE  Answers(ProcessSynRcvd(s, m), z)
<1> DEFINE up == Accepted(s)
           est == [up EXCEPT !.state = "ESTABLISHED", !.delAck = DelAckMax]
           again == [s EXCEPT !.rxNext = m.seq + 1]
<1>1. \/ ProcessSynRcvd(s, m) = s
      \/ ProcessSynRcvd(s, m) = ReceivedAck(est, m)
      \/ m.flags = RST /\ ProcessSynRcvd(s, m) = CloseAndNotify(s)
      \/ m.flags = SYN /\ ProcessSynRcvd(s, m) = SendEmptyPacket(again, SYNACK)
      \/ m.flags = FINACK /\ m.seq = s.rxNext /\ ProcessSynRcvd(s, m) = PeerClose(up, m)
  <2>1. m.flags = ACK => m.ack = s.nextTx + 1 BY DEF Young
  <2> QED BY <2>1, KindFlags DEF ProcessSynRcvd, Accepted, Refuse, Kind
<1>2. /\ Fits(up, z) /\ up.early = {} /\ up.fin = NoFin
      /\ up.rxNext = s.rxNext /\ up.read = s.read /\ up.state = s.state
  BY AcceptedFits
<1>3. /\ up.told = s.told /\ up.out = <<>> /\ up.retx = NoFlag /\ up.txEnd = up.head
      /\ up.head \in Nat
  <2> DEFINE k == s.nextTx + 1
             c == s.accepted + 1
             t == [s EXCEPT !.retx = NoFlag, !.nextTx = k, !.highTx = k, !.accepted = c,
                            !.head = k, !.txEnd = k]
  <2>1. up = t BY DEF Accepted, SetHeadSequence, Fits, Loose
  <2>2. k \in Nat BY DEF Fits, Loose
  <2> HIDE DEF k, c, up
  <2>3. /\ t.told = s.told /\ t.out = s.out /\ t.retx = NoFlag /\ t.txEnd = k /\ t.head = k
    BY DEF Fits, Loose
  <2> QED BY <2>1, <2>2, <2>3
<1>4. Reader(up, z) BY <1>2 DEF Reader, Forked, Late
<1>5. NoFlag # SYNACK BY DEF NoFlag, SYNACK
<1> HIDE DEF up
<1>6. Polite(up, z) BY <1>2, <1>3, <1>5 DEF Polite, Young
<1>7. m.flags = FINACK /\ m.seq = s.rxNext => Answers(PeerClose(up, m), z)
  BY <1>2, <1>4, <1>6, KindFlags, PeerClosePolite, PeerCloseFits DEF Answers
<1>8. Answers(ReceivedAck(est, m), z)
  <2>1. est \in Loose(z) BY <1>2, ConstantsType DEF Fits, Loose, State
  <2>2. /\ est.head = up.head /\ est.txEnd = up.txEnd /\ est.read = up.read
        /\ est.rxNext = up.rxNext /\ est.early = up.early /\ est.fin = up.fin
        /\ est.state = "ESTABLISHED" /\ est.out = up.out /\ est.retx = up.retx
        /\ est.told = up.told
    BY <1>2 DEF Fits, Loose
  <2> HIDE DEF est
  <2>3. Fits(est, z) BY <1>2, <2>1, <2>2 DEF Fits, Clean
  <2>4. Reader(est, z) BY <1>4, <2>2 DEF Reader, Late
  <2>5. Polite(est, z) BY <1>6, <2>2 DEF Polite
  <2>6. Mute(est) BY <1>3, <2>2 DEF Mute
  <2>7. Polite(ReceivedAck(est, m), z) BY <2>3, <2>4, <2>5, <2>6, ReceivedAckPolite
  <2>8. Gains(est, ReceivedAck(est, m), z) BY <2>3, ReceivedAckFits
  <2> QED BY <2>2, <2>7, <2>8 DEF Answers, Gains
<1>9. m.flags = SYN => Answers(SendEmptyPacket(again, SYNACK), z)
  <2> SUFFICES ASSUME m.flags = SYN PROVE Answers(SendEmptyPacket(again, SYNACK), z)
    OBVIOUS
  <2>1. again = s
    <3>1. m.seq + 1 = s.rxNext BY DEF Young
    <3>2. ASSUME NEW n, n = s.rxNext PROVE [s EXCEPT !.rxNext = n] = s
      BY <3>2 DEF Fits, Loose
    <3> QED BY <3>1, <3>2
  <2> QED BY <2>1, YoungSends
<1>10. Answers(s, z) /\ Answers(CloseAndNotify(s), z) BY YoungCloses DEF Answers
<1> HIDE DEF est, again
<1> QED BY <1>1, <1>7, <1>8, <1>9, <1>10

LEMMA ListenAnswers ==
  ASSUME NEW z \in 1..N, NEW s, Fits(s, z), Answers(s, z), NEW m \in Cargo(z),
         m.flags = SYN => m.seq = 0 /\ s.read = 0
  PROVE  Answers(ProcessListen(s, m), z)
<1>1. CASE m.flags # SYN BY <1>1 DEF ProcessListen
<1>2. CASE m.flags = SYN
  <2> DEFINE n == m.seq + 1
             u == [Unused EXCEPT !.state = "SYN_RCVD", !.open = TRUE, !.rxNext = n,
                     !.closeOnEmpty = TRUE, !.shutdownSend = TRUE,
                     !.accepted = s.accepted, !.read = s.read]
  <2>1. ProcessListen(s, m) = SendEmptyPacket(u, SYNACK) BY <1>2 DEF ProcessListen
  <2>2. n = 1 BY <1>2
  <2> HIDE DEF n
  <2>3. /\ u.state = "SYN_RCVD" /\ u.rxNext = 1 /\ u.read = 0 /\ u.open /\ u.nextTx = 0
        /\ u.head = 0 /\ u.txEnd = 0 /\ u.out = <<>> /\ u.told = {}
    BY <1>2, <2>2 DEF Unused
  <2>4. u \in Loose(z)
    <3>1. Unused \in Loose(z) BY UnusedFits
    <3>2. ASSUME NEW v \in Loose(z), NEW a \in {0, 1}, NEW r \in Upto(z), NEW w \in Nat
          PROVE  [v EXCEPT !.state = "SYN_RCVD", !.open = TRUE, !.rxNext = w,
                    !.closeOnEmpty = TRUE, !.shutdownSend = TRUE,
                    !.accepted = a, !.read = r] \in Loose(z)
      BY <3>2 DEF Loose, State
    <3>3. s.accepted \in {0, 1} /\ s.read \in Upto(z) /\ n \in Nat
      BY <2>2 DEF Fits, Loose
    <3> QED BY <3>1, <3>2, <3>3
  <2> HIDE DEF u
  <2>5. Fits(u, z) /\ Young(u) BY <2>3, <2>4 DEF Fits, Clean, Young
  <2> QED BY <2>1, <2>3, <2>5, YoungSends
<1> QED BY <1>1, <1>2

\* Every segment, for the sink as long as it listens.
LEMMA ServerTakenAnswers ==
  ASSUME NEW z \in 1..N, listening, NEW s, Fits(s, z), Calm(s), s.out = <<>>, Mute(s),
         s.state = "SYN_RCVD" => Forked(s), Receiver(s, z), s.open => Reader(s, z),
         Answers(s, z), NEW m \in Cargo(z), Kind(m), FinLast(m, z),
         m.flags = SYN => m.seq = 0 /\ s.read = 0,
         s.state = "SYN_RCVD" /\ m.flags = ACK => m.ack = 1
  PROVE  Answers(Taken("server", s, m), z)
<1>1. CASE ~s.open
  <2>1. Taken("server", s, m) = ProcessListen(s, m) BY <1>1 DEF Taken
  <2> QED BY <2>1, ListenAnswers
<1>2. CASE s.open /\ s.state = "SYN_RCVD"
  <2>1. Answers(ProcessSynRcvd(s, m), z)
    BY <1>2, ProcessSynRcvdAnswers DEF Answers
  <2>2. Taken("server", s, m) = ProcessSynRcvd(s, m)
    BY <1>2 DEF Taken, Handled, ProcessInState, OutOfRange
  <2> QED BY <2>1, <2>2
<1>3. CASE s.open /\ s.state # "SYN_RCVD"
  <2>1. Polite(s, z) /\ Reader(s, z) BY <1>3 DEF Answers
  <2> DEFINE t == Handled(s, m)
  <2>2. Polite(t, z)
    <3>1. Polite(SendEmptyPacket(s, ACK), z) BY <2>1, SendEmptyPacketPolite
    <3>2. Polite(ProcessEstablished(s, m), z) BY <2>1, ProcessEstablishedPolite
    <3>3. s.state = "CLOSE_WAIT" => Polite(ProcessWait(s, m), z) BY <2>1, ProcessWaitPolite
    <3>4. s.state = "LAST_ACK" => Polite(ProcessLastAck(s, m), z)
      <4> SUFFICES ASSUME s.state = "LAST_ACK" PROVE Polite(ProcessLastAck(s, m), z) OBVIOUS
      <4>1. s.read = z BY <2>1 DEF Reader, Late
      <4>2. m.flags # SYN BY <4>1
      <4>3. ProcessLastAck(s, m) \in {s, CloseAndNotify(s)}
        BY <4>2, KindFlags DEF ProcessLastAck, Kind, Refuse
      <4> QED BY <2>1, <4>3, CloseAndNotifyPolite
    <3> QED
      BY <1>3, <2>1, <3>1, <3>2, <3>3, <3>4 DEF Handled, ProcessInState, Calm, Receiver
  <2>3. Gains(s, t, z) BY <1>3, HandledFits DEF Advances, Calm
  <2>4. Taken("server", s, m) = t BY <1>3 DEF Taken
  <2> HIDE DEF t
  <2> QED BY <1>3, <2>2, <2>3, <2>4 DEF Answers, Gains
<1> QED BY <1>1, <1>2, <1>3

LEMMA ServerReceiveAnswers ==
  ASSUME NEW z \in 1..N, listening, NEW s, Fits(s, z), Calm(s), s.out = <<>>, Mute(s),
         s.state = "SYN_RCVD" => Forked(s), Receiver(s, z), s.open => Reader(s, z),
         Answers(s, z), NEW m \in Cargo(z), Kind(m), FinLast(m, z),
         m.flags = SYN => m.seq = 0 /\ s.read = 0,
         s.state = "SYN_RCVD" /\ m.flags = ACK => m.ack = 1
  PROVE  Answers(Receive("server", s, m), z)
<1>1. s \in Loose(z) BY DEF Fits
<1>2. PICK r \in Windowed(s) : Receive("server", s, m) = Taken("server", r, m)
  BY <1>1, ReceiveTaken
<1>3. /\ Fits(r, z) /\ r.out = <<>> /\ Calm(r) /\ Mute(r) /\ Receiver(r, z)
      /\ r.state = "SYN_RCVD" => Forked(r)
      /\ r.open => Reader(r, z)
      /\ Answers(r, z)
      /\ m.flags = SYN => m.seq = 0 /\ r.read = 0
      /\ r.state = "SYN_RCVD" /\ m.flags = ACK => m.ack = 1
  BY <1>1, <1>2, WindowedFacts, WindowedFits DEF Mute, Receiver, Reader, Answers, Young, Polite
<1>4. Answers(Taken("server", r, m), z) BY <1>3, ServerTakenAnswers
<1> QED BY <1>1, <1>2, <1>4, WindowedFacts DEF Answers

\* The timers of the sink.
LEMMA ServerFires ==
  ASSUME NEW z \in 1..N, NEW s, Fits(s, z), Calm(s), Mute(s), Receiver(s, z), Answers(s, z),
         s.state = "SYN_RCVD" => Forked(s), s.out = <<>>, s.retx # NoFlag
  PROVE  Answers(FireRetx(s), z)
<1> DEFINE fired == [s EXCEPT !.retx = NoFlag]
<1>1. NoFlag \in Events /\ NoFlag # SYNACK BY DEF Events, NoFlag, SYNACK
<1>2. /\ Fits(fired, z) /\ fired.state = s.state /\ fired.out = <<>> /\ Mute(fired)
      /\ Answers(fired, z)
  BY <1>1 DEF Fits, Loose, Clean, Mute, Answers, Young, Polite
<1>3. s.retx = RTO \/ s.retx \in {SYNACK, FINACK}
  BY DEF Fits, Loose, Events, Calm
<1>4. FireRetx(s) = IF s.retx = RTO THEN ReTxTimeout(fired) ELSE SendEmptyPacket(fired, s.retx)
  BY DEF FireRetx
<1> HIDE DEF fired
<1>5. ReTxTimeout(fired) = fired
  BY <1>2, MuteSends DEF ReTxTimeout, Calm, Receiver
<1>6. s.retx = SYNACK => Answers(SendEmptyPacket(fired, SYNACK), z)
  BY <1>2, YoungSends DEF Answers, Polite
<1>7. s.retx = FINACK => Answers(SendEmptyPacket(fired, FINACK), z)
  <2>1. CASE s.state = "SYN_RCVD" BY <2>1 DEF Receiver, Forked
  <2>2. CASE s.state # "SYN_RCVD"
    <3>1. Retains(fired, SendEmptyPacket(fired, FINACK), z) /\ Polite(fired, z)
      BY <1>2, <2>2, SendEmptyPacketFits DEF Answers
    <3> QED BY <1>2, <2>2, <3>1, SendEmptyPacketPolite DEF Answers, Retains, Kept
  <2> QED BY <2>1, <2>2
<1> QED BY <1>2, <1>3, <1>4, <1>5, <1>6, <1>7


-----------------------------------------------------------------------------
\* The client resets nobody.

\* What it has told its application, and what it may send: as long as it has
\* no FIN it has received nothing, and a reset comes from one that is closed.
Caller(s) ==
  /\ ~({"error", "normal"} \subseteq s.told)
  /\ s.state \notin {"CLOSE_WAIT", "LAST_ACK"}
  /\ s.retx # SYNACK
  /\ s.open => /\ "error" \notin s.told
               /\ "normal" \in s.told => s.state = "TIME_WAIT"
               /\ s.state # "SYN_SENT" /\ s.fin = NoFin => s.rxNext = 1
  /\ ~s.open => s.retx = NoFlag /\ ~s.timeWaitEvent
  /\ \A k \in DOMAIN s.out :
       /\ s.out[k].flags \in {SYN, ACK, FINACK, RST}
       /\ s.out[k].flags = RST => ~s.open
       /\ s.out[k].flags \in {ACK, FINACK} /\ s.fin = NoFin => s.out[k].ack = 1

Talks(s) == Caller(s) /\ s.open /\ s.state # "SYN_SENT"
TalksOn(s, t) == Talks(t) /\ (s.fin # NoFin => t.fin # NoFin)
\* t may be closed.
Speaks(s, t) == Caller(t) /\ (t.open => s.open) /\ (s.fin # NoFin => t.fin # NoFin)

LEMMA TalksSpeaks ==
  ASSUME NEW s, NEW t, s.open, TalksOn(s, t)
  PROVE  Speaks(s, t)
BY DEF TalksOn, Talks, Speaks

LEMMA SpeaksSelf == ASSUME NEW s, Caller(s) PROVE Speaks(s, s)
BY DEF Speaks

LEMMA RetxFlags == RTO # SYNACK /\ NoFlag # SYNACK /\ RTO # NoFlag
<1>1. "SYN" \notin RTO /\ "SYN" \notin NoFlag /\ "SYN" \in SYNACK /\ "RTO" \in RTO
      /\ "RTO" \notin NoFlag
  BY DEF RTO, NoFlag, SYNACK
<1> QED BY <1>1

LEMMA SendEmptyPacketTalks ==
  ASSUME NEW z \in 1..N, NEW s, Fits(s, z), Talks(s), NEW f \in {ACK, FIN, FINACK}
  PROVE  LET t == SendEmptyPacket(s, f)
         IN  TalksOn(s, t) /\ t.state = s.state /\ t.fin = s.fin
<1> DEFINE t == SendEmptyPacket(s, f)
           g == IF f \in {FIN, FINACK} THEN FINACK ELSE f
<1>1. f \notin {SYN, SYNACK} /\ g \in {ACK, FINACK} BY FlagsType
<1>2. s.open BY DEF Talks
<1>3. /\ t.told = s.told /\ t.state = s.state /\ t.fin = s.fin /\ t.open
      /\ t.rxNext = s.rxNext /\ t.timeWaitEvent = s.timeWaitEvent
      /\ t.retx \in {s.retx, g}
      /\ \A k \in DOMAIN t.out :
           \/ k \in DOMAIN s.out /\ t.out[k] = s.out[k]
           \/ t.out[k].flags = g /\ t.out[k].ack = s.rxNext
  BY <1>1, <1>2, SendEmptyPacketSays
<1> HIDE DEF t, g
<1>4. \A k \in DOMAIN t.out :
        /\ t.out[k].flags \in {SYN, ACK, FINACK, RST}
        /\ t.out[k].flags = RST => ~t.open
        /\ t.out[k].flags \in {ACK, FINACK} /\ t.fin = NoFin => t.out[k].ack = 1
  <2> SUFFICES ASSUME NEW k \in DOMAIN t.out
               PROVE  /\ t.out[k].flags \in {SYN, ACK, FINACK, RST}
                      /\ t.out[k].flags = RST => ~t.open
                      /\ t.out[k].flags \in {ACK, FINACK} /\ t.fin = NoFin => t.out[k].ack = 1
    OBVIOUS
  <2>1. CASE k \in DOMAIN s.out /\ t.out[k] = s.out[k]
    BY <1>2, <1>3, <2>1 DEF Talks, Caller
  <2>2. CASE t.out[k].flags = g /\ t.out[k].ack = s.rxNext
    BY <1>1, <1>2, <1>3, <2>2, KindFlags DEF Talks, Caller
  <2> QED BY <1>3, <2>1, <2>2
<1>5. t.retx # SYNACK BY <1>1, <1>3, FlagsType, KindFlags DEF Talks, Caller
<1> QED BY <1>2, <1>3, <1>4, <1>5 DEF TalksOn, Talks, Caller, t

LEMMA CloseAndNotifySpeaks ==
  ASSUME NEW z \in 1..N, NEW s, Fits(s, z), Caller(s), s.open
  PROVE  Speaks(s, CloseAndNotify(s)) /\ ~CloseAndNotify(s).open
<1> DEFINE t == CloseAndNotify(s)
<1>1. /\ t.told = s.told \cup {"normal"} /\ t.state = "CLOSED" /\ t.fin = s.fin
      /\ t.out = s.out /\ ~t.open /\ t.retx = NoFlag /\ ~t.timeWaitEvent
  BY CloseAndNotifySays
<1> HIDE DEF t
<1>2. ~({"error", "normal"} \subseteq t.told) BY <1>1 DEF Caller
<1> QED BY <1>1, <1>2, RetxFlags DEF Speaks, Caller, t

LEMMA TimeWaitTalks ==
  ASSUME NEW z \in 1..N, NEW s, Fits(s, z), Talks(s)
  PROVE  TalksOn(s, TimeWait(s))
<1> DEFINE c == CancelAllTimers(s)
           w == c.told \cup {"normal"}
           t == [c EXCEPT !.state = "TIME_WAIT", !.told = w, !.timeWaitEvent = TRUE]
<1>1. TimeWait(s) = t BY DEF TimeWait
<1>2. c \in Loose(z) BY CancelFits DEF Retains, Fits
<1>3. /\ c.open = s.open /\ c.told = s.told /\ c.fin = s.fin /\ c.rxNext = s.rxNext
      /\ c.out = s.out /\ c.retx = NoFlag
  BY <1>2 DEF CancelAllTimers, Fits, Loose
<1>4. "error" \notin w BY <1>3 DEF Talks, Caller
<1> HIDE DEF c, w
<1>5. /\ t.open = s.open /\ t.told = w /\ t.fin = s.fin /\ t.rxNext = s.rxNext
      /\ t.out = s.out /\ t.retx = NoFlag /\ t.state = "TIME_WAIT"
  BY <1>2, <1>3 DEF Loose
<1> HIDE DEF t
<1> QED BY <1>1, <1>4, <1>5, RetxFlags DEF TalksOn, Talks, Caller

LEMMA SendDataPacketTalks ==
  ASSUME NEW z \in 1..N, NEW s, Fits(s, z), Talks(s), NEW q \in 1..z
  PROVE  TalksOn(s, SendDataPacket(s, q))
<1> DEFINE fin == s.closeOnEmpty /\ q + 1 >= s.txEnd
           x == CASE fin /\ s.state = "ESTABLISHED" -> "FIN_WAIT_1"
                  [] fin /\ s.state = "CLOSE_WAIT" -> "LAST_ACK"
                  [] OTHER -> s.state
           flags == IF fin THEN FINACK ELSE ACK
           seg == [flags |-> flags, seq |-> q, ack |-> s.rxNext, len |-> 1]
           o == Append(s.out, seg)
           r == IF s.retx = NoFlag THEN RTO ELSE s.retx
           u == s.unsent \ {q}
           n == q + 1
           h == Larger(s.highTx, n)
           none == 0
           t == [s EXCEPT !.state = x, !.out = o, !.delAck = none, !.delAckEvent = FALSE,
                          !.retx = r, !.unsent = u, !.nextTx = n, !.highTx = h]
<1>1. SendDataPacket(s, q) = t
  BY DEF SendDataPacket, Emit, Fits, Loose
<1>2. s.open /\ Caller(s) /\ s.state \notin {"SYN_SENT", "CLOSE_WAIT"} BY DEF Talks, Caller
<1>3. x \in {s.state, "FIN_WAIT_1"} /\ (x # s.state => s.state = "ESTABLISHED") BY <1>2
<1>4. r # SYNACK BY <1>2, RetxFlags DEF Caller
<1>5. s.out \in Sent(z) BY DEF Fits, Loose
<1>6. seg.flags \in {ACK, FINACK} /\ seg.ack = s.rxNext OBVIOUS
<1>7. \A k \in DOMAIN o : (k \in DOMAIN s.out /\ o[k] = s.out[k]) \/ o[k] = seg
  <2> HIDE DEF seg
  <2> QED BY <1>5 DEF Sent
<1> HIDE DEF fin, x, o, r, u, n, h, none, seg
<1>8. /\ t.told = s.told /\ t.open = s.open /\ t.fin = s.fin /\ t.rxNext = s.rxNext
      /\ t.retx = r /\ t.out = o /\ t.state = x
  BY DEF Fits, Loose
<1> HIDE DEF t
<1>9. \A k \in DOMAIN o :
        /\ o[k].flags \in {SYN, ACK, FINACK, RST}
        /\ o[k].flags = RST => ~s.open
        /\ o[k].flags \in {ACK, FINACK} /\ s.fin = NoFin => o[k].ack = 1
  <2> SUFFICES ASSUME NEW k \in DOMAIN o
               PROVE  /\ o[k].flags \in {SYN, ACK, FINACK, RST}
                      /\ o[k].flags = RST => ~s.open
                      /\ o[k].flags \in {ACK, FINACK} /\ s.fin = NoFin => o[k].ack = 1
    OBVIOUS
  <2>1. CASE k \in DOMAIN s.out /\ o[k] = s.out[k] BY <1>2, <2>1 DEF Caller
  <2>2. CASE o[k] = seg BY <1>2, <1>6, <2>2, KindFlags DEF Caller
  <2> QED BY <1>7, <2>1, <2>2
<1> QED BY <1>1, <1>2, <1>3, <1>4, <1>8, <1>9 DEF TalksOn, Talks, Caller

LEMMA SendNextTalks ==
  ASSUME NEW z \in 1..N, NEW s, Fits(s, z), Talks(s)
  PROVE  TalksOn(s, SendNext(s))
<1>1. s.unsent \in SUBSET (1..z) BY DEF Fits, Loose, Pieces
<1>2. s.unsent # {} => Least(s.unsent) \in 1..z BY <1>1, LeastFits
<1>3. SendNext(s) = s \/ (s.unsent # {} /\ SendNext(s) = SendDataPacket(s, Least(s.unsent)))
  BY DEF SendNext
<1>4. TalksOn(s, s) BY DEF TalksOn
<1> QED BY <1>2, <1>3, <1>4, SendDataPacketTalks

LEMMA SendPendingDataTalks ==
  ASSUME NEW z \in 1..N, NEW s, Fits(s, z), Talks(s)
  PROVE  TalksOn(s, SendPendingData(s))
<1>1. Fits(SendNext(s), z) BY SendNextFits DEF Retains
<1>2. TalksOn(s, SendNext(s)) BY SendNextTalks
<1>3. TalksOn(SendNext(s), SendNext(SendNext(s))) BY <1>1, <1>2, SendNextTalks DEF TalksOn
<1>4. SendPendingData(s) \in {s, SendNext(SendNext(s))} BY DEF SendPendingData, Then
<1> QED BY <1>2, <1>3, <1>4 DEF TalksOn


LEMMA TurnTalks ==
  ASSUME NEW z \in 1..N, NEW s, Fits(s, z), Talks(s), s.state # "TIME_WAIT",
         NEW x \in {"FIN_WAIT_2", "CLOSING"}
  PROVE  TalksOn(s, [s EXCEPT !.state = x])
<1> DEFINE t == [s EXCEPT !.state = x]
<1>1. /\ t.told = s.told /\ t.open = s.open /\ t.fin = s.fin /\ t.rxNext = s.rxNext
      /\ t.retx = s.retx /\ t.out = s.out /\ t.state = x
  BY DEF Fits, Loose
<1> HIDE DEF t
<1> QED BY <1>1 DEF TalksOn, Talks, Caller, t

LEMMA AckedTalks ==
  ASSUME NEW z \in 1..N, NEW s, Fits(s, z), Talks(s), NEW a \in Nat
  PROVE  LET t == ProcessAck(DiscardUpTo(s, a), a, s.head)
         IN  TalksOn(s, t) /\ t.state = s.state
<1> DEFINE h == Larger(s.head, a)
           u == {q \in s.unsent : q >= a}
           d == DiscardUpTo(s, a)
           t == ProcessAck(d, a, s.head)
<1>1. Fits(d, z) BY DiscardUpToFits DEF Retains
<1>2. /\ d.told = s.told /\ d.open = s.open /\ d.fin = s.fin /\ d.rxNext = s.rxNext
      /\ d.retx = s.retx /\ d.out = s.out /\ d.state = s.state
  BY DEF DiscardUpTo, Fits, Loose
<1> HIDE DEF d
<1>3. /\ t.told = d.told /\ t.open = d.open /\ t.fin = d.fin /\ t.rxNext = d.rxNext
      /\ t.retx \in {d.retx, RTO, NoFlag} /\ t.out = d.out /\ t.state = d.state
  <2> DEFINE restarted == IF d.state = "SYN_RCVD" THEN d.retx ELSE RTO
             idle == TxSize(d) = 0 /\ d.state \notin {"FIN_WAIT_1", "CLOSING"}
             n == Larger(d.nextTx, a)
             r == IF idle THEN NoFlag ELSE restarted
             v == IF a < d.recover THEN d.recover ELSE 0
             x == [d EXCEPT !.dataRetr = DataRetries, !.nextTx = n, !.retx = r,
                            !.window = N, !.recover = v]
             y == [d EXCEPT !.nextTx = a]
  <2>1. t \in {d, x, y} BY DEF ProcessAck, NewAck
  <2>2. r \in {d.retx, RTO, NoFlag} OBVIOUS
  <2> HIDE DEF n, r, v, t
  <2>3. /\ x.told = d.told /\ x.open = d.open /\ x.fin = d.fin /\ x.rxNext = d.rxNext
        /\ x.retx = r /\ x.out = d.out /\ x.state = d.state
    BY <1>1 DEF Fits, Loose
  <2>4. /\ y.told = d.told /\ y.open = d.open /\ y.fin = d.fin /\ y.rxNext = d.rxNext
        /\ y.retx = d.retx /\ y.out = d.out /\ y.state = d.state
    BY <1>1 DEF Fits, Loose
  <2> HIDE DEF x, y
  <2> QED BY <2>1, <2>2, <2>3, <2>4
<1> HIDE DEF t
<1> QED BY <1>2, <1>3, RetxFlags DEF TalksOn, Talks, Caller, t, d

LEMMA ReceivedAckTalks ==
  ASSUME NEW z \in 1..N, NEW s, Fits(s, z), Talks(s), NEW m \in Cargo(z), m.len = 0
  PROVE  TalksOn(s, ReceivedAck(s, m))
<1> DEFINE d == DiscardUpTo(s, m.ack)
           acked == ProcessAck(d, m.ack, s.head)
<1>1. m.ack \in Nat BY DEF Cargo
<1>2. Fits(acked, z)
  <2>1. Fits(d, z) BY <1>1, DiscardUpToFits DEF Retains
  <2> HIDE DEF d
  <2> QED BY <1>1, <2>1, ProcessAckFits DEF Retains
<1>3. TalksOn(s, acked) BY <1>1, AckedTalks
<1>4. ReceivedAck(s, m) = SendPendingData(acked) BY ReceivedAckIs
<1> HIDE DEF acked
<1>5. TalksOn(acked, SendPendingData(acked)) BY <1>2, <1>3, SendPendingDataTalks DEF TalksOn
<1> QED BY <1>3, <1>4, <1>5 DEF TalksOn

LEMMA SetFinSequenceTalks ==
  ASSUME NEW z \in 1..N, NEW s, Fits(s, z), Talks(s), NEW f \in Nat
  PROVE  TalksOn(s, SetFinSequence(s, f))
<1> DEFINE n == IF s.rxNext = f THEN f + 1 ELSE s.rxNext
           t == [s EXCEPT !.fin = f, !.rxNext = n]
<1>1. SetFinSequence(s, f) = t BY DEF SetFinSequence, Fits, Loose
<1>2. f # NoFin BY DEF NoFin
<1> HIDE DEF n
<1>3. /\ t.told = s.told /\ t.open = s.open /\ t.fin = f /\ t.retx = s.retx
      /\ t.out = s.out /\ t.state = s.state
  BY DEF Fits, Loose
<1> HIDE DEF t
<1> QED BY <1>1, <1>2, <1>3 DEF TalksOn, Talks, Caller

LEMMA WaitedTalks ==
  ASSUME NEW z \in 1..N, NEW s, Fits(s, z), Talks(s), NEW m \in Cargo(z), m.len = 0
  PROVE  TalksOn(s, Waited(s, m))
<1> DEFINE r == ReceivedAck(s, m)
           w == Waited(s, m)
<1>1. w = IF m.flags = FINACK THEN SetFinSequence(r, m.seq)
          ELSE IF r.state = "FIN_WAIT_1" /\ TxSize(r) = 0 /\ m.ack = r.highTx + 1
               THEN [r EXCEPT !.state = "FIN_WAIT_2"]
          ELSE r
  BY DEF Waited, Then
<1>2. Fits(r, z) BY ReceivedAckFits DEF Gains
<1>3. TalksOn(s, r) BY ReceivedAckTalks
<1>4. m.seq \in Nat BY DEF Cargo
<1> HIDE DEF r
<1>5. TalksOn(r, SetFinSequence(r, m.seq)) BY <1>2, <1>3, <1>4, SetFinSequenceTalks DEF TalksOn
<1>6. r.state = "FIN_WAIT_1" => TalksOn(r, [r EXCEPT !.state = "FIN_WAIT_2"])
  BY <1>2, <1>3, TurnTalks DEF TalksOn
<1>7. \/ w \in {r, SetFinSequence(r, m.seq)}
      \/ r.state = "FIN_WAIT_1" /\ w = [r EXCEPT !.state = "FIN_WAIT_2"]
  BY <1>1
<1> HIDE DEF w
<1> QED BY <1>3, <1>5, <1>6, <1>7 DEF TalksOn, w

LEMMA FinCompleteTalks ==
  ASSUME NEW z \in 1..N, NEW r, Fits(r, z), Talks(r), NEW m
  PROVE  TalksOn(r, FinComplete(r, m))
<1> DEFINE turned == [r EXCEPT !.state = "CLOSING"]
           w == TimeWait(r)
<1>1. \/ FinComplete(r, m) = r
      \/ /\ r.state \in {"FIN_WAIT_1", "FIN_WAIT_2"}
         /\ FinComplete(r, m) \in {SendEmptyPacket(turned, ACK), SendEmptyPacket(w, ACK)}
  BY DEF FinComplete
<1>2. Fits(turned, z) BY TurnFits DEF State
<1>3. Fits(w, z) BY TimeWaitFits DEF Retains
<1>4. TalksOn(r, w) BY TimeWaitTalks
<1>5. r.state \in {"FIN_WAIT_1", "FIN_WAIT_2"} => TalksOn(r, turned) BY TurnTalks
<1> HIDE DEF turned, w
<1>6. TalksOn(w, SendEmptyPacket(w, ACK)) BY <1>3, <1>4, SendEmptyPacketTalks DEF TalksOn
<1>7. r.state \in {"FIN_WAIT_1", "FIN_WAIT_2"} => TalksOn(turned, SendEmptyPacket(turned, ACK))
  BY <1>2, <1>5, SendEmptyPacketTalks DEF TalksOn
<1> QED BY <1>1, <1>4, <1>5, <1>6, <1>7 DEF TalksOn

\* What a client may be sent; a FIN only when it has sent its own, a second
\* SYN|ACK only before the FIN of the sink.
Answer(s, m) ==
  /\ m.flags \in {ACK, SYNACK, FINACK} /\ m.len = 0
  /\ m.flags = SYNACK => m.seq = 0 /\ m.ack = 1 /\ s.fin = NoFin
  /\ m.flags = FINACK /\ s.open => s.state \notin {"SYN_SENT", "ESTABLISHED"}

LEMMA ProcessWaitTalks ==
  ASSUME NEW z \in 1..N, NEW s, Fits(s, z), Talks(s), NEW m \in Cargo(z), Answer(s, m)
  PROVE  TalksOn(s, ProcessWait(s, m))
<1> DEFINE w == Waited(s, m)
<1>1. TalksOn(s, w) BY WaitedTalks DEF Answer
<1>2. Fits(w, z) BY WaitedFits DEF Advances, Gains
<1>3. Then(w, LAMBDA x : FinComplete(x, m)) = FinComplete(w, m) BY DEF Then
<1>4. ProcessWait(s, m) \in {s, Then(w, LAMBDA x : FinComplete(x, m))}
  BY KindFlags DEF ProcessWait, Answer
<1> HIDE DEF w
<1>5. TalksOn(w, FinComplete(w, m)) BY <1>1, <1>2, FinCompleteTalks DEF TalksOn
<1> QED BY <1>1, <1>3, <1>4, <1>5 DEF TalksOn

LEMMA ProcessEstablishedTalks ==
  ASSUME NEW z \in 1..N, NEW s, Fits(s, z), Talks(s), NEW m \in Cargo(z), Answer(s, m),
         s.state = "ESTABLISHED"
  PROVE  TalksOn(s, ProcessEstablished(s, m))
<1>1. TalksOn(s, SendEmptyPacket(s, ACK)) BY SendEmptyPacketTalks
<1>2. TalksOn(s, ReceivedAck(s, m)) BY ReceivedAckTalks DEF Answer
<1>3. ProcessEstablished(s, m) \in {s, SendEmptyPacket(s, ACK), ReceivedAck(s, m)}
  BY KindFlags DEF ProcessEstablished, Answer, Talks
<1> QED BY <1>1, <1>2, <1>3 DEF TalksOn

LEMMA ProcessClosingSpeaks ==
  ASSUME NEW z \in 1..N, NEW s, Fits(s, z), Talks(s), NEW m, Answer(s, m), s.fin # NoFin
  PROVE  Speaks(s, ProcessClosing(s, m))
<1> DEFINE e == SendEmptyPacket(s, ACK)
<1>1. Fits(e, z) BY SendEmptyPacketFits DEF Retains
<1>2. TalksOn(s, e) /\ TalksOn(s, TimeWait(s)) BY SendEmptyPacketTalks, TimeWaitTalks
<1>3. ProcessClosing(s, m) \in {s, TimeWait(s), CloseAndNotify(e)}
  BY KindFlags DEF ProcessClosing, Answer
<1> HIDE DEF e
<1>4. Speaks(e, CloseAndNotify(e)) BY <1>1, <1>2, CloseAndNotifySpeaks DEF TalksOn, Talks
<1> QED BY <1>2, <1>3, <1>4 DEF TalksOn, Talks, Speaks

LEMMA ProcessSynSentSpeaks ==
  ASSUME NEW z \in 1..N, scenario.size = z, NEW s, Fits(s, z), Calling(s), Caller(s),
         s.out = <<>>, NEW m \in Cargo(z), Answer(s, m)
  PROVE  Speaks(s, ProcessSynSent(s, m))
<1> DEFINE k == s.nextTx + 1
           n == m.seq + 1
           up == [s EXCEPT !.state = "ESTABLISHED", !.retx = NoFlag, !.rxNext = n,
                           !.nextTx = k, !.highTx = k, !.head = k, !.txEnd = k]
           e == SendEmptyPacket(up, ACK)
           b == scenario.size + 1
           u == 1..scenario.size
           t == [e EXCEPT !.txEnd = b, !.unsent = u, !.closeOnEmpty = TRUE,
                          !.pendingEvent = TRUE, !.delAck = DelAckMax]
<1>1. ProcessSynSent(s, m) = s \/ (m.flags = SYNACK /\ ProcessSynSent(s, m) = t)
  BY KindFlags DEF ProcessSynSent, SetHeadSequence, Answer, Calling, Fits, Loose
<1>2. CASE ProcessSynSent(s, m) = s BY <1>2, SpeaksSelf
<1>3. CASE m.flags = SYNACK /\ ProcessSynSent(s, m) = t
  <2>1. n = 1 /\ k \in Nat BY <1>3 DEF Answer, Fits, Loose
  <2> HIDE DEF n, k
  <2>2. /\ up.state = "ESTABLISHED" /\ up.open = s.open /\ up.told = s.told /\ up.fin = s.fin
        /\ up.rxNext = n /\ up.out = s.out /\ up.retx = NoFlag
    BY DEF Fits, Loose
  <2>3. Fits(up, z)
    <3>1. up \in Loose(z)
      <4>1. "ESTABLISHED" \in State /\ NoFlag \in Events /\ n \in Nat
        BY <2>1 DEF State, Events
      <4> QED BY ZenonT(60), <2>1, <4>1 DEF Fits, Loose
    <3>2. up.head = k /\ up.txEnd = k /\ up.read = s.read BY DEF Fits, Loose
    <3> HIDE DEF up
    <3>3. k..(k - 1) = {} BY <2>1
    <3> QED BY <2>2, <3>1, <3>2, <3>3 DEF Fits, Calling, Clean
  <2> HIDE DEF up
  <2>4. Talks(up)
    <3>1. s.open /\ Caller(s) /\ s.state = "SYN_SENT" BY DEF Calling
    <3>2. "normal" \notin s.told BY <3>1 DEF Caller
    <3> QED BY <2>1, <2>2, <3>1, <3>2, RetxFlags DEF Talks, Caller
  <2>5. TalksOn(up, e) BY <2>3, <2>4, SendEmptyPacketTalks
  <2>6. e \in Loose(z) BY <2>3, SendEmptyPacketFits DEF Retains, Fits
  <2> HIDE DEF e, b, u
  <2>7. /\ t.state = e.state /\ t.open = e.open /\ t.told = e.told /\ t.fin = e.fin
        /\ t.rxNext = e.rxNext /\ t.out = e.out /\ t.retx = e.retx
    BY <2>6 DEF Loose
  <2> HIDE DEF t
  <2>8. Caller(t) BY <2>5, <2>7 DEF TalksOn, Talks, Caller
  <2> QED BY <1>3, <2>2, <2>5, <2>7, <2>8 DEF Speaks, TalksOn, Talks, Calling
<1> QED BY <1>1, <1>2, <1>3

LEMMA NoEndPointsSpeaks ==
  ASSUME NEW z \in 1..N, NEW s, Fits(s, z), Caller(s), ~s.open, NEW m, Answer(s, m)
  PROVE  Speaks(s, NoEndPointsFound(s, m))
<1> DEFINE seg == [flags |-> RST, seq |-> m.ack, ack |-> 0, len |-> 0]
           o == <<seg>>
           t == [s EXCEPT !.out = o]
<1>1. NoEndPointsFound(s, m) = t
  <2>1. "ACK" \in m.flags /\ "RST" \notin m.flags BY KindFlags DEF Answer
  <2> QED BY <2>1 DEF NoEndPointsFound
<1>2. \A k \in DOMAIN o : o[k].flags = RST
  <2>1. seg.flags = RST OBVIOUS
  <2> HIDE DEF seg
  <2> QED BY <2>1
<1> HIDE DEF o
<1>3. /\ t.state = s.state /\ t.open = s.open /\ t.told = s.told /\ t.fin = s.fin
      /\ t.rxNext = s.rxNext /\ t.out = o /\ t.retx = s.retx
      /\ t.timeWaitEvent = s.timeWaitEvent
  BY DEF Fits, Loose
<1> HIDE DEF t
<1> QED BY <1>1, <1>2, <1>3, KindFlags DEF Speaks, Caller


LEMMA ClientTakenSpeaks ==
  ASSUME NEW z \in 1..N, scenario.size = z, NEW s, Fits(s, z), s.out = <<>>, Sender(s, z),
         Shape(s, z), Caller(s), Calling(s) \/ (Calm(s) /\ s.state # "SYN_RCVD"),
         NEW m \in Cargo(z), Answer(s, m)
  PROVE  Speaks(s, Taken("client", s, m))
<1> DEFINE t == Handled(s, m)
<1>1. Taken("client", s, m) = IF s.open THEN t ELSE NoEndPointsFound(s, m)
  BY DEF Taken
<1>2. CASE ~s.open BY <1>1, <1>2, NoEndPointsSpeaks
<1>3. CASE s.open /\ Calling(s)
  <2>1. t = ProcessSynSent(s, m) BY <1>3 DEF Handled, ProcessInState, Answer, Calling
  <2> QED BY <1>1, <1>3, <2>1, ProcessSynSentSpeaks
<1>4. CASE s.open /\ Calm(s) /\ s.state # "SYN_RCVD"
  <2>1. Talks(s) /\ s.state \notin {"SYN_SENT", "CLOSE_WAIT", "LAST_ACK"}
    BY <1>4 DEF Talks, Calm, Caller
  <2>2. ~(m.len > 0) BY DEF Answer
  <2>3. \/ t = s
        \/ s.state = "ESTABLISHED" /\ t = ProcessEstablished(s, m)
        \/ t = ProcessWait(s, m)
        \/ s.state = "CLOSING" /\ t = ProcessClosing(s, m)
    BY <1>4, <2>1, <2>2 DEF Handled, ProcessInState
  <2>4. Speaks(s, s) BY SpeaksSelf
  <2>5. Speaks(s, ProcessWait(s, m)) BY <1>4, <2>1, ProcessWaitTalks, TalksSpeaks
  <2>6. s.state = "ESTABLISHED" => Speaks(s, ProcessEstablished(s, m))
    BY <1>4, <2>1, ProcessEstablishedTalks, TalksSpeaks
  <2>7. s.state = "CLOSING" => Speaks(s, ProcessClosing(s, m))
    BY <2>1, ProcessClosingSpeaks DEF Sender
  <2> HIDE DEF t
  <2> QED BY <1>1, <1>4, <2>3, <2>4, <2>5, <2>6, <2>7
<1> QED BY <1>2, <1>3, <1>4

LEMMA ClientReceiveSpeaks ==
  ASSUME NEW z \in 1..N, scenario.size = z, NEW s, Fits(s, z), s.out = <<>>, Sender(s, z),
         Shape(s, z), Caller(s), Calling(s) \/ (Calm(s) /\ s.state # "SYN_RCVD"),
         NEW m \in Cargo(z), Answer(s, m)
  PROVE  Speaks(s, Receive("client", s, m))
<1>1. s \in Loose(z) BY DEF Fits
<1>2. PICK r \in Windowed(s) : Receive("client", s, m) = Taken("client", r, m)
  BY <1>1, ReceiveTaken
<1>3. /\ Fits(r, z) /\ r.out = <<>> /\ Sender(r, z) /\ Caller(r) /\ Answer(r, m)
      /\ Calling(r) \/ (Calm(r) /\ r.state # "SYN_RCVD")
  BY <1>1, <1>2, WindowedFacts, WindowedFits DEF Sender, Whole, Caller, Answer
<1>4. Shape(r, z)
  <2>1. N >= 1 BY TcpConnectionAssumption
  <2> QED BY <1>1, <1>2, <2>1, WindowedFacts DEF Shape
<1>5. Speaks(r, Taken("client", r, m)) BY <1>3, <1>4, ClientTakenSpeaks
<1> QED BY <1>1, <1>2, <1>5, WindowedFacts DEF Speaks

\* The timers of the client.
LEMMA ReTxTimeoutSpeaks ==
  ASSUME NEW z \in 1..N, NEW s, Fits(s, z), Talks(s)
  PROVE  Speaks(s, ReTxTimeout(s))
<1> DEFINE w == s.told \cup {"error"}
           lost == [s EXCEPT !.told = w]
           u == s.head..(s.txEnd - 1)
           one == 1
           d == s.dataRetr - 1
           backOff == [s EXCEPT !.dataRetr = d, !.unsent = u, !.window = one,
                                !.recover = s.highTx]
<1>1. \/ ReTxTimeout(s) \in {s, SendEmptyPacket(s, FIN), SendPendingData(backOff)}
      \/ s.state # "TIME_WAIT" /\ ReTxTimeout(s) = DeallocateEndPoint(lost)
  BY DEF ReTxTimeout, Talks
<1>2. Speaks(s, s) BY SpeaksSelf DEF Talks
<1>3. Speaks(s, SendEmptyPacket(s, FIN)) BY SendEmptyPacketTalks, TalksSpeaks DEF Talks
<1>4. Fits(backOff, z) /\ TalksOn(s, backOff)
  <2>1. u \in Pieces(z) /\ one \in Nat /\ d \in Int /\ s.highTx \in Nat
    BY DEF Fits, Loose, Pieces
  <2> HIDE DEF u, one, d
  <2>2. Fits(backOff, z) BY <2>1 DEF Fits, Loose, Clean
  <2>3. /\ backOff.told = s.told /\ backOff.open = s.open /\ backOff.fin = s.fin
        /\ backOff.rxNext = s.rxNext /\ backOff.retx = s.retx /\ backOff.out = s.out
        /\ backOff.state = s.state
    BY DEF Fits, Loose
  <2> HIDE DEF backOff
  <2> QED BY <2>2, <2>3 DEF TalksOn, Talks, Caller
<1> HIDE DEF backOff
<1>5. Speaks(s, SendPendingData(backOff))
  <2>1. TalksOn(backOff, SendPendingData(backOff)) BY <1>4, SendPendingDataTalks DEF TalksOn
  <2> QED BY <1>4, <2>1, TalksSpeaks DEF TalksOn, Talks
<1>6. s.state # "TIME_WAIT" => Speaks(s, DeallocateEndPoint(lost))
  <2> SUFFICES ASSUME s.state # "TIME_WAIT" PROVE Speaks(s, DeallocateEndPoint(lost)) OBVIOUS
  <2>1. w \in Calls BY DEF Fits, Loose, Calls
  <2>2. "normal" \notin w BY DEF Talks, Caller
  <2> HIDE DEF w
  <2>3. Fits(lost, z) BY <2>1 DEF Fits, Loose, Clean
  <2>4. /\ lost.told = w /\ lost.open = s.open /\ lost.fin = s.fin /\ lost.out = s.out
        /\ lost.state = s.state
    BY DEF Fits, Loose
  <2> HIDE DEF lost
  <2> DEFINE t == DeallocateEndPoint(lost)
  <2>5. /\ t.told = w /\ t.state = s.state /\ t.fin = s.fin /\ t.out = s.out /\ ~t.open
        /\ t.retx = NoFlag /\ ~t.timeWaitEvent
    BY <2>3, <2>4, DeallocateSays DEF Talks
  <2> HIDE DEF t
  <2>6. Speaks(s, t) BY <2>2, <2>5, RetxFlags DEF Speaks, Talks, Caller
  <2> QED BY <2>6 DEF t
<1> HIDE DEF lost
<1> QED BY <1>1, <1>2, <1>3, <1>5, <1>6

LEMMA ClientFires ==
  ASSUME NEW z \in 1..N, NEW s, Fits(s, z), Calling(s) \/ Calm(s), Caller(s), s.out = <<>>,
         s.retx # NoFlag
  PROVE  Speaks(s, FireRetx(s))
<1> DEFINE fired == [s EXCEPT !.retx = NoFlag]
<1>1. s.open BY DEF Caller
<1>2. /\ Fits(fired, z) /\ fired.state = s.state /\ fired.out = <<>> /\ fired.open
      /\ fired.fin = s.fin /\ Caller(fired)
  <2>1. NoFlag \in Events BY DEF Events
  <2>2. /\ fired.told = s.told /\ fired.open = s.open /\ fired.fin = s.fin
        /\ fired.rxNext = s.rxNext /\ fired.retx = NoFlag /\ fired.out = s.out
        /\ fired.state = s.state
    BY DEF Fits, Loose
  <2>3. Fits(fired, z) BY <2>1 DEF Fits, Loose, Clean
  <2> HIDE DEF fired
  <2> QED BY <1>1, <2>2, <2>3, RetxFlags DEF Caller
<1>3. FireRetx(s) = IF s.retx = RTO THEN ReTxTimeout(fired) ELSE SendEmptyPacket(fired, s.retx)
  BY DEF FireRetx
<1> HIDE DEF fired
<1>4. CASE Calling(s)
  <2> DEFINE t == SendEmptyPacket(fired, SYN)
  <2>1. s.retx = SYN /\ SYN # RTO
    <3>1. "SYN" \in SYN /\ "SYN" \notin RTO BY DEF SYN, RTO
    <3> QED BY <1>4, <3>1 DEF Calling
  <2>2. FireRetx(s) = t BY <1>3, <2>1
  <2>3. CASE fired.synCount = 0
    <3>1. t = CloseAndNotify(fired) BY <1>2, <2>3, FlagsType DEF SendEmptyPacket
    <3> QED BY <1>1, <1>2, <2>2, <3>1, CloseAndNotifySpeaks DEF Speaks
  <2>4. CASE fired.synCount # 0
    <3>1. SYN \notin {FIN, FINACK, ACK, SYNACK} BY FlagsType
    <3>2. /\ t.told = fired.told /\ t.state = fired.state /\ t.fin = fired.fin /\ t.open
          /\ t.retx \in {fired.retx, SYN}
          /\ \A k \in DOMAIN t.out : t.out[k].flags = SYN
      BY <1>2, <2>4, <3>1, SendEmptyPacketSays
    <3> HIDE DEF t
    <3>3. Caller(t)
      BY <1>2, <1>4, <3>1, <3>2, KindFlags DEF Caller, Calling
    <3> QED BY <1>1, <1>2, <2>2, <3>2, <3>3 DEF Speaks
  <2> QED BY <2>3, <2>4
<1>5. CASE Calm(s)
  <2>1. Talks(fired) BY <1>2, <1>5 DEF Talks, Calm
  <2>2. s.retx \in {RTO, FINACK} BY <1>5 DEF Fits, Loose, Events, Calm, Caller
  <2>3. Speaks(fired, ReTxTimeout(fired)) BY <1>2, <2>1, ReTxTimeoutSpeaks
  <2>4. Speaks(fired, SendEmptyPacket(fired, FINACK))
    BY <1>2, <2>1, SendEmptyPacketTalks, TalksSpeaks
  <2> QED BY <1>1, <1>2, <1>3, <2>2, <2>3, <2>4 DEF Speaks
<1> QED BY <1>4, <1>5

LEMMA ClientAcks ==
  ASSUME NEW z \in 1..N, NEW s, Fits(s, z), s.state # "SYN_SENT", Caller(s)
  PROVE  Speaks(s, DelAckTimeout(s))
<1> DEFINE none == 0
           t == [s EXCEPT !.delAck = none, !.delAckEvent = FALSE]
<1>1. DelAckTimeout(s) = SendEmptyPacket(t, ACK) BY DEF DelAckTimeout
<1>2. none \in Int OBVIOUS
<1> HIDE DEF none
<1>3. Fits(t, z) BY <1>2 DEF Fits, Loose, Clean
<1>4. /\ t.told = s.told /\ t.open = s.open /\ t.fin = s.fin /\ t.rxNext = s.rxNext
      /\ t.retx = s.retx /\ t.out = s.out /\ t.state = s.state
      /\ t.timeWaitEvent = s.timeWaitEvent
  BY DEF Fits, Loose
<1> HIDE DEF t
<1>5. Caller(t) BY <1>4 DEF Caller
<1>6. CASE s.open
  <2>1. TalksOn(t, SendEmptyPacket(t, ACK))
    BY <1>3, <1>4, <1>5, <1>6, SendEmptyPacketTalks DEF Talks
  <2>2. Speaks(t, SendEmptyPacket(t, ACK)) BY <1>4, <1>6, <2>1, TalksSpeaks
  <2> QED BY <1>1, <1>4, <2>2 DEF Speaks
<1>7. CASE ~s.open
  <2>1. SendEmptyPacket(t, ACK) = t BY <1>4, <1>7 DEF SendEmptyPacket
  <2> QED BY <1>1, <1>4, <1>5, <2>1 DEF Speaks
<1> QED BY <1>6, <1>7

LEMMA ClientLastAck ==
  ASSUME NEW z \in 1..N, NEW s, Fits(s, z), Caller(s)
  PROVE  Speaks(s, LastAckTimeout(s))
<1> DEFINE t == [s EXCEPT !.lastAckEvent = FALSE]
<1>1. LastAckTimeout(s) = t BY DEF LastAckTimeout, Caller
<1>2. /\ t.told = s.told /\ t.open = s.open /\ t.fin = s.fin /\ t.rxNext = s.rxNext
      /\ t.retx = s.retx /\ t.out = s.out /\ t.state = s.state
      /\ t.timeWaitEvent = s.timeWaitEvent
  BY DEF Fits, Loose
<1> HIDE DEF t
<1> QED BY <1>1, <1>2 DEF Speaks, Caller

LEMMA ClientPending ==
  ASSUME NEW z \in 1..N, NEW s, Fits(s, z), s.state # "SYN_SENT", Caller(s)
  PROVE  Speaks(s, SendPendingData([s EXCEPT !.pendingEvent = FALSE]))
<1> DEFINE t == [s EXCEPT !.pendingEvent = FALSE]
<1>1. Fits(t, z) BY DEF Fits, Loose, Clean
<1>2. /\ t.told = s.told /\ t.open = s.open /\ t.fin = s.fin /\ t.rxNext = s.rxNext
      /\ t.retx = s.retx /\ t.out = s.out /\ t.state = s.state
      /\ t.timeWaitEvent = s.timeWaitEvent
  BY DEF Fits, Loose
<1> HIDE DEF t
<1>3. Caller(t) BY <1>2 DEF Caller
<1>4. Speaks(t, SendPendingData(t))
  <2>1. CASE s.open
    <3>1. TalksOn(t, SendPendingData(t))
      BY <1>1, <1>2, <1>3, <2>1, SendPendingDataTalks DEF Talks
    <3> QED BY <1>2, <2>1, <3>1, TalksSpeaks
  <2>2. CASE ~s.open
    <3>1. SendPendingData(t) = t BY <1>2, <2>2 DEF SendPendingData
    <3> QED BY <1>3, <3>1, SpeaksSelf
  <2> QED BY <2>1, <2>2
<1>5. Speaks(s, SendPendingData(t)) BY <1>2, <1>4 DEF Speaks
<1> QED BY <1>5 DEF t


-----------------------------------------------------------------------------
\* The other timers of the sink.

LEMMA ServerCloses ==
  ASSUME NEW z \in 1..N, NEW s, Fits(s, z), Answers(s, z), s.out = <<>>
  PROVE  Answers(CloseAndNotify(s), z)
<1>1. CASE s.state = "SYN_RCVD" BY <1>1, YoungCloses DEF Answers
<1>2. CASE s.state # "SYN_RCVD"
  <2>1. CloseAndNotify(s).state = "CLOSED" BY CloseAndNotifySays
  <2>2. Polite(CloseAndNotify(s), z) BY <1>2, CloseAndNotifyPolite DEF Answers
  <2> QED BY <2>1, <2>2 DEF Answers
<1> QED BY <1>1, <1>2

\* A field that Answers does not read.
LEMMA SameAnswers ==
  ASSUME NEW z, NEW s, NEW t, Answers(s, z), t.state = s.state, t.open = s.open,
         t.nextTx = s.nextTx, t.rxNext = s.rxNext, t.told = s.told, t.out = s.out,
         t.early = s.early, t.retx = s.retx
  PROVE  Answers(t, z)
BY DEF Answers, Young, Polite

LEMMA ServerAcks ==
  ASSUME NEW z \in 1..N, NEW s, Fits(s, z), Answers(s, z), s.out = <<>>
  PROVE  Answers(DelAckTimeout(s), z)
<1> DEFINE none == 0
           t == [s EXCEPT !.delAck = none, !.delAckEvent = FALSE]
<1>1. DelAckTimeout(s) = SendEmptyPacket(t, ACK) BY DEF DelAckTimeout
<1>2. none \in Int OBVIOUS
<1> HIDE DEF none
<1>3. Fits(t, z) BY <1>2 DEF Fits, Loose, Clean
<1>4. /\ t.state = s.state /\ t.open = s.open /\ t.nextTx = s.nextTx
      /\ t.rxNext = s.rxNext /\ t.told = s.told /\ t.out = s.out /\ t.early = s.early
      /\ t.retx = s.retx
  BY DEF Fits, Loose
<1> HIDE DEF t
<1>5. Answers(t, z) BY <1>4, SameAnswers
<1>6. CASE t.state = "SYN_RCVD" BY <1>1, <1>3, <1>4, <1>5, <1>6, YoungSends DEF Answers
<1>7. CASE t.state # "SYN_RCVD"
  <2>1. Polite(SendEmptyPacket(t, ACK), z)
    BY <1>3, <1>5, <1>7, SendEmptyPacketPolite DEF Answers
  <2>2. Retains(t, SendEmptyPacket(t, ACK), z) BY <1>3, SendEmptyPacketFits
  <2> QED BY <1>1, <1>7, <2>1, <2>2 DEF Answers, Retains, Kept
<1> QED BY <1>6, <1>7

LEMMA ServerLastAck ==
  ASSUME NEW z \in 1..N, NEW s, Fits(s, z), Answers(s, z), s.out = <<>>
  PROVE  Answers(LastAckTimeout(s), z)
<1> DEFINE t == [s EXCEPT !.lastAckEvent = FALSE]
<1>1. LastAckTimeout(s) \in {t, CloseAndNotify(t)} BY DEF LastAckTimeout
<1>2. Fits(t, z) BY DEF Fits, Loose, Clean
<1>3. /\ t.state = s.state /\ t.open = s.open /\ t.nextTx = s.nextTx
      /\ t.rxNext = s.rxNext /\ t.told = s.told /\ t.out = s.out /\ t.early = s.early
      /\ t.retx = s.retx
  BY DEF Fits, Loose
<1> HIDE DEF t
<1>4. Answers(t, z) BY <1>3, SameAnswers
<1> QED BY <1>1, <1>2, <1>3, <1>4, ServerCloses

LEMMA ServerPending ==
  ASSUME NEW z \in 1..N, NEW s, Fits(s, z), Answers(s, z), Mute(s)
  PROVE  Answers(SendPendingData([s EXCEPT !.pendingEvent = FALSE]), z)
<1> DEFINE t == [s EXCEPT !.pendingEvent = FALSE]
<1>1. Fits(t, z) BY DEF Fits, Loose, Clean
<1>2. /\ t.state = s.state /\ t.open = s.open /\ t.nextTx = s.nextTx
      /\ t.rxNext = s.rxNext /\ t.told = s.told /\ t.out = s.out /\ t.early = s.early
      /\ t.retx = s.retx /\ t.head = s.head /\ t.txEnd = s.txEnd
  BY DEF Fits, Loose
<1> HIDE DEF t
<1>3. Answers(t, z) BY <1>2, SameAnswers
<1>4. Mute(t) BY <1>2 DEF Mute
<1>5. SendPendingData(t) = t BY <1>1, <1>4, MuteSends
<1> QED BY <1>3, <1>5 DEF t

-----------------------------------------------------------------------------
\* The system.

\* SYN|ACKs come before FINs.
SynAckFirst(q) ==
  \A i, j \in DOMAIN q : i < j /\ q[j].flags = SYNACK => q[i].flags # FINACK

ResetsOK ==
  listening =>
    /\ Caller(Client)
    /\ Answers(Server, scenario.size)
    /\ \A k \in DOMAIN net["client"] :
         /\ net["client"][k].flags \in {ACK, SYNACK, FINACK}
         /\ net["client"][k].flags = SYNACK =>
              net["client"][k].seq = 0 /\ net["client"][k].ack = 1 /\ Client.fin = NoFin
    /\ SynAckFirst(net["client"])
    /\ \A k \in DOMAIN net["server"] :
         /\ net["server"][k].flags \in {SYN, ACK, FINACK, RST}
         /\ net["server"][k].flags = RST => ~Client.open
         /\ net["server"][k].flags \in {ACK, FINACK} /\ Client.fin = NoFin =>
              net["server"][k].ack = 1

RInv == TInv /\ ResetsOK

LEMMA RemoveOrder ==
  ASSUME NEW S, NEW q \in Seq(S), NEW i \in DOMAIN q, SynAckFirst(q)
  PROVE  SynAckFirst(RemoveAt(q, i))
<1> DEFINE r == RemoveAt(q, i)
<1>1. /\ r \in Seq(S)
      /\ \A k \in DOMAIN r : /\ k \in 1..Len(q) /\ k + 1 \in 1..Len(q)
                             /\ k < i => r[k] = q[k]
                             /\ k >= i => r[k] = q[k + 1]
  BY RemoveFacts
<1>2. i \in Nat /\ DOMAIN q = 1..Len(q) OBVIOUS
<1> HIDE DEF r
<1>3. ASSUME NEW a \in DOMAIN r, NEW b \in DOMAIN r, a < b, r[b].flags = SYNACK
      PROVE  r[a].flags # FINACK
  <2> DEFINE c == IF a < i THEN a ELSE a + 1
             d == IF b < i THEN b ELSE b + 1
  <2>1. a \in 1..Len(q) /\ a + 1 \in 1..Len(q) /\ b \in 1..Len(q) /\ b + 1 \in 1..Len(q)
    BY <1>1
  <2>2. a \in Nat /\ b \in Nat BY <2>1
  <2>3. r[a] = q[c] /\ r[b] = q[d]
    <3>1. a < i \/ a >= i BY <1>2, <2>2
    <3>2. b < i \/ b >= i BY <1>2, <2>2
    <3> QED BY <1>1, <3>1, <3>2
  <2>4. c \in DOMAIN q /\ d \in DOMAIN q /\ c < d BY <1>2, <1>3, <2>1, <2>2
  <2> HIDE DEF c, d
  <2> QED BY <1>3, <2>3, <2>4 DEF SynAckFirst
<1> QED BY <1>3 DEF SynAckFirst, r

\* What is appended comes last.
LEMMA TrimmedOrder ==
  ASSUME NEW S, NEW a \in Seq(S), NEW b \in Seq(S), SynAckFirst(a),
         \A i \in DOMAIN b : b[i].flags = SYNACK =>
           \A k \in DOMAIN Trimmed(a, b) : Trimmed(a, b)[k].flags # FINACK
  PROVE  SynAckFirst(Trimmed(a, b))
<1> DEFINE t == Trimmed(a, b)
<1>1. \A k \in DOMAIN t : /\ k \in Nat \ {0}
                          /\ k <= Len(a) => k \in DOMAIN a /\ t[k] = a[k]
                          /\ k > Len(a) => k - Len(a) \in DOMAIN b /\ t[k] = b[k - Len(a)]
  BY TrimmedFacts
<1>2. \A i \in DOMAIN b : b[i].flags = SYNACK => \A k \in DOMAIN t : t[k].flags # FINACK
  OBVIOUS
<1> HIDE DEF t
<1>3. ASSUME NEW i \in DOMAIN t, NEW j \in DOMAIN t, i < j, t[j].flags = SYNACK
      PROVE  t[i].flags # FINACK
  <2>1. i \in Nat /\ j \in Nat /\ Len(a) \in Nat BY <1>1
  <2>2. CASE j <= Len(a)
    <3>1. i <= Len(a) BY <1>3, <2>1, <2>2
    <3> QED BY <1>1, <1>3, <2>2, <3>1 DEF SynAckFirst
  <2>3. CASE j > Len(a) BY <1>1, <1>2, <1>3, <2>3
  <2> QED BY <2>1, <2>2, <2>3
<1> QED BY <1>3 DEF SynAckFirst, t

LEMMA StoredCaller ==
  ASSUME NEW z, NEW t \in Loose(z), Caller(t)
  PROVE  LET x == [t EXCEPT !.out = <<>>]
         IN  Caller(x) /\ x.open = t.open /\ x.fin = t.fin
<1> DEFINE none == <<>>
           x == [t EXCEPT !.out = none]
<1>1. DOMAIN none = {} OBVIOUS
<1> HIDE DEF none
<1>2. /\ x.told = t.told /\ x.open = t.open /\ x.fin = t.fin /\ x.rxNext = t.rxNext
      /\ x.retx = t.retx /\ x.out = none /\ x.state = t.state
      /\ x.timeWaitEvent = t.timeWaitEvent
  BY DEF Loose
<1> HIDE DEF x
<1>3. Caller(x) BY <1>1, <1>2 DEF Caller
<1> QED BY <1>2, <1>3 DEF x, none

LEMMA StoredAnswers ==
  ASSUME NEW z, NEW t \in Loose(z), Answers(t, z)
  PROVE  LET x == [t EXCEPT !.out = <<>>]
         IN  Answers(x, z) /\ x.state = t.state
<1> DEFINE none == <<>>
           x == [t EXCEPT !.out = none]
<1>1. DOMAIN none = {} OBVIOUS
<1> HIDE DEF none
<1>2. /\ x.told = t.told /\ x.open = t.open /\ x.nextTx = t.nextTx /\ x.rxNext = t.rxNext
      /\ x.retx = t.retx /\ x.out = none /\ x.state = t.state /\ x.early = t.early
  BY DEF Loose
<1> HIDE DEF x
<1>3. Answers(x, z) BY <1>1, <1>2 DEF Answers, Young, Polite
<1> QED BY <1>2, <1>3 DEF x, none


\* A step of the sink.
LEMMA ServerResets ==
  ASSUME IInv, ResetsOK, IInv', FinsOK', NEW t, NEW n, Becomes("server", t, n),
         UNCHANGED scenario, listening' => listening, Fits(t, scenario.size),
         listening' => Answers(t, scenario.size),
         n \in [End -> Seq(Cargo(scenario.size))],
         n["client"] = net["client"], From(n["server"], net["server"])
  PROVE  ResetsOK'
<1> DEFINE z == scenario.size
           x == [t EXCEPT !.out = <<>>]
           a == net["client"]
           q == Trimmed(a, t.out)
<1> SUFFICES ASSUME listening' PROVE ResetsOK' BY DEF ResetsOK
<1>1. scenario' = scenario /\ listening /\ Answers(t, z) /\ z \in 1..N BY ServerFacts
<1>2. sock' = [sock EXCEPT !["server"] = x] /\ net' = [n EXCEPT !["client"] = q]
  BY BecomesFact DEF Peer
<1>3. t \in Loose(z) BY DEF Fits
<1>4. Answers(x, z) /\ x.state = t.state BY <1>1, <1>3, StoredAnswers
<1>5. t.out \in Seq(Cargo(z)) BY CleanSyn
<1>6. a \in Seq(Cargo(z)) BY DEF End
<1>7. \A k \in DOMAIN q : \/ \E j \in DOMAIN a : q[k] = a[j]
                          \/ \E j \in DOMAIN t.out : q[k] = t.out[j]
  BY <1>5, <1>6, TrimmedFrom
<1>8. SynAckFirst(a) BY <1>1 DEF ResetsOK
<1>9. (\A i \in DOMAIN t.out : t.out[i].flags = SYNACK =>
         \A k \in DOMAIN q : q[k].flags # FINACK) => SynAckFirst(q)
  BY <1>5, <1>6, <1>8, TrimmedOrder
<1> HIDE DEF x, q, a
<1>10. Client' = Client /\ Server' = x
  <2>1. sock'["client"] = Client /\ sock'["server"] = x
    BY <1>2 DEF IInv, SocketsOK, Client, End
  <2> QED BY <2>1 DEF Client, Server
<1>11. net'["client"] = q /\ net'["server"] = n["server"] BY <1>2 DEF End
<1>12. \A j \in DOMAIN t.out :
         /\ t.out[j].flags \in {ACK, SYNACK, FINACK}
         /\ t.out[j].flags = SYNACK => t.out[j].seq = 0 /\ t.out[j].ack = 1
                                       /\ t.state = "SYN_RCVD"
  BY <1>1, KindFlags DEF Answers, Young, Polite
\* The sink has read nothing yet.
<1>13. ASSUME t.state = "SYN_RCVD"
       PROVE  Client.fin = NoFin /\ \A k \in DOMAIN q : q[k].flags # FINACK
  <2>1. Server'.state = "SYN_RCVD" BY <1>4, <1>10, <1>13
  <2>2. Server'.read = 0 BY <2>1 DEF IInv, SocketsOK, Forked
  <2>3. ~AllRead' BY <1>1, <2>2 DEF AllRead
  <2> QED BY <1>10, <1>11, <2>3, KindFlags DEF FinsOK
<1>14. SynAckFirst(q) BY <1>9, <1>12, <1>13
<1>15. ASSUME NEW k \in DOMAIN q
       PROVE  /\ q[k].flags \in {ACK, SYNACK, FINACK}
              /\ q[k].flags = SYNACK => q[k].seq = 0 /\ q[k].ack = 1 /\ Client.fin = NoFin
  <2>1. CASE \E j \in DOMAIN a : q[k] = a[j] BY <1>1, <2>1 DEF ResetsOK, a
  <2>2. CASE \E j \in DOMAIN t.out : q[k] = t.out[j] BY <1>12, <1>13, <2>2
  <2> QED BY <1>7, <2>1, <2>2
<1>16. \A k \in DOMAIN n["server"] :
         /\ n["server"][k].flags \in {SYN, ACK, FINACK, RST}
         /\ n["server"][k].flags = RST => ~Client.open
         /\ n["server"][k].flags \in {ACK, FINACK} /\ Client.fin = NoFin =>
              n["server"][k].ack = 1
  BY SMTT(30), <1>1 DEF ResetsOK, From
<1>17. Caller(Client) BY <1>1 DEF ResetsOK
<1> QED BY <1>1, <1>4, <1>10, <1>11, <1>14, <1>15, <1>16, <1>17 DEF ResetsOK

\* A step of the client.
LEMMA ClientResets ==
  ASSUME IInv, ResetsOK, NEW t, NEW n, Becomes("client", t, n),
         UNCHANGED <<listening, scenario>>, t \in Loose(scenario.size),
         listening => Speaks(Client, t),
         n \in [End -> Seq(Cargo(scenario.size))],
         n["server"] = net["server"], From(n["client"], net["client"]),
         listening => SynAckFirst(n["client"]),
         listening => \A k \in DOMAIN n["client"] : n["client"][k].flags = SYNACK => t.fin = NoFin
  PROVE  ResetsOK'
<1> DEFINE z == scenario.size
           x == [t EXCEPT !.out = <<>>]
           a == net["server"]
           q == Trimmed(a, t.out)
<1> SUFFICES ASSUME listening' PROVE ResetsOK' BY DEF ResetsOK
<1>1. scenario' = scenario /\ listening /\ Speaks(Client, t) /\ z \in 1..N BY ServerFacts
<1>2. sock' = [sock EXCEPT !["client"] = x] /\ net' = [n EXCEPT !["server"] = q]
  BY BecomesFact DEF Peer
<1>3. Caller(x) /\ x.open = t.open /\ x.fin = t.fin BY <1>1, StoredCaller DEF Speaks
<1>4. t.out \in Seq(Cargo(z)) BY DEF Loose, Sent
<1>5. a \in Seq(Cargo(z)) BY DEF End
<1>6. \A k \in DOMAIN q : \/ \E j \in DOMAIN a : q[k] = a[j]
                          \/ \E j \in DOMAIN t.out : q[k] = t.out[j]
  BY <1>4, <1>5, TrimmedFrom
<1> HIDE DEF x, q, a
<1>7. Client' = x /\ Server' = Server
  <2>1. sock'["client"] = x /\ sock'["server"] = Server
    BY <1>2 DEF IInv, SocketsOK, Server, End
  <2> QED BY <2>1 DEF Client, Server
<1>8. net'["server"] = q /\ net'["client"] = n["client"] BY <1>2 DEF End
<1>9. ASSUME NEW k \in DOMAIN q
      PROVE  /\ q[k].flags \in {SYN, ACK, FINACK, RST}
             /\ q[k].flags = RST => ~x.open
             /\ q[k].flags \in {ACK, FINACK} /\ x.fin = NoFin => q[k].ack = 1
  <2>1. CASE \E j \in DOMAIN a : q[k] = a[j] BY <1>1, <1>3, <2>1 DEF ResetsOK, Speaks, a
  <2>2. CASE \E j \in DOMAIN t.out : q[k] = t.out[j] BY <1>1, <1>3, <2>2 DEF Speaks, Caller
  <2> QED BY <1>6, <2>1, <2>2
<1>10. \A k \in DOMAIN n["client"] :
         /\ n["client"][k].flags \in {ACK, SYNACK, FINACK}
         /\ n["client"][k].flags = SYNACK =>
              n["client"][k].seq = 0 /\ n["client"][k].ack = 1 /\ x.fin = NoFin
  BY <1>1, <1>3 DEF ResetsOK, From
<1>11. Answers(Server, z) /\ SynAckFirst(n["client"]) BY <1>1 DEF ResetsOK
<1> QED BY <1>1, <1>3, <1>7, <1>8, <1>9, <1>10, <1>11 DEF ResetsOK

LEMMA DeliverServerResets ==
  ASSUME TInv, ResetsOK, IInv', FinsOK', Deliver("server")
  PROVE  ResetsOK'
<1> DEFINE z == scenario.size
           q == net["server"]
<1>1. PICK i \in Deliverable(q) :
        /\ Becomes("server", Receive("server", Server, q[i]),
                   [net EXCEPT !["server"] = RemoveAt(q, i)])
        /\ UNCHANGED <<listening, scenario>>
  BY DEF Deliver, Server
<1> DEFINE m == q[i]
           t == Receive("server", Server, m)
           n == [net EXCEPT !["server"] = RemoveAt(q, i)]
<1>2. IInv /\ FinsOK /\ TimersOK BY DEF TInv, FInv
<1>3. Fits(t, z) BY <1>2, ReceiveServer DEF Takes
<1>4. /\ i \in DOMAIN q /\ q \in Seq(Cargo(z)) /\ SynFirst(q) /\ net \in [End -> Seq(Cargo(z))]
      /\ z \in 1..N /\ Fits(Server, z) /\ Calm(Server) /\ Server.out = <<>>
      /\ Server.state = "SYN_RCVD" => Forked(Server)
  BY <1>2, ServerFacts DEF Deliverable
<1>5. RemoveAt(q, i) \in Seq(Cargo(z)) /\ From(RemoveAt(q, i), q)
  BY <1>4, RemoveFacts, RemoveFrom
<1>6. m \in Cargo(z) BY <1>4
<1>7. m.flags = SYN => m.seq = 0 /\ Server.read = 0
  BY <1>2, <1>4 DEF SynFirst, HasSyn, IInv, NothingAccepted
<1>8. /\ n \in [End -> Seq(Cargo(z))] /\ n["client"] = net["client"]
      /\ n["server"] = RemoveAt(q, i)
  <2> HIDE DEF q
  <2> QED BY <1>4, <1>5 DEF End
<1>9. From(n["server"], net["server"]) BY <1>5, <1>8
<1>10. ASSUME listening PROVE Answers(t, z)
  <2>1. Server.open => Reader(Server, z) BY <1>2 DEF FinsOK, Unused
  <2>2. Receiver(Server, z) /\ Mute(Server) BY <1>2, <1>10 DEF FinsOK, TimersOK
  <2>3. FinLast(m, z) BY <1>2, <1>4 DEF FinsOK
  <2>4. Answers(Server, z) /\ Kind(m) BY <1>4, <1>10 DEF ResetsOK, Kind
  <2>5. ASSUME Server.state = "SYN_RCVD", m.flags = ACK PROVE m.ack = 1
    <3>1. ~AllRead BY <1>4, <2>5 DEF Forked, AllRead
    <3>2. Client.fin = NoFin BY <1>2, <1>10, <3>1 DEF FinsOK
    <3> QED BY <1>4, <1>10, <2>5, <3>2 DEF ResetsOK
  <2> QED BY <1>4, <1>6, <1>7, <1>10, <2>1, <2>2, <2>3, <2>4, <2>5, ServerReceiveAnswers
<1>11. Becomes("server", t, n) /\ UNCHANGED <<listening, scenario>> BY <1>1
<1> HIDE DEF t, n
<1> QED BY <1>2, <1>3, <1>8, <1>9, <1>10, <1>11, ServerResets

LEMMA DeliverClientResets ==
  ASSUME TInv, ResetsOK, Deliver("client")
  PROVE  ResetsOK'
<1> DEFINE z == scenario.size
           q == net["client"]
<1>1. PICK i \in Deliverable(q) :
        /\ Becomes("client", Receive("client", Client, q[i]),
                   [net EXCEPT !["client"] = RemoveAt(q, i)])
        /\ UNCHANGED <<listening, scenario>>
  BY DEF Deliver, Client
<1> DEFINE m == q[i]
           t == Receive("client", Client, m)
           r == RemoveAt(q, i)
           n == [net EXCEPT !["client"] = r]
<1>2. IInv /\ FinsOK /\ TimersOK BY DEF TInv, FInv
<1>3. /\ i \in DOMAIN q /\ q \in Seq(Cargo(z)) /\ ~HasSyn(q)
      /\ net \in [End -> Seq(Cargo(z))] /\ z \in 1..N /\ Fits(Client, z) /\ Client.out = <<>>
      /\ Calling(Client) \/ (Calm(Client) /\ Client.state # "SYN_RCVD")
  BY <1>2, ClientFacts DEF Deliverable
<1>4. m \in Cargo(z) /\ m.flags # SYN /\ m.len = 0
  BY <1>2, <1>3 DEF HasSyn, TimersOK, Cargo
<1>5. r \in Seq(Cargo(z)) /\ From(r, q) BY <1>3, RemoveFacts, RemoveFrom
<1>6. /\ n \in [End -> Seq(Cargo(z))] /\ n["server"] = net["server"] /\ n["client"] = r
  <2> HIDE DEF q, r
  <2> QED BY <1>3, <1>5 DEF End
<1>7. From(n["client"], net["client"]) BY <1>5, <1>6
<1>8. ASSUME listening PROVE Answer(Client, m)
  <2>1. m.flags \in {ACK, SYNACK, FINACK}
        /\ (m.flags = SYNACK => m.seq = 0 /\ m.ack = 1 /\ Client.fin = NoFin)
    BY <1>3, <1>8 DEF ResetsOK
  <2>2. ASSUME m.flags = FINACK, Client.open
        PROVE  Client.state \notin {"SYN_SENT", "ESTABLISHED"}
    <3>1. Server.read = z BY <1>2, <1>3, <1>8, <2>2, KindFlags DEF FinsOK, AllRead
    <3>2. Client.highTx > z BY <1>2, <3>1 DEF TimersOK, LastSent, HasLast
    <3>3. Client.highTx \in Nat /\ z >= 1 BY <1>3 DEF Fits, Loose
    <3>4. Client.state = "SYN_SENT" => Client.highTx = 0 BY <1>2, <2>2 DEF TimersOK, Shape
    <3>5. Client.state = "ESTABLISHED" => Client.highTx <= z
      BY <1>2, <2>2 DEF TimersOK, Shape
    <3> QED BY <1>3, <3>2, <3>3, <3>4, <3>5
  <2> QED BY <1>4, <2>1, <2>2 DEF Answer
<1>9. ASSUME listening PROVE Speaks(Client, t)
  <2>1. Sender(Client, z) /\ Shape(Client, z) BY <1>2 DEF FinsOK, TimersOK
  <2>2. Caller(Client) BY <1>9 DEF ResetsOK
  <2> QED BY <1>3, <1>4, <1>8, <1>9, <2>1, <2>2, ClientReceiveSpeaks
<1>10. t \in Loose(z)
  <2>1. t = IF Client.open THEN DoForwardUp(Client, m) ELSE NoEndPointsFound(Client, m)
    BY DEF Receive
  <2>2. Fits(NoEndPointsFound(Client, m), z) BY <1>3, <1>4, NoEndPointsRetains DEF Retains
  <2>3. Fits(DoForwardUp(Client, m), z)
    <3>1. CASE Calling(Client)
      BY <1>3, <1>4, <3>1, ProcessSynSentFits
    <3>2. CASE Calm(Client) /\ Client.state # "SYN_RCVD"
      BY <1>3, <1>4, <3>2, DoForwardUpFits DEF Calm, Advances, Gains
    <3> QED BY <1>3, <3>1, <3>2
  <2> QED BY <2>1, <2>2, <2>3 DEF Fits
<1>11. listening => SynAckFirst(r) BY <1>3, RemoveOrder DEF ResetsOK
\* Segments to the client have no data: the oldest comes first.
<1>12. i = 1
  <2>1. i \in Nat /\ i >= 1 BY <1>3
  <2>2. ASSUME i # 1 PROVE FALSE
    <3>1. 1 \in 1..(i - 1) /\ 1 \in DOMAIN q BY <1>3, <2>1, <2>2
    <3>2. q[1].len = 1 BY <3>1 DEF Deliverable
    <3> QED BY <1>2, <3>1, <3>2 DEF TimersOK
  <2> QED BY <2>2
<1>13. ASSUME listening, NEW k \in DOMAIN r, r[k].flags = SYNACK PROVE t.fin = NoFin
  <2>1. k \in Nat /\ k >= 1 /\ k + 1 \in DOMAIN q /\ r[k] = q[k + 1]
    <3>1. /\ k \in 1..Len(q) /\ k + 1 \in 1..Len(q) /\ (k >= i => r[k] = q[k + 1])
      BY <1>3, RemoveFacts
    <3> QED BY <1>3, <1>12, <3>1
  <2>2. m.flags # FINACK
    <3>1. 1 < k + 1 /\ q[k + 1].flags = SYNACK BY <1>13, <2>1
    <3>2. SynAckFirst(q) BY <1>13 DEF ResetsOK
    <3> QED BY <1>3, <1>12, <2>1, <3>1, <3>2 DEF SynAckFirst
  <2>3. Client.fin = NoFin BY <1>13, <2>1 DEF ResetsOK
  <2>4. "FIN" \notin m.flags BY <1>8, <1>13, <2>2, KindFlags DEF Answer
  <2>5. GoesOn(Client, t, z, m)
    <3>1. Sender(Client, z) BY <1>2 DEF FinsOK
    <3> QED BY <1>3, <1>4, <3>1, ClientReceiveGoes
  <2> QED BY <2>3, <2>4, <2>5 DEF GoesOn
<1>14. Becomes("client", t, n) /\ UNCHANGED <<listening, scenario>> BY <1>1
<1>15. /\ listening => SynAckFirst(n["client"])
       /\ listening => \A k \in DOMAIN n["client"] : n["client"][k].flags = SYNACK => t.fin = NoFin
  BY <1>6, <1>11, <1>13
<1> HIDE DEF t, n
<1> QED BY <1>2, <1>6, <1>7, <1>9, <1>10, <1>14, <1>15, ClientResets


LEMMA LoseResets ==
  ASSUME IInv, ResetsOK, NEW p \in End, Lose(p)
  PROVE  ResetsOK'
<1> DEFINE z == scenario.size
<1>1. PICK i \in DOMAIN net[p] : net' = [net EXCEPT ![p] = RemoveAt(@, i)] BY DEF Lose
<1>2. /\ sock' = sock /\ listening' = listening
      /\ scenario' = [scenario EXCEPT !.losses = @ - 1] /\ scenario \in Scenario
  BY DEF Lose, IInv
<1>3. scenario'.size = z BY <1>2 DEF Scenario
<1>4. net \in [End -> Seq(Cargo(z))] BY DEF IInv, NetOK
<1> DEFINE r == RemoveAt(net[p], i)
<1>5. From(r, net[p]) /\ (SynAckFirst(net[p]) => SynAckFirst(r))
  <2>1. net[p] \in Seq(Cargo(z)) BY <1>4
  <2> QED BY <1>1, <2>1, RemoveFrom, RemoveOrder
<1>6. net' = [net EXCEPT ![p] = r] BY <1>1
<1> HIDE DEF r
<1>7. \A e \in End : From(net'[e], net[e]) /\ (SynAckFirst(net[e]) => SynAckFirst(net'[e]))
  BY <1>4, <1>5, <1>6, FromSelf
<1>8. Client' = Client /\ Server' = Server BY <1>2 DEF Client, Server
<1>9. /\ From(net'["client"], net["client"]) /\ From(net'["server"], net["server"])
      /\ SynAckFirst(net["client"]) => SynAckFirst(net'["client"])
  BY <1>7 DEF End
<1> QED BY <1>2, <1>3, <1>8, <1>9 DEF ResetsOK, From

\* A step of the sink that takes no segment.
LEMMA ServerRetainsResets ==
  ASSUME IInv, ResetsOK, IInv', FinsOK', NEW t, Retains(Server, t, scenario.size),
         Becomes("server", t, net), UNCHANGED scenario, listening' => listening,
         listening' => Answers(t, scenario.size)
  PROVE  ResetsOK'
<1>1. net \in [End -> Seq(Cargo(scenario.size))] BY ServerFacts
<1>2. PICK n : n = net OBVIOUS
<1>3. /\ n \in [End -> Seq(Cargo(scenario.size))] /\ n["client"] = net["client"]
      /\ From(n["server"], net["server"]) /\ Becomes("server", t, n)
  BY <1>1, <1>2, FromSelf
<1> QED BY <1>3, ServerResets DEF Retains

LEMMA ServerTimersResets ==
  ASSUME TInv, ResetsOK, IInv', FinsOK',
         \/ RetxTimeout("server") \/ DelayedAck("server") \/ LastAck("server")
         \/ TimeWaitOver("server") \/ SendPending("server") \/ SinkStop
  PROVE  ResetsOK'
<1> DEFINE z == scenario.size
<1>1. IInv /\ FinsOK /\ TimersOK BY DEF TInv, FInv
<1>2. /\ z \in 1..N /\ Fits(Server, z) /\ Calm(Server) /\ Server.out = <<>> /\ Mute(Server)
      /\ Server.state = "SYN_RCVD" => Forked(Server)
  BY <1>1, ServerFacts DEF TimersOK
<1>3. listening => Answers(Server, z) /\ Receiver(Server, z) BY <1>1 DEF ResetsOK, FinsOK
<1>4. CASE RetxTimeout("server")
  <2>1. /\ Becomes("server", FireRetx(Server), net) /\ UNCHANGED <<listening, scenario>>
        /\ Server.retx # NoFlag
    BY <1>4 DEF RetxTimeout, Server
  <2>2. listening => Answers(FireRetx(Server), z) BY <1>2, <1>3, <2>1, ServerFires
  <2> QED BY <1>1, <1>2, <2>1, <2>2, FireRetxFits, ServerRetainsResets
<1>5. CASE DelayedAck("server")
  <2>1. Becomes("server", DelAckTimeout(Server), net) /\ UNCHANGED <<listening, scenario>>
    BY <1>5 DEF DelayedAck, Server
  <2>2. listening => Answers(DelAckTimeout(Server), z) BY <1>2, <1>3, ServerAcks
  <2> QED BY <1>1, <1>2, <2>1, <2>2, DelAckTimeoutFits, ServerRetainsResets
<1>6. CASE LastAck("server")
  <2>1. Becomes("server", LastAckTimeout(Server), net) /\ UNCHANGED <<listening, scenario>>
    BY <1>6 DEF LastAck, Server
  <2>2. listening => Answers(LastAckTimeout(Server), z) BY <1>2, <1>3, ServerLastAck
  <2> QED BY <1>1, <1>2, <2>1, <2>2, LastAckTimeoutFits, ServerRetainsResets
<1>7. CASE TimeWaitOver("server")
  <2>1. Becomes("server", CloseAndNotify(Server), net) /\ UNCHANGED <<listening, scenario>>
    BY <1>7 DEF TimeWaitOver, Server
  <2>2. listening => Answers(CloseAndNotify(Server), z) BY <1>2, <1>3, ServerCloses
  <2> QED BY <1>1, <1>2, <2>1, <2>2, CloseAndNotifyFits, ServerRetainsResets
<1>8. CASE SendPending("server")
  <2> DEFINE t == SendPendingData([Server EXCEPT !.pendingEvent = FALSE])
  <2>1. Becomes("server", t, net) /\ UNCHANGED <<listening, scenario>>
    BY <1>8 DEF SendPending, Server
  <2>2. Retains(Server, t, z) BY <1>2, PendingFits
  <2>3. listening => Answers(t, z) BY <1>2, <1>3, ServerPending
  <2> HIDE DEF t
  <2> QED BY <1>1, <2>1, <2>2, <2>3, ServerRetainsResets
<1>9. CASE SinkStop BY <1>9 DEF SinkStop, ResetsOK
<1> QED BY <1>4, <1>5, <1>6, <1>7, <1>8, <1>9

\* A step of the client that takes no segment.
LEMMA ClientSpeaksResets ==
  ASSUME IInv, ResetsOK, NEW t, t \in Loose(scenario.size), listening => Speaks(Client, t),
         t.fin = Client.fin, Becomes("client", t, net), UNCHANGED <<listening, scenario>>
  PROVE  ResetsOK'
<1>1. net \in [End -> Seq(Cargo(scenario.size))] BY ClientFacts
<1>2. PICK n : n = net OBVIOUS
<1>3. /\ n \in [End -> Seq(Cargo(scenario.size))] /\ n["server"] = net["server"]
      /\ From(n["client"], net["client"]) /\ Becomes("client", t, n)
  BY <1>1, <1>2, FromSelf
<1>4. /\ listening => SynAckFirst(n["client"])
      /\ listening => \A k \in DOMAIN n["client"] : n["client"][k].flags = SYNACK => t.fin = NoFin
  BY <1>2 DEF ResetsOK
<1> QED BY <1>3, <1>4, ClientResets

LEMMA ClientTimersResets ==
  ASSUME TInv, ResetsOK,
         \/ RetxTimeout("client") \/ DelayedAck("client") \/ LastAck("client")
         \/ TimeWaitOver("client") \/ SendPending("client")
  PROVE  ResetsOK'
<1> DEFINE z == scenario.size
<1>1. IInv /\ FinsOK /\ TimersOK BY DEF TInv, FInv
<1>2. /\ z \in 1..N /\ Fits(Client, z) /\ Client.out = <<>> /\ Sender(Client, z)
      /\ Calling(Client) \/ Calm(Client)
      /\ Calling(Client) => ClientCalls
  BY <1>1, ClientFacts DEF FinsOK, ClientCalls, Calling
<1>3. listening => Caller(Client) BY DEF ResetsOK
<1>4. CASE RetxTimeout("client")
  <2> DEFINE t == FireRetx(Client)
  <2>1. Becomes("client", t, net) /\ UNCHANGED <<listening, scenario>> /\ Client.retx # NoFlag
    BY <1>4 DEF RetxTimeout, Client
  <2>2. listening => Speaks(Client, t) BY <1>2, <1>3, <2>1, ClientFires
  <2>3. t \in Loose(z) /\ t.fin = Client.fin
    <3>1. CASE Calling(Client)
      BY <1>2, <2>1, <3>1, CallAgain, CallAgainGoes DEF Goes
    <3>2. CASE Calm(Client)
      BY <1>2, <2>1, <3>2, FireRetxFits DEF Retains, Kept, Fits
    <3> QED BY <1>2, <3>1, <3>2
  <2> HIDE DEF t
  <2> QED BY <1>1, <2>1, <2>2, <2>3, ClientSpeaksResets
<1>5. CASE DelayedAck("client")
  <2> DEFINE t == DelAckTimeout(Client)
  <2>1. Becomes("client", t, net) /\ UNCHANGED <<listening, scenario>> /\ Client.delAckEvent
    BY <1>5 DEF DelayedAck, Client
  <2>2. Client.state # "SYN_SENT" BY <1>2, <2>1 DEF Calling, Calm
  <2>3. listening => Speaks(Client, t) BY <1>2, <1>3, <2>2, ClientAcks
  <2>4. t \in Loose(z) /\ t.fin = Client.fin BY <1>2, DelAckTimeoutFits DEF Retains, Kept, Fits
  <2> HIDE DEF t
  <2> QED BY <1>1, <2>1, <2>3, <2>4, ClientSpeaksResets
<1>6. CASE LastAck("client")
  <2> DEFINE t == LastAckTimeout(Client)
  <2>1. Becomes("client", t, net) /\ UNCHANGED <<listening, scenario>>
    BY <1>6 DEF LastAck, Client
  <2>2. listening => Speaks(Client, t) BY <1>2, <1>3, ClientLastAck
  <2>3. t \in Loose(z) /\ t.fin = Client.fin BY <1>2, LastAckTimeoutFits DEF Retains, Kept, Fits
  <2> HIDE DEF t
  <2> QED BY <1>1, <2>1, <2>2, <2>3, ClientSpeaksResets
<1>7. CASE TimeWaitOver("client")
  <2> DEFINE t == CloseAndNotify(Client)
  <2>1. Becomes("client", t, net) /\ UNCHANGED <<listening, scenario>> /\ Client.timeWaitEvent
    BY <1>7 DEF TimeWaitOver, Client
  <2>2. listening => Speaks(Client, t) BY <1>2, <1>3, <2>1, CloseAndNotifySpeaks DEF Caller
  <2>3. t \in Loose(z) /\ t.fin = Client.fin BY <1>2, CloseAndNotifyFits DEF Retains, Kept, Fits
  <2> HIDE DEF t
  <2> QED BY <1>1, <2>1, <2>2, <2>3, ClientSpeaksResets
<1>8. CASE SendPending("client")
  <2> DEFINE t == SendPendingData([Client EXCEPT !.pendingEvent = FALSE])
  <2>1. Becomes("client", t, net) /\ UNCHANGED <<listening, scenario>> /\ Client.pendingEvent
    BY <1>8 DEF SendPending, Client
  <2>2. Client.state # "SYN_SENT" BY <1>2, <2>1 DEF Calling, Calm
  <2>3. listening => Speaks(Client, t) BY <1>2, <1>3, <2>2, ClientPending
  <2>4. t \in Loose(z) /\ t.fin = Client.fin BY <1>2, PendingFits DEF Retains, Kept, Fits
  <2> HIDE DEF t
  <2> QED BY <1>1, <2>1, <2>3, <2>4, ClientSpeaksResets
<1> QED BY <1>4, <1>5, <1>6, <1>7, <1>8

LEMMA InitResets == Init => ResetsOK
<1> SUFFICES ASSUME Init PROVE ResetsOK OBVIOUS
<1> DEFINE z == scenario.size
           u == [Unused EXCEPT !.open = TRUE]
           c == [Connect EXCEPT !.state = "SYN_SENT"]
           x == [c EXCEPT !.out = <<>>]
<1>1. scenario \in Scenario /\ z \in 1..N
  BY TcpConnectionAssumption, SizeType DEF Init
<1>2. /\ x.out = <<>> /\ Calling(x) /\ c.out \in Sent(z) /\ SynOnly(c.out)
  BY <1>1, ConnectFits
<1>3. x.told = {} /\ x.fin = NoFin
  <2>1. SynRetries # 0 BY TcpConnectionAssumption
  <2> QED
    BY <2>1 DEF Connect, SendEmptyPacket, Emit, CloseAndNotify,
       DeallocateEndPoint, CancelAllTimers, Unused
<1> HIDE DEF c, x
<1>4. sock = [client |-> x, server |-> Unused] /\ net = [client |-> <<>>, server |-> c.out]
  BY DEF Init, c, x
<1>5. Client = x /\ Server = Unused /\ net["client"] = <<>> /\ net["server"] = c.out
  BY <1>4 DEF Client, Server
<1>6. SYN # SYNACK BY KindFlags
<1>7. Caller(x)
  <2>1. x.open /\ x.state = "SYN_SENT" /\ x.retx # SYNACK
    BY <1>2, <1>6, RetxFlags DEF Calling
  <2> QED BY <1>2, <1>3, <2>1 DEF Caller
<1>8. Answers(Unused, z) BY RetxFlags DEF Answers, Polite, Unused
<1>9. SynAckFirst(<<>>) BY DEF SynAckFirst
<1>10. \A k \in DOMAIN c.out : c.out[k].flags = SYN BY <1>2 DEF SynOnly
<1> QED BY <1>5, <1>7, <1>8, <1>9, <1>10, KindFlags DEF ResetsOK

LEMMA NextResets == RInv /\ [Next]_vars => RInv'
<1> SUFFICES ASSUME RInv, [Next]_vars PROVE RInv' OBVIOUS
<1>1. TInv /\ IInv /\ ResetsOK BY DEF RInv, TInv, FInv
<1>2. TInv' BY <1>1, NextTimed
<1>3. IInv' /\ FinsOK' BY <1>2 DEF TInv, FInv
<1>4. CASE UNCHANGED vars BY <1>1, <1>2, <1>4 DEF vars, RInv, ResetsOK, Client, Server
<1>5. CASE SinkStop BY <1>1, <1>2, <1>3, <1>5, ServerTimersResets DEF RInv
<1>6. CASE \E p \in End : Deliver(p) \/ Lose(p) \/ RetxTimeout(p) \/ DelayedAck(p)
                          \/ LastAck(p) \/ TimeWaitOver(p) \/ SendPending(p)
  <2>1. PICK p \in End : Deliver(p) \/ Lose(p) \/ RetxTimeout(p) \/ DelayedAck(p)
                         \/ LastAck(p) \/ TimeWaitOver(p) \/ SendPending(p)
    BY <1>6
  <2>2. ResetsOK'
    <3>1. CASE Lose(p) BY <1>1, <3>1, LoseResets
    <3>2. CASE p = "client" /\ ~Lose(p)
      BY <1>1, <2>1, <3>2, DeliverClientResets, ClientTimersResets
    <3>3. CASE p = "server" /\ ~Lose(p)
      BY <1>1, <1>3, <2>1, <3>3, DeliverServerResets, ServerTimersResets
    <3> QED BY <3>1, <3>2, <3>3 DEF End
  <2> QED BY <1>2, <2>2 DEF RInv
<1> QED BY <1>4, <1>5, <1>6 DEF Next

\* As long as the sink listens the client never enters CLOSE_WAIT, for a FIN
\* finds it past its own; no SYN|ACK follows a FIN to it, it acknowledges
\* nothing but the SYN before that FIN, and a reset on its way comes from a
\* client that is closed.
THEOREM ResetsKept == Spec => []RInv
<1>1. Init => RInv BY InitIInv, InitFins, InitTimed, InitResets DEF RInv, TInv, FInv
<1> QED BY <1>1, NextResets, PTL DEF Spec

\* Nobody resets a connection that works: no end is told of an error and of
\* a normal end, and a reset is on its way only if the client has given up,
\* or the sink has stopped.
THEOREM ResetOnlyAfterGivingUpCorrect == Spec => []ResetOnlyAfterGivingUp
<1>1. RInv => ResetOnlyAfterGivingUp
  <2> SUFFICES ASSUME RInv, listening
               PROVE  /\ \A p \in End : ~({"error", "normal"} \subseteq sock[p].told)
                      /\ (\E p \in End : \E m \in ToSet(net[p]) : "RST" \in m.flags)
                           => ~Client.open
    BY DEF ResetOnlyAfterGivingUp
  <2>1. ResetsOK BY DEF RInv
  <2>2. Caller(Client) /\ Answers(Server, scenario.size) BY <2>1 DEF ResetsOK
  <2>3. \A p \in End : ~({"error", "normal"} \subseteq sock[p].told)
    <3>1. ~({"error", "normal"} \subseteq Client.told) BY <2>2 DEF Caller
    <3>2. ~({"error", "normal"} \subseteq Server.told)
      BY <2>2 DEF Answers, Young, Polite
    <3> QED BY <3>1, <3>2 DEF End, Client, Server
  <2>4. ASSUME NEW p \in End, NEW m \in ToSet(net[p]), "RST" \in m.flags PROVE ~Client.open
    <3>1. PICK k \in DOMAIN net[p] : m = net[p][k] BY DEF ToSet
    <3>2. "RST" \notin SYN /\ "RST" \notin ACK /\ "RST" \notin SYNACK /\ "RST" \notin FINACK
      BY KindFlags
    <3>3. CASE p = "client" BY <2>1, <2>4, <3>1, <3>2, <3>3 DEF ResetsOK
    <3>4. CASE p = "server" BY <2>1, <2>4, <3>1, <3>2, <3>4 DEF ResetsOK
    <3> QED BY <3>3, <3>4 DEF End
  <2> QED BY <2>3, <2>4
<1> QED BY <1>1, ResetsKept, PTL

====
