------------------------- MODULE MtuBulkSend_proofs -------------------------
(***************************************************************************)
(* The application and the sending half of its socket, for flows of any    *)
(* size, any buffer, chunk and window, any number of retries and any       *)
(* thresholds of the priorities.                                           *)
(***************************************************************************)
EXTENDS MtuBulkSend, TLAPS

(* Before the connection is there nothing has been handed over.            *)
Fresh ==
  /\ state \in {"NONE", "SYN_SENT", "CLOSED"} =>
       totBytes = 0 /\ ~closeOnEmpty /\ fin = NoFin /\ tags = <<>>
  /\ state \in {"NONE", "SYN_SENT"} => ~stopped
  /\ connected => state = "ESTABLISHED"

(* The buffer is never overfull, and no byte is handed over that the flow  *)
(* does not have.                                                          *)
InBuffer == totBytes - head <= BufferSize /\ totBytes <= Total

(* A close that waits has stopped the application, and while it waits some *)
(* byte has not been sent: its segment will carry the FIN.                 *)
Closing ==
  /\ closeOnEmpty \/ stopped => ~connected
  /\ closeOnEmpty /\ ~stopped => totBytes = maxBytes
  /\ closeOnEmpty /\ ~stopped /\ state = "ESTABLISHED" => high < totBytes
  /\ state = "ESTABLISHED" => fin = NoFin
  /\ fin # NoFin => fin = totBytes /\ (~stopped => totBytes = maxBytes)

(* A flow the buffer can hold is handed over at once, with the priority of *)
(* the whole of it.                                                        *)
AtOnce ==
  /\ totBytes = 0 => priority = GenPriority(AsInt(maxBytes))
  /\ maxBytes \in 1..BufferSize =>
       /\ ~connected
       /\ \A k \in DOMAIN tags : tags[k].priority = GenPriority(AsInt(maxBytes))

IInv == TypeOK /\ Fresh /\ InBuffer /\ Closing /\ PumpNeverStalls /\ AtOnce

(* The constants are natural numbers.                                      *)
LEMMA Constants ==
  /\ SendSize \in Nat \ {0} /\ BufferSize \in Nat \ {0} /\ Window \in Nat \ {0}
  /\ IntBits \in Nat \ {0} /\ Horizon \in Nat \ {0} /\ 2 ^ IntBits \in Nat \ {0}
  /\ 2 ^ (IntBits - 1) \in Nat \ {0} /\ 2 ^ IntBits = 2 * 2 ^ (IntBits - 1)
  /\ DataRetries \in Nat /\ Small \in Nat /\ Large \in Nat
  /\ SendSize <= BufferSize /\ Small <= Large
  /\ FlowSizes \subseteq Nat
  BY MtuBulkSendAssumption

(* What \div and % return.                                                 *)
LEMMA DivFact ==
  ASSUME NEW a \in Nat, NEW b \in Nat \ {0}
  PROVE  /\ a \div b \in Nat
         /\ (a \div b) * b \in Nat
         /\ (a \div b) * b <= a
         /\ a - (a \div b) * b < b
  BY SMT

LEMMA SmallDiv ==
  ASSUME NEW a \in Nat, NEW b \in Nat \ {0}, a < b
  PROVE  (a \div b) * b = 0
  BY SMT

(* gen_priority returns one of three priorities whatever int it is given.  *)
LEMMA PriorityRange == \A x \in Int : GenPriority(AsInt(x)) \in 0..2
<1> TAKE x \in Int
<1>1. AsInt(x) \in Int
  <2>1. x % (2 ^ IntBits) \in Int
    BY Constants
  <2>2. 2 ^ (IntBits - 1) \in Int /\ 2 ^ IntBits \in Int
    BY Constants
  <2> QED BY <2>1, <2>2 DEF AsInt
<1> QED BY <1>1, Constants DEF GenPriority

(* What SendData hands over fits into the buffer, belongs to the flow, and *)
(* leaves no room that it could have used.                                 *)
LEMMA HandedFact ==
  ASSUME NEW h \in Nat, totBytes \in Nat, maxBytes \in FlowSizes,
         totBytes - h <= BufferSize, totBytes <= Total, h <= totBytes
  PROVE  LET n == Handed(h)
             t == totBytes + n
         IN  /\ n \in Nat
             /\ t - h <= BufferSize
             /\ t <= Total
             /\ \/ Total - t = 0 /\ Total - t <= BufferSize - (t - h)
                \/ /\ ~(Total - t <= BufferSize - (t - h))
                   /\ ((BufferSize - (t - h)) \div SendSize) * SendSize = 0
<1> DEFINE room == BufferSize - (totBytes - h)
           rest == Total - totBytes
<1>1. Total \in Nat
  BY Constants DEF Total
<1>2. room \in Nat /\ rest \in Nat
  BY <1>1, Constants
<1>3. CASE rest <= room
  <2>1. Handed(h) = rest
    BY <1>3 DEF Handed
  <2> QED BY <2>1, <1>1, <1>2, <1>3, Constants
<1>4. CASE ~(rest <= room)
  <2> DEFINE n == (room \div SendSize) * SendSize
  <2>1. Handed(h) = n
    BY <1>4 DEF Handed
  <2>2. n \in Nat /\ n <= room /\ room - n < SendSize
    BY <1>2, Constants, DivFact
  <2>3. room - n \in Nat
    BY <2>2, <1>2
  <2>4. ((room - n) \div SendSize) * SendSize = 0
    BY <2>2, <2>3, Constants, SmallDiv
  <2>5. BufferSize - ((totBytes + n) - h) = room - n
    BY <2>2, Constants
  <2>6. /\ (totBytes + n) - h <= BufferSize
        /\ totBytes + n <= Total
        /\ ~(Total - (totBytes + n) <= BufferSize - ((totBytes + n) - h))
    BY <2>2, <1>1, <1>2, <1>4, Constants
  <2> HIDE DEF n
  <2> QED BY <2>1, <2>2, <2>4, <2>5, <2>6
<1> QED BY <1>3, <1>4

LEMMA FunctionIsSeq ==
  ASSUME NEW S, NEW m \in Nat, NEW f \in [1..m -> S]
  PROVE  f \in Seq(S)
  OBVIOUS

(* The chunks n bytes are cut into have the size of a chunk at most, the   *)
(* last one what is left, and the priority of the moment.                  *)
LEMMA ChunksFact ==
  ASSUME NEW n \in Nat, priority \in 0..2
  PROVE  /\ Chunks(n) \in Seq([size : 1..SendSize, priority : 0..2])
         /\ \A k \in DOMAIN Chunks(n) : Chunks(n)[k].priority = priority
<1> DEFINE m == (n + SendSize - 1) \div SendSize
<1>1. m \in Nat /\ m * SendSize <= n + SendSize - 1
  <2>1. n + SendSize - 1 \in Nat
    BY Constants
  <2> QED BY <2>1, Constants, DivFact
<1>2. ASSUME NEW k \in 1..m
      PROVE  Smaller(SendSize, n - (k - 1) * SendSize) \in 1..SendSize
  <2>1. k * SendSize <= m * SendSize
    <3> HIDE DEF m
    <3> QED BY <1>1, <1>2, Constants, SMT
  <2>2. (k - 1) * SendSize = k * SendSize - SendSize /\ k * SendSize \in Nat
    <3> HIDE DEF m
    <3> QED BY <1>1, <1>2, Constants, SMT
  <2>3. n - (k - 1) * SendSize >= 1 /\ n - (k - 1) * SendSize \in Int
    <3> HIDE DEF m
    <3> QED BY <1>1, <2>1, <2>2, Constants
  <2> QED BY <2>3, Constants DEF Smaller
<1> HIDE DEF m
<1>3. Chunks(n) = [k \in 1..m |-> [size |-> Smaller(SendSize, n - (k - 1) * SendSize),
                                   priority |-> priority]]
  BY DEF Chunks, m
<1>4. Chunks(n) \in [1..m -> [size : 1..SendSize, priority : 0..2]]
  BY <1>2, <1>3
<1>5. \A k \in DOMAIN Chunks(n) : Chunks(n)[k].priority = priority
  BY <1>3
<1>6. Chunks(n) \in Seq([size : 1..SendSize, priority : 0..2])
  BY <1>1, <1>4, FunctionIsSeq
<1> QED BY <1>5, <1>6

(* SendData keeps what the invariant says of the application; h is where   *)
(* the buffer starts and stays.                                            *)
LEMMA SendDataFact ==
  ASSUME NEW h \in Nat, TypeOK, InBuffer, h <= totBytes, h >= head,
         totBytes = 0 => priority = GenPriority(AsInt(maxBytes)),
         maxBytes \in 1..BufferSize => totBytes = 0 /\ h = 0 /\ tags = <<>>,
         ~closeOnEmpty,
         UNCHANGED <<maxBytes, priority>>, SendData(h)
  PROVE  /\ totBytes' \in Nat /\ totBytes <= totBytes'
         /\ tags' \in Seq([size : 1..SendSize, priority : 0..2])
         /\ connected' \in BOOLEAN /\ closeOnEmpty' \in BOOLEAN
         /\ totBytes' - h <= BufferSize /\ totBytes' <= Total'
         /\ closeOnEmpty' => totBytes' = maxBytes' /\ totBytes < totBytes'
         /\ closeOnEmpty' => ~connected'
         /\ head' = h => (connected' => Handed(head)' = 0)
         /\ totBytes' = 0 => totBytes = 0
         /\ maxBytes' \in 1..BufferSize =>
              /\ ~connected'
              /\ \A k \in DOMAIN tags' : tags'[k].priority = GenPriority(AsInt(maxBytes))
<1> DEFINE n == Handed(h)
<1>1. /\ n \in Nat
      /\ (totBytes + n) - h <= BufferSize
      /\ totBytes + n <= Total
      /\ \/ Total - (totBytes + n) = 0 /\ Total - (totBytes + n) <= BufferSize - ((totBytes + n) - h)
         \/ /\ ~(Total - (totBytes + n) <= BufferSize - ((totBytes + n) - h))
            /\ ((BufferSize - ((totBytes + n) - h)) \div SendSize) * SendSize = 0
  <2>1. totBytes \in Nat /\ maxBytes \in FlowSizes /\ head \in Nat /\ totBytes <= Total
        /\ totBytes - head <= BufferSize
    BY DEF TypeOK, InBuffer
  <2>2. totBytes - h <= BufferSize
    BY <2>1, Constants
  <2> QED BY <2>1, <2>2, HandedFact
<1>2. /\ totBytes' = totBytes + n
      /\ tags' = tags \o Chunks(n)
      /\ closeOnEmpty' = (closeOnEmpty \/ (n > 0 /\ totBytes + n = maxBytes))
      /\ connected' = ~(n > 0 /\ totBytes + n = maxBytes)
  BY DEF SendData
<1>3. Total' = Total
  BY DEF Total
<1>4. n = (IF maxBytes \in 1..BufferSize THEN maxBytes ELSE n)
  <2> SUFFICES ASSUME maxBytes \in 1..BufferSize PROVE n = maxBytes
    OBVIOUS
  <2>1. Total = maxBytes /\ totBytes = 0 /\ h = 0
    BY Constants DEF Total
  <2> QED BY <2>1, Constants DEF Handed
<1>5. head' = h => (connected' => Handed(head)' = 0)
  <2> SUFFICES ASSUME head' = h PROVE Handed(head)' = 0
    OBVIOUS
  <2>1. Handed(head)' = LET room == BufferSize - ((totBytes + n) - h)
                            rest == Total - (totBytes + n)
                        IN  IF rest <= room THEN rest ELSE (room \div SendSize) * SendSize
    <3> HIDE DEF n
    <3> QED BY <1>2, <1>3 DEF Handed
  <2> HIDE DEF n
  <2> QED BY <1>1, <2>1
<1>6. /\ Chunks(n) \in Seq([size : 1..SendSize, priority : 0..2])
      /\ \A k \in DOMAIN Chunks(n) : Chunks(n)[k].priority = priority
  <2>1. priority \in 0..2
    BY DEF TypeOK
  <2> HIDE DEF n
  <2> QED BY <1>1, <2>1, ChunksFact
<1> HIDE DEF n
<1>7. tags' \in Seq([size : 1..SendSize, priority : 0..2])
  BY <1>2, <1>6 DEF TypeOK
<1>8. maxBytes' \in 1..BufferSize =>
        /\ ~connected'
        /\ \A k \in DOMAIN tags' : tags'[k].priority = GenPriority(AsInt(maxBytes))
  <2> SUFFICES ASSUME maxBytes \in 1..BufferSize
               PROVE  /\ ~connected'
                      /\ \A k \in DOMAIN tags' : tags'[k].priority = GenPriority(AsInt(maxBytes))
    OBVIOUS
  <2>1. n = maxBytes /\ n > 0 /\ totBytes + n = maxBytes
    BY <1>4, Constants
  <2>2. ~connected'
    BY <1>2, <2>1
  <2>3. tags' = Chunks(n)
    BY <1>2, <1>6
  <2> QED BY <1>6, <2>2, <2>3
<1>9. totBytes \in Nat
  BY DEF TypeOK
<1>10. /\ totBytes' \in Nat /\ totBytes <= totBytes'
       /\ totBytes' - h <= BufferSize /\ totBytes' <= Total'
       /\ totBytes' = 0 => totBytes = 0
  BY <1>1, <1>2, <1>3, <1>9
<1>11. /\ connected' \in BOOLEAN /\ closeOnEmpty' \in BOOLEAN
       /\ closeOnEmpty' => ~connected'
       /\ closeOnEmpty' => n > 0 /\ totBytes + n = maxBytes
  BY <1>2, Zenon
<1>12. closeOnEmpty' => totBytes' = maxBytes' /\ totBytes < totBytes'
  BY <1>1, <1>2, <1>9, <1>11
<1> QED BY <1>5, <1>7, <1>8, <1>10, <1>11, <1>12

(* The application is created with nothing handed over.                    *)
LEMMA InitIInv == Init => IInv
<1> SUFFICES ASSUME Init PROVE IInv
  OBVIOUS
<1>1. /\ maxBytes \in FlowSizes /\ maxBytes \in Nat
      /\ totBytes = 0 /\ tags = <<>> /\ head = 0 /\ next = 0 /\ high = 0
      /\ priority = GenPriority(AsInt(maxBytes))
      /\ state = "NONE" /\ fin = NoFin /\ retries = DataRetries
      /\ segmentSize = SendSize
      /\ connected = FALSE /\ stopped = FALSE /\ closeOnEmpty = FALSE /\ endPoint = FALSE
  BY Constants DEF Init
<1>2. TypeOK
  <2>1. priority \in 0..2
    BY <1>1, PriorityRange
  <2>2. tags \in Seq([size : 1..SendSize, priority : 0..2])
    BY <1>1
  <2>3. retries \in 0..DataRetries /\ {head, next, high} \subseteq Nat
    BY <1>1, Constants
  <2>4. segmentSize \in Sizes \cup {SendSize} /\ fin \in Nat \cup {NoFin} /\ totBytes \in Nat
    BY <1>1
  <2>5. head <= next /\ next <= high /\ high <= totBytes
    BY <1>1
  <2>6. connected \in BOOLEAN /\ stopped \in BOOLEAN /\ endPoint \in BOOLEAN /\ closeOnEmpty \in BOOLEAN
    BY <1>1, Zenon
  <2> QED BY <1>1, <2>1, <2>2, <2>3, <2>4, <2>5, <2>6 DEF TypeOK
<1>3. Fresh /\ Closing /\ AtOnce
  BY <1>1 DEF Fresh, Closing, AtOnce
<1>4. InBuffer
  BY <1>1, Constants DEF InBuffer, Total
<1>5. PumpNeverStalls
  BY <1>1 DEF PumpNeverStalls
<1> QED BY <1>2, <1>3, <1>4, <1>5 DEF IInv

(* What an action that leaves the application and the buffer alone keeps.  *)
LEMMA AppUnchanged ==
  ASSUME IInv, UNCHANGED <<maxBytes, totBytes, head, tags, priority>>,
         connected' = connected \/ connected' = FALSE
  PROVE  InBuffer' /\ PumpNeverStalls' /\ AtOnce'
<1>1. Total' = Total /\ Handed(head)' = Handed(head)
  BY DEF Total, Handed
<1>2. InBuffer'
  BY <1>1 DEF IInv, InBuffer
<1>3. PumpNeverStalls'
  BY <1>1 DEF IInv, PumpNeverStalls
<1>4. AtOnce'
  BY DEF IInv, AtOnce
<1> QED BY <1>2, <1>3, <1>4

LEMMA StartIInv == IInv /\ StartApplication => IInv'
<1> SUFFICES ASSUME IInv, StartApplication PROVE IInv'
  OBVIOUS
<1>1. InBuffer' /\ PumpNeverStalls' /\ AtOnce'
  BY AppUnchanged DEF StartApplication, app
<1>2. TypeOK'
  BY DEF IInv, TypeOK, StartApplication, app
<1>3. Fresh' /\ Closing'
  BY DEF IInv, Fresh, Closing, StartApplication, app
<1> QED BY <1>1, <1>2, <1>3 DEF IInv

LEMMA SynFailsIInv == IInv /\ SynFails => IInv'
<1> SUFFICES ASSUME IInv, SynFails PROVE IInv'
  OBVIOUS
<1>1. InBuffer' /\ PumpNeverStalls' /\ AtOnce'
  BY AppUnchanged DEF SynFails, app
<1>2. TypeOK'
  BY DEF IInv, TypeOK, SynFails, app
<1>3. Fresh' /\ Closing'
  BY DEF IInv, Fresh, Closing, SynFails, app
<1> QED BY <1>1, <1>2, <1>3 DEF IInv

(* The connection is there and the first SendData runs.                    *)
LEMMA SynAckIInv == IInv /\ SynAck => IInv'
<1> SUFFICES ASSUME IInv, SynAck PROVE IInv'
  OBVIOUS
<1>1. /\ TypeOK /\ InBuffer /\ totBytes = 0 /\ ~closeOnEmpty /\ fin = NoFin
      /\ tags = <<>> /\ ~stopped /\ head = 0 /\ next = 0 /\ high = 0
      /\ priority = GenPriority(AsInt(maxBytes))
  BY DEF IInv, TypeOK, Fresh, AtOnce, SynAck
<1>2. /\ totBytes' \in Nat /\ totBytes <= totBytes'
      /\ tags' \in Seq([size : 1..SendSize, priority : 0..2])
      /\ connected' \in BOOLEAN /\ closeOnEmpty' \in BOOLEAN
      /\ totBytes' - head <= BufferSize /\ totBytes' <= Total'
      /\ closeOnEmpty' => totBytes' = maxBytes' /\ totBytes < totBytes'
      /\ closeOnEmpty' => ~connected'
      /\ head' = head => (connected' => Handed(head)' = 0)
      /\ totBytes' = 0 => totBytes = 0
      /\ maxBytes' \in 1..BufferSize =>
           /\ ~connected'
           /\ \A k \in DOMAIN tags' : tags'[k].priority = GenPriority(AsInt(maxBytes))
  <2>1. head \in Nat /\ head <= totBytes /\ head >= head
    BY <1>1
  <2>2. SendData(head) /\ UNCHANGED <<maxBytes, priority>>
    BY DEF SynAck
  <2> QED BY <1>1, <2>1, <2>2, SendDataFact
<1>3. /\ UNCHANGED <<maxBytes, priority, segmentSize, stopped, endPoint,
                     head, next, high, retries, fin>>
      /\ state' = "ESTABLISHED"
  BY DEF SynAck
<1>4. TypeOK'
  BY <1>1, <1>2, <1>3 DEF TypeOK
<1>5. Fresh' /\ Closing'
  BY <1>1, <1>2, <1>3 DEF Fresh, Closing
<1>6. InBuffer' /\ PumpNeverStalls' /\ AtOnce'
  BY <1>1, <1>2, <1>3 DEF InBuffer, PumpNeverStalls, AtOnce
<1> QED BY <1>4, <1>5, <1>6 DEF IInv

(* An acknowledgement makes room, and the application fills it.            *)
LEMMA AckIInv == IInv /\ Ack => IInv'
<1> SUFFICES ASSUME IInv, Ack PROVE IInv'
  OBVIOUS
<1>1. PICK a \in (head + 1)..high : head' = a /\ next' = Larger(next, a) /\ DataSend(a)
  BY DEF Ack
<1>2. /\ UNCHANGED <<maxBytes, priority, segmentSize, stopped, state, endPoint, high, fin>>
      /\ retries' = DataRetries
  BY DEF Ack
<1>3. /\ head \in Nat /\ next \in Nat /\ high \in Nat /\ totBytes \in Nat
      /\ head <= next /\ next <= high /\ high <= totBytes
      /\ a \in Nat /\ head < a /\ a <= totBytes /\ a <= high
  BY <1>1 DEF IInv, TypeOK
<1>4. next' \in Nat /\ head' <= next' /\ next' <= high'
  BY <1>1, <1>2, <1>3 DEF Larger
<1>5. Total' = Total
  BY <1>2 DEF Total
<1>6. CASE connected
  <2>1. SendData(a) /\ ~closeOnEmpty /\ ~stopped /\ state = "ESTABLISHED" /\ ~(maxBytes \in 1..BufferSize)
    BY <1>1, <1>6 DEF DataSend, IInv, Closing, Fresh, AtOnce
  <2>2. /\ totBytes' \in Nat /\ totBytes <= totBytes'
        /\ tags' \in Seq([size : 1..SendSize, priority : 0..2])
        /\ connected' \in BOOLEAN /\ closeOnEmpty' \in BOOLEAN
        /\ totBytes' - a <= BufferSize /\ totBytes' <= Total'
        /\ closeOnEmpty' => totBytes' = maxBytes' /\ totBytes < totBytes'
        /\ closeOnEmpty' => ~connected'
        /\ head' = a => (connected' => Handed(head)' = 0)
        /\ totBytes' = 0 => totBytes = 0
    <3>1. /\ TypeOK /\ InBuffer /\ a <= totBytes /\ a >= head
          /\ totBytes = 0 => priority = GenPriority(AsInt(maxBytes))
      BY <1>3 DEF IInv, AtOnce
    <3> QED BY <1>2, <1>3, <2>1, <3>1, SendDataFact
  <2>3. TypeOK'
    BY <1>1, <1>2, <1>3, <1>4, <2>2, Constants DEF IInv, TypeOK
  <2>4. Fresh'
    BY <1>2, <2>1 DEF IInv, Fresh
  <2>5. Closing'
    BY <1>2, <1>3, <2>1, <2>2 DEF IInv, Closing
  <2>6. InBuffer' /\ PumpNeverStalls' /\ AtOnce'
    BY <1>1, <1>2, <2>1, <2>2 DEF IInv, InBuffer, PumpNeverStalls, AtOnce
  <2> QED BY <2>3, <2>4, <2>5, <2>6 DEF IInv
<1>7. CASE ~connected
  <2>1. UNCHANGED <<totBytes, tags, closeOnEmpty, connected>>
    BY <1>1, <1>7 DEF DataSend
  <2>2. TypeOK'
    BY <1>1, <1>2, <1>3, <1>4, <2>1, Constants DEF IInv, TypeOK
  <2>3. Fresh' /\ Closing' /\ AtOnce' /\ PumpNeverStalls'
    BY <1>2, <1>7, <2>1 DEF IInv, Fresh, Closing, AtOnce, PumpNeverStalls
  <2>4. totBytes' - head' <= BufferSize
    BY <1>1, <1>3, <2>1, Constants DEF IInv, InBuffer
  <2>5. InBuffer'
    BY <1>5, <2>1, <2>4 DEF IInv, InBuffer
  <2> QED BY <2>2, <2>3, <2>5 DEF IInv
<1> QED BY <1>6, <1>7

(* SendDataPacket, new or again, within what has been handed over: the FIN *)
(* is on the segment with the last byte.                                   *)
LEMMA SendDataPacketFact ==
  ASSUME IInv, NEW seq \in Nat, NEW n \in Nat, n > 0, SendDataPacket(seq, n),
         head <= seq, seq + n <= totBytes,
         state \in {"ESTABLISHED", "FIN_WAIT_1"},
         UNCHANGED <<app, endPoint, closeOnEmpty, head>>
  PROVE  /\ next' \in Nat /\ high' \in Nat
         /\ head' <= next' /\ next' <= high' /\ high' <= totBytes'
         /\ state' \in {"ESTABLISHED", "FIN_WAIT_1"}
         /\ connected' => state' = "ESTABLISHED"
         /\ fin' \in Nat \cup {NoFin}
         /\ Closing'
<1>1. /\ head \in Nat /\ next \in Nat /\ high \in Nat /\ totBytes \in Nat
      /\ head <= next /\ next <= high /\ high <= totBytes
      /\ fin \in Nat \cup {NoFin}
  BY DEF IInv, TypeOK
<1>2. UNCHANGED <<maxBytes, connected, totBytes, stopped>>
  BY DEF app
<1>3. next' = seq + n /\ high' = Larger(high, seq + n)
  BY DEF SendDataPacket
<1>4. /\ next' \in Nat /\ high' \in Nat
      /\ head' <= next' /\ next' <= high' /\ high' <= totBytes'
  BY <1>1, <1>2, <1>3 DEF Larger
<1>5. CASE closeOnEmpty /\ seq + n = totBytes
  <2>1. state' = "FIN_WAIT_1" /\ fin' = totBytes
    BY <1>5 DEF SendDataPacket
  <2>2. ~connected
    BY <1>5 DEF IInv, Closing
  <2>3. Closing'
    BY <1>2, <1>5, <2>1, <2>2 DEF IInv, Closing
  <2> QED BY <1>1, <1>2, <1>4, <2>1, <2>2, <2>3
<1>6. CASE ~(closeOnEmpty /\ seq + n = totBytes)
  <2>1. state' = state /\ fin' = fin
    BY <1>6 DEF SendDataPacket
  <2>2. connected => state = "ESTABLISHED"
    BY DEF IInv, Fresh
  <2>3. closeOnEmpty /\ ~stopped /\ state = "ESTABLISHED" => high' < totBytes
    BY <1>1, <1>3, <1>6 DEF IInv, Closing, Larger
  <2>4. Closing'
    BY <1>2, <2>1, <2>3 DEF IInv, Closing
  <2> QED BY <1>1, <1>2, <1>4, <2>1, <2>2, <2>4
<1> QED BY <1>5, <1>6

LEMMA TransmitIInv == IInv /\ Transmit => IInv'
<1> SUFFICES ASSUME IInv, Transmit PROVE IInv'
  OBVIOUS
<1>1. PICK n \in 1..Window : /\ next + n <= (IF next < high THEN high ELSE totBytes)
                             /\ SendDataPacket(next, n)
  BY DEF Transmit
<1>2. /\ UNCHANGED <<app, endPoint, closeOnEmpty, head, retries>>
      /\ state \in {"ESTABLISHED", "FIN_WAIT_1"}
  BY DEF Transmit
<1>3. next \in Nat /\ n \in Nat /\ n > 0 /\ head <= next /\ next + n <= totBytes
  BY <1>1, Constants DEF IInv, TypeOK
<1>4. /\ next' \in Nat /\ high' \in Nat
      /\ head' <= next' /\ next' <= high' /\ high' <= totBytes'
      /\ state' \in {"ESTABLISHED", "FIN_WAIT_1"}
      /\ connected' => state' = "ESTABLISHED"
      /\ fin' \in Nat \cup {NoFin}
      /\ Closing'
  BY <1>1, <1>2, <1>3, SendDataPacketFact
<1>5. TypeOK' /\ Fresh'
  BY <1>2, <1>4 DEF IInv, TypeOK, Fresh, app
<1>6. InBuffer' /\ PumpNeverStalls' /\ AtOnce'
  BY <1>2, AppUnchanged DEF app
<1> QED BY <1>4, <1>5, <1>6 DEF IInv

LEMMA RetransmitIInv == IInv /\ Retransmit => IInv'
<1> SUFFICES ASSUME IInv, Retransmit PROVE IInv'
  OBVIOUS
<1>1. PICK n \in 1..Window : head + n <= high /\ SendDataPacket(head, n)
  BY DEF Retransmit
<1>2. /\ UNCHANGED <<app, endPoint, closeOnEmpty, head>>
      /\ head < high /\ retries' = retries - 1 /\ retries > 0
  BY DEF Retransmit
<1>3. /\ head \in Nat /\ n \in Nat /\ n > 0 /\ head + n <= totBytes
      /\ retries' \in 0..DataRetries
      /\ state \in {"ESTABLISHED", "FIN_WAIT_1"}
  BY <1>1, <1>2, Constants DEF IInv, TypeOK, Fresh
<1>4. /\ next' \in Nat /\ high' \in Nat
      /\ head' <= next' /\ next' <= high' /\ high' <= totBytes'
      /\ state' \in {"ESTABLISHED", "FIN_WAIT_1"}
      /\ connected' => state' = "ESTABLISHED"
      /\ fin' \in Nat \cup {NoFin}
      /\ Closing'
  BY <1>1, <1>2, <1>3, SendDataPacketFact
<1>5. TypeOK' /\ Fresh'
  BY <1>2, <1>3, <1>4 DEF IInv, TypeOK, Fresh, app
<1>6. InBuffer' /\ PumpNeverStalls' /\ AtOnce'
  BY <1>2, AppUnchanged DEF app
<1> QED BY <1>4, <1>5, <1>6 DEF IInv

LEMMA GiveUpIInv == IInv /\ GiveUp => IInv'
<1> SUFFICES ASSUME IInv, GiveUp PROVE IInv'
  OBVIOUS
<1>1. InBuffer' /\ PumpNeverStalls' /\ AtOnce'
  BY AppUnchanged DEF GiveUp, app
<1>2. TypeOK' /\ Fresh' /\ Closing'
  BY DEF IInv, TypeOK, Fresh, Closing, GiveUp, app
<1> QED BY <1>1, <1>2 DEF IInv

(* The stop closes, or leaves a close behind; nothing is handed over       *)
(* afterwards.                                                             *)
LEMMA StopIInv == IInv /\ StopApplication => IInv'
<1> SUFFICES ASSUME IInv, StopApplication PROVE IInv'
  OBVIOUS
<1>1. /\ UNCHANGED <<maxBytes, totBytes, priority, segmentSize, tags, head, next, high, retries>>
      /\ state # "NONE" /\ ~stopped /\ stopped' = TRUE /\ connected' = FALSE
  BY DEF StopApplication
<1>2. InBuffer' /\ PumpNeverStalls' /\ AtOnce'
  BY <1>1, AppUnchanged
<1>3. CASE totBytes > next /\ closeOnEmpty' = TRUE /\ UNCHANGED <<state, fin, endPoint>>
  <2>1. state \notin {"NONE", "SYN_SENT", "CLOSED"}
    BY <1>3 DEF IInv, TypeOK, Fresh
  <2>2. TypeOK' /\ Fresh'
    BY <1>1, <1>3, <2>1 DEF IInv, TypeOK, Fresh
  <2>3. Closing'
    BY <1>1, <1>3 DEF IInv, Closing
  <2> QED BY <1>2, <2>2, <2>3 DEF IInv
<1>4. CASE totBytes = next /\ DoClose /\ UNCHANGED closeOnEmpty
  <2>1. /\ state' = CASE state = "ESTABLISHED" -> "FIN_WAIT_1"
                      [] state = "SYN_SENT" -> "CLOSED"
                      [] OTHER -> state
        /\ fin' = IF state = "ESTABLISHED" /\ endPoint THEN totBytes ELSE fin
        /\ endPoint' = (endPoint /\ state # "SYN_SENT")
    BY <1>4 DEF DoClose
  <2>2. endPoint' \in BOOLEAN
    BY <2>1, Zenon DEF IInv, TypeOK
  <2>3. CASE state = "ESTABLISHED"
    <3>1. state' = "FIN_WAIT_1" /\ fin' \in {totBytes, fin}
      BY <2>1, <2>3
    <3> QED BY <1>1, <1>2, <1>4, <2>2, <3>1 DEF IInv, TypeOK, Fresh, Closing
  <2>4. CASE state = "SYN_SENT"
    <3>1. state' = "CLOSED" /\ fin' = fin
      BY <2>1, <2>4
    <3> QED BY <1>1, <1>2, <1>4, <2>2, <2>4, <3>1 DEF IInv, TypeOK, Fresh, Closing
  <2>5. CASE state \notin {"ESTABLISHED", "SYN_SENT"}
    <3>1. state' = state /\ fin' = fin
      BY <2>1, <2>5
    <3> QED BY <1>1, <1>2, <1>4, <2>2, <2>5, <3>1 DEF IInv, TypeOK, Fresh, Closing
  <2> QED BY <2>3, <2>4, <2>5
<1> QED BY <1>3, <1>4 DEF StopApplication

(* The update of every second changes the priority of the bytes to come.   *)
LEMMA UpdateIInv == IInv /\ UpdateMTUandPri => IInv'
<1> SUFFICES ASSUME IInv, UpdateMTUandPri PROVE IInv'
  OBVIOUS
<1>1. /\ UNCHANGED <<maxBytes, connected, totBytes, tags, stopped, sock>>
      /\ priority' = GenPriority(AsInt(maxBytes - totBytes))
      /\ segmentSize' \in Sizes
  BY DEF UpdateMTUandPri
<1>2. maxBytes \in Nat /\ totBytes \in Nat
  BY Constants DEF IInv, TypeOK
<1>3. priority' \in 0..2
  BY <1>1, <1>2, PriorityRange
<1>4. TypeOK'
  BY <1>1, <1>3 DEF IInv, TypeOK, sock
<1>5. Fresh' /\ Closing'
  BY <1>1 DEF IInv, Fresh, Closing, sock
<1>6. InBuffer' /\ PumpNeverStalls'
  BY <1>1 DEF IInv, InBuffer, PumpNeverStalls, Total, Handed, sock
<1>7. totBytes' = 0 => priority' = GenPriority(AsInt(maxBytes))
  BY <1>1, <1>2
<1>8. AtOnce'
  BY <1>1, <1>7 DEF IInv, AtOnce
<1> QED BY <1>4, <1>5, <1>6, <1>8 DEF IInv

-----------------------------------------------------------------------------
(* The invariant holds in every state of every flow.                       *)
THEOREM Inductive == Spec => []IInv
<1>1. IInv /\ [Next]_vars => IInv'
  <2> SUFFICES ASSUME IInv, [Next]_vars PROVE IInv'
    OBVIOUS
  <2>1. CASE StartApplication
    BY <2>1, StartIInv
  <2>2. CASE SynAck
    BY <2>2, SynAckIInv
  <2>3. CASE SynFails
    BY <2>3, SynFailsIInv
  <2>4. CASE Transmit
    BY <2>4, TransmitIInv
  <2>5. CASE Ack
    BY <2>5, AckIInv
  <2>6. CASE ReTxTimeout
    BY <2>6, RetransmitIInv, GiveUpIInv DEF ReTxTimeout
  <2>7. CASE StopApplication
    BY <2>7, StopIInv
  <2>8. CASE UpdateMTUandPri
    BY <2>8, UpdateIInv
  <2>9. CASE UNCHANGED vars
    BY <2>9 DEF vars, app, sock, IInv, TypeOK, Fresh, InBuffer, Closing,
                PumpNeverStalls, AtOnce, Total, Handed
  <2> QED BY <2>1, <2>2, <2>3, <2>4, <2>5, <2>6, <2>7, <2>8, <2>9 DEF Next
<1> QED BY <1>1, InitIInv, PTL DEF Spec

(* Types of application and socket, and the order of the sequence numbers: *)
(* head <= next <= high <= totBytes, whatever is lost or retransmitted.    *)
THEOREM TypeCorrect == Spec => []TypeOK
<1>1. IInv => TypeOK
  BY DEF IInv
<1> QED BY <1>1, Inductive, PTL

(* SendData never leaves room in the buffer that the next chunk would fit  *)
(* into, for any buffer and any chunk.                                     *)
THEOREM PumpNeverStallsCorrect == Spec => []PumpNeverStalls
<1>1. IInv => PumpNeverStalls
  BY DEF IInv
<1> QED BY <1>1, Inductive, PTL

(* The FIN of SendDataPacket is behind the last byte, for any flow, with   *)
(* any retransmissions and any StopApplication.                            *)
THEOREM NoTruncationCorrect == Spec => []NoTruncation
<1>1. IInv => NoTruncation
  BY DEF IInv, Closing, NoTruncation
<1> QED BY <1>1, Inductive, PTL

(* The Close of the application itself is never forgotten.                 *)
THEOREM OwnCloseCorrect == Spec => []OwnCloseHappens
<1>1. IInv => OwnCloseHappens
  <2> SUFFICES ASSUME IInv, closeOnEmpty, ~stopped, head = totBytes, state = "ESTABLISHED"
               PROVE  FALSE
    BY DEF OwnCloseHappens
  <2> QED BY DEF IInv, TypeOK, Closing
<1> QED BY <1>1, Inductive, PTL

(* Every chunk of a flow that fits the buffer has the priority of the      *)
(* whole flow: updateMTUandPriInDc/Wan comes too late for all of them.     *)
THEOREM UpdateComesTooLateCorrect == Spec => []UpdateComesTooLate
<1>1. IInv => UpdateComesTooLate
  BY DEF IInv, AtOnce, UpdateComesTooLate
<1> QED BY <1>1, Inductive, PTL

-----------------------------------------------------------------------------
(* For the order of the priorities: no chunk handed over has a better one  *)
(* than the application has now, and that is never better than the one of  *)
(* the bytes left.                                                         *)
Improving ==
  FitsInt => /\ \A k \in DOMAIN tags : priority <= tags[k].priority
             /\ GenPriority(maxBytes - totBytes) <= priority

(* A size that fits an int is not changed by the conversion.               *)
LEMMA AsIntFits ==
  ASSUME NEW x \in Nat, x < 2 ^ (IntBits - 1)
  PROVE  AsInt(x) = x
<1> DEFINE h == 2 ^ (IntBits - 1)
           m == 2 ^ IntBits
<1>1. h \in Nat \ {0} /\ m = 2 * h /\ x < h
  BY Constants
<1>2. AsInt(x) = IF x % m < h THEN x % m ELSE (x % m) - m
  BY DEF AsInt
<1> HIDE DEF h, m
<1>3. x < m /\ m \in Nat \ {0}
  BY <1>1
<1>4. x % m = x
  BY <1>3
<1> QED BY <1>1, <1>2, <1>4

(* Fewer bytes never have a worse priority.                                *)
LEMMA PriorityMonotone ==
  ASSUME NEW x \in Nat, NEW y \in Nat, x <= y
  PROVE  /\ GenPriority(x) <= GenPriority(y)
         /\ GenPriority(x) \in 0..2
BY Constants DEF GenPriority

(* The chunks SendData appends have the priority of the moment.            *)
LEMMA SendDataImproves ==
  ASSUME IInv, Improving, PriorityImproves, NEW h \in Nat, h <= totBytes, h >= head,
         UNCHANGED <<maxBytes, priority>>, SendData(h)
  PROVE  Improving' /\ PriorityImproves'
<1> SUFFICES ASSUME FitsInt PROVE Improving' /\ PriorityImproves'
  BY DEF Improving, PriorityImproves, FitsInt
<1> DEFINE n == Handed(h)
           T == [size : 1..SendSize, priority : 0..2]
<1>1. /\ tags \in Seq(T) /\ priority \in 0..2 /\ totBytes \in Nat /\ maxBytes \in Nat
      /\ totBytes <= maxBytes /\ totBytes - head <= BufferSize /\ head \in Nat
      /\ maxBytes \in FlowSizes
  BY Constants DEF IInv, TypeOK, InBuffer, Total, FitsInt
<1>2. n \in Nat /\ totBytes + n <= maxBytes
  <2>1. totBytes <= Total /\ Total = maxBytes
    BY <1>1 DEF Total, FitsInt
  <2>2. totBytes - h <= BufferSize
    BY <1>1, Constants
  <2> QED BY <1>1, <2>1, <2>2, HandedFact
<1>3. tags' = tags \o Chunks(n) /\ totBytes' = totBytes + n
  BY DEF SendData
<1>4. /\ Chunks(n) \in Seq(T)
      /\ \A k \in DOMAIN Chunks(n) : Chunks(n)[k].priority = priority
  <2> HIDE DEF n
  <2> QED BY <1>1, <1>2, ChunksFact
<1> DEFINE c == Chunks(n)
<1>5. /\ Len(tags) \in Nat /\ DOMAIN tags = 1..Len(tags)
      /\ Len(c) \in Nat /\ DOMAIN c = 1..Len(c)
  <2> HIDE DEF c
  <2> QED BY <1>1, <1>4 DEF c
<1>6. /\ DOMAIN tags' = 1..(Len(tags) + Len(c))
      /\ \A k \in 1..Len(tags) : tags'[k] = tags[k]
      /\ \A k \in (Len(tags) + 1)..(Len(tags) + Len(c)) :
           tags'[k].priority = priority
  <2> HIDE DEF c, T
  <2>1. tags' = tags \o c /\ tags \in Seq(T) /\ c \in Seq(T)
    BY <1>1, <1>3, <1>4 DEF c
  <2>2. ASSUME NEW k \in (Len(tags) + 1)..(Len(tags) + Len(c))
        PROVE  tags'[k].priority = priority
    <3>1. tags'[k] = c[k - Len(tags)] /\ k - Len(tags) \in DOMAIN c
      BY <1>5, <2>1
    <3> QED BY <1>4, <3>1 DEF c
  <2>3. DOMAIN tags' = 1..(Len(tags) + Len(c)) /\ \A k \in 1..Len(tags) : tags'[k] = tags[k]
    BY <1>5, <2>1
  <2> QED BY <2>2, <2>3
<1> HIDE DEF c
<1>7. \A k \in DOMAIN tags : priority <= tags[k].priority
  BY DEF Improving
<1>8. \A j, k \in DOMAIN tags : j < k => tags[k].priority <= tags[j].priority
  BY DEF PriorityImproves
<1>9. \A k \in DOMAIN tags' : priority <= tags'[k].priority
  BY <1>1, <1>5, <1>6, <1>7
<1>10. \A j, k \in DOMAIN tags' : j < k => tags'[k].priority <= tags'[j].priority
  <2> SUFFICES ASSUME NEW j \in DOMAIN tags', NEW k \in DOMAIN tags', j < k
               PROVE  tags'[k].priority <= tags'[j].priority
    OBVIOUS
  <2>1. CASE k \in 1..Len(tags)
    BY <1>5, <1>6, <1>8, <2>1
  <2>2. CASE k \notin 1..Len(tags)
    <3>1. tags'[k].priority = priority
      BY <1>5, <1>6, <2>2
    <3> QED BY <1>9, <3>1
  <2> QED BY <2>1, <2>2
<1>11. GenPriority(maxBytes - (totBytes + n)) <= priority
  <2> HIDE DEF n
  <2>1. GenPriority(maxBytes - totBytes) <= priority
    BY DEF Improving
  <2>2. /\ maxBytes - (totBytes + n) \in Nat /\ maxBytes - totBytes \in Nat
        /\ maxBytes - (totBytes + n) <= maxBytes - totBytes
    BY <1>1, <1>2
  <2>3. /\ GenPriority(maxBytes - (totBytes + n)) <= GenPriority(maxBytes - totBytes)
        /\ GenPriority(maxBytes - (totBytes + n)) \in 0..2 /\ GenPriority(maxBytes - totBytes) \in 0..2
    BY <2>2, PriorityMonotone
  <2> QED BY <1>1, <2>1, <2>3
<1> QED BY <1>3, <1>9, <1>10, <1>11 DEF Improving, PriorityImproves, GenPriority

(* Later chunks never have a worse priority than earlier ones, for every   *)
(* flow whose size an int holds, any thresholds and any width of int: only *)
(* what remains decides in gen_priority, and it only shrinks.              *)
THEOREM PriorityImprovesCorrect == Spec => []PriorityImproves
<1>1. Init => Improving /\ PriorityImproves
  <2> SUFFICES ASSUME Init, FitsInt PROVE Improving /\ PriorityImproves
    BY DEF Improving, PriorityImproves
  <2>1. /\ maxBytes \in Nat /\ maxBytes < 2 ^ (IntBits - 1)
        /\ tags = <<>> /\ totBytes = 0 /\ priority = GenPriority(AsInt(maxBytes))
    BY Constants DEF Init, FitsInt
  <2>2. priority = GenPriority(maxBytes) /\ maxBytes - totBytes = maxBytes
    BY <2>1, AsIntFits
  <2>3. GenPriority(maxBytes) \in 0..2
    BY <2>1, PriorityMonotone
  <2> QED BY <2>1, <2>2, <2>3 DEF Improving, PriorityImproves
<1>2. IInv /\ Improving /\ PriorityImproves /\ [Next]_vars => Improving' /\ PriorityImproves'
  <2> SUFFICES ASSUME IInv, Improving, PriorityImproves, [Next]_vars
               PROVE  Improving' /\ PriorityImproves'
    OBVIOUS
  <2>1. /\ head \in Nat /\ high \in Nat /\ totBytes \in Nat
        /\ head <= high /\ high <= totBytes
    BY DEF IInv, TypeOK
  <2>2. CASE SynAck
    BY <2>1, <2>2, SendDataImproves DEF SynAck
  <2>3. CASE Ack
    <3>1. PICK a \in (head + 1)..high : DataSend(a) /\ UNCHANGED <<maxBytes, priority>>
      BY <2>3 DEF Ack
    <3>2. a \in Nat /\ a >= head /\ a <= totBytes
      BY <2>1
    <3>3. CASE connected
      BY <3>1, <3>2, <3>3, SendDataImproves DEF DataSend
    <3>4. CASE ~connected
      <4>1. UNCHANGED <<maxBytes, priority, totBytes, tags>>
        BY <3>1, <3>4 DEF DataSend
      <4> QED BY <4>1 DEF Improving, PriorityImproves, FitsInt
    <3> QED BY <3>3, <3>4
  <2>4. CASE UpdateMTUandPri
    <3>1. /\ UNCHANGED <<maxBytes, totBytes, tags>>
          /\ priority' = GenPriority(AsInt(maxBytes - totBytes))
      BY <2>4 DEF UpdateMTUandPri
    <3>2. PriorityImproves'
      BY <3>1 DEF PriorityImproves, FitsInt
    <3>3. ASSUME FitsInt PROVE Improving'
      <4>1. maxBytes - totBytes \in Nat /\ maxBytes - totBytes < 2 ^ (IntBits - 1)
        BY <3>3, Constants DEF IInv, TypeOK, InBuffer, Total, FitsInt
      <4>2. priority' = GenPriority(maxBytes - totBytes)
        BY <3>1, <4>1, AsIntFits
      <4>3. GenPriority(maxBytes - totBytes) \in 0..2 /\ priority \in 0..2
        BY <4>1, PriorityMonotone DEF IInv, TypeOK
      <4>4. /\ GenPriority(maxBytes - totBytes) <= priority
            /\ \A k \in DOMAIN tags : priority <= tags[k].priority
        BY <3>3 DEF Improving
      <4>5. \A k \in DOMAIN tags : tags[k].priority \in 0..2
        <5> DEFINE T == [size : 1..SendSize, priority : 0..2]
        <5>1. tags \in Seq(T)
          BY DEF IInv, TypeOK
        <5>2. \A k \in DOMAIN tags : tags[k] \in T
          <6> HIDE DEF T
          <6> QED BY <5>1
        <5> QED BY <5>2
      <4>6. \A k \in DOMAIN tags' : priority' <= tags'[k].priority
        BY <3>1, <4>2, <4>3, <4>4, <4>5
      <4>7. GenPriority(maxBytes - totBytes)' <= priority'
        <5>1. GenPriority(maxBytes - totBytes)' = GenPriority(maxBytes - totBytes)
          BY <3>1 DEF GenPriority
        <5> QED BY <4>2, <4>3, <5>1
      <4> QED BY <4>6, <4>7 DEF Improving
    <3>4. FitsInt' <=> FitsInt
      BY <3>1 DEF FitsInt
    <3> QED BY <3>2, <3>3, <3>4 DEF Improving
  <2>5. ASSUME \/ StartApplication \/ SynFails \/ Transmit \/ ReTxTimeout
               \/ StopApplication \/ UNCHANGED vars
        PROVE  UNCHANGED <<maxBytes, totBytes, priority, tags>>
    BY <2>5 DEF StartApplication, SynFails, Transmit, ReTxTimeout, Retransmit, GiveUp,
                StopApplication, app, vars
  <2>6. UNCHANGED <<maxBytes, totBytes, priority, tags>> => Improving' /\ PriorityImproves'
    BY DEF Improving, PriorityImproves, FitsInt
  <2> QED BY <2>2, <2>3, <2>4, <2>5, <2>6 DEF Next
<1> QED BY <1>1, <1>2, Inductive, PTL DEF Spec

=============================================================================
