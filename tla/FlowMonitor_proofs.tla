------------------------- MODULE FlowMonitor_proofs -------------------------
(***************************************************************************)
(* What the monitor counts, for any number of flows, packets and switches, *)
(* any delay that counts as a loss, any period and any end of the run.     *)
(***************************************************************************)
EXTENDS FlowMonitor, FiniteSetTheorems, TLAPS

(* A packet is on its way until one of its ends; the monitor tracks it     *)
(* until it has counted one; and no number is given to a packet twice.     *)
Places ==
    /\ net \cap (received \cup dropped) = {}
    /\ DOMAIN tracked \cap (received \cup declared \cup dropped) = {}
    /\ net \subseteq DOMAIN tracked \cup declared
    /\ \A p \in net \cup DOMAIN tracked \cup received \cup declared \cup dropped :
          p[2] < stats[p[1]].tx

(* The next check is never further away than a period, and whatever the    *)
(* last one left was seen less than MaxDelay before it.                    *)
Punctual ==
    /\ nextCheck - Period <= now /\ now <= nextCheck
    /\ finished => ~Running
    /\ \A p \in DOMAIN tracked :
          /\ tracked[p].last <= now
          /\ nextCheck - tracked[p].last < MaxDelay + Period
          /\ finished => now - tracked[p].last < MaxDelay

(* A flow starts with the first of its packets and ends with the last of   *)
(* those that arrived.                                                     *)
Completion ==
    /\ \A p \in DOMAIN tracked : stats[p[1]].firstTx <= tracked[p].first
                                 /\ tracked[p].first <= now
    /\ \A f \in Flows :
          /\ stats[f].firstTx <= now /\ stats[f].lastRx <= now
          /\ stats[f].tx = 0 => stats[f].rx = 0
          /\ stats[f].rx = 0 => stats[f].lastRx = 0
          /\ stats[f].delaySum
               <= stats[f].rx * (stats[f].lastRx - stats[f].firstTx)

IInv == TypeOK /\ Places /\ NeverBoth /\ Punctual /\ Completion

(* Everything is a natural number.                                         *)
LEMMA Constants ==
    /\ MaxDelay \in Nat \ {0} /\ Period \in Nat \ {0} /\ EndTime \in Nat /\ MaxHops \in Nat
    /\ \A f \in Flows : MaxPackets[f] \in Nat
    BY TimesAssumption

(* What TypeOK says of one flow and of one packet.                         *)
LEMMA StatsType ==
    ASSUME TypeOK, NEW f \in Flows
    PROVE  /\ stats[f].tx \in Nat /\ stats[f].rx \in Nat /\ stats[f].lost \in Nat
           /\ stats[f].times \in Nat /\ stats[f].delaySum \in Nat
           /\ stats[f].firstTx \in Time /\ stats[f].lastTx \in Time
           /\ stats[f].firstRx \in Time /\ stats[f].lastRx \in Time
    BY DEF TypeOK, Record

LEMMA TrackedType ==
    ASSUME TypeOK, NEW p \in DOMAIN tracked
    PROVE  /\ p \in Packet /\ p[1] \in Flows /\ p[2] \in Nat
           /\ tracked[p].first \in Time /\ tracked[p].last \in Time
           /\ tracked[p].times \in 0 .. MaxHops
    BY DEF TypeOK, Packet

LEMMA NowType == TypeOK => now \in Nat /\ now \in Time /\ nextCheck \in Nat
    BY Constants DEF TypeOK, Time

-----------------------------------------------------------------------------
(* What the reports do to the statistics of every flow.                    *)
LEMMA FirstTxStats ==
    ASSUME TypeOK, NEW p \in Packet, ReportFirstTx(p)
    PROVE  /\ stats' \in [Flows -> Record]
           /\ \A f \in Flows :
                /\ stats'[f].tx = stats[f].tx + (IF f = p[1] THEN 1 ELSE 0)
                /\ stats'[f].firstTx = IF f = p[1] /\ stats[f].tx = 0 THEN now ELSE stats[f].firstTx
                /\ stats'[f].rx = stats[f].rx
                /\ stats'[f].lost = stats[f].lost
                /\ stats'[f].lastRx = stats[f].lastRx
                /\ stats'[f].delaySum = stats[f].delaySum
<1>1. p[1] \in Flows
  BY DEF Packet
<1> DEFINE s == stats[p[1]]
           r == [s EXCEPT !.tx = @ + 1,
                          !.firstTx = IF s.tx = 0 THEN now ELSE @,
                          !.lastTx = now]
<1>2. stats' = [stats EXCEPT ![p[1]] = r]
  BY DEF ReportFirstTx
<1>3. s \in Record
  BY <1>1 DEF TypeOK
<1>4. /\ r \in Record
      /\ r.tx = s.tx + 1 /\ r.rx = s.rx /\ r.lost = s.lost
      /\ r.firstTx = (IF s.tx = 0 THEN now ELSE s.firstTx)
      /\ r.lastRx = s.lastRx /\ r.delaySum = s.delaySum
  <2> HIDE DEF s
  <2> DEFINE r1 == [s EXCEPT !.tx = @ + 1]
             r2 == [r1 EXCEPT !.firstTx = IF s.tx = 0 THEN now ELSE @]
  <2>1. now \in Time
    BY NowType
  <2>2. /\ r1 \in Record
        /\ r1.tx = s.tx + 1 /\ r1.rx = s.rx /\ r1.lost = s.lost /\ r1.firstTx = s.firstTx
        /\ r1.lastRx = s.lastRx /\ r1.delaySum = s.delaySum
    BY <1>3 DEF Record
  <2> HIDE DEF r1
  <2>3. /\ r2 \in Record
        /\ r2.tx = s.tx + 1 /\ r2.rx = s.rx /\ r2.lost = s.lost
        /\ r2.firstTx = (IF s.tx = 0 THEN now ELSE s.firstTx)
        /\ r2.lastRx = s.lastRx /\ r2.delaySum = s.delaySum
    BY <2>1, <2>2 DEF Record
  <2>4. r = [r2 EXCEPT !.lastTx = now]
    BY DEF r1
  <2> HIDE DEF r2, r
  <2> QED BY <2>1, <2>3, <2>4 DEF Record
<1> HIDE DEF r
<1> QED BY <1>1, <1>2, <1>4 DEF TypeOK, Record

LEMMA LastRxStats ==
    ASSUME TypeOK, NEW p \in DOMAIN tracked, LastRx(p), tracked[p].first <= now
    PROVE  /\ stats' \in [Flows -> Record]
           /\ \A f \in Flows :
                /\ stats'[f].tx = stats[f].tx
                /\ stats'[f].firstTx = stats[f].firstTx
                /\ stats'[f].rx = stats[f].rx + (IF f = p[1] THEN 1 ELSE 0)
                /\ stats'[f].lost = stats[f].lost
                /\ stats'[f].lastRx = IF f = p[1] THEN now ELSE stats[f].lastRx
                /\ stats'[f].delaySum
                     = stats[f].delaySum + (IF f = p[1] THEN now - tracked[p].first ELSE 0)
<1>1. p[1] \in Flows /\ tracked[p].first \in Time /\ tracked[p].times \in 0 .. MaxHops
  BY TrackedType
<1>2. now - tracked[p].first \in Nat /\ tracked[p].times \in Nat
  BY <1>1, NowType, Constants DEF Time
<1> DEFINE s == stats[p[1]]
           d == now - tracked[p].first
           r == [s EXCEPT !.rx = @ + 1,
                          !.times = @ + tracked[p].times,
                          !.delaySum = @ + d,
                          !.firstRx = IF s.rx = 0 THEN now ELSE @,
                          !.lastRx = now]
<1>3. stats' = [stats EXCEPT ![p[1]] = r]
  BY DEF LastRx
<1>4. s \in Record
  BY <1>1 DEF TypeOK
<1>5. /\ r \in Record
      /\ r.tx = s.tx /\ r.rx = s.rx + 1 /\ r.lost = s.lost
      /\ r.firstTx = s.firstTx /\ r.lastRx = now /\ r.delaySum = s.delaySum + d
  <2> HIDE DEF s, d
  <2> DEFINE r1 == [s EXCEPT !.rx = @ + 1]
             r2 == [r1 EXCEPT !.times = @ + tracked[p].times]
             r3 == [r2 EXCEPT !.delaySum = @ + d]
             r4 == [r3 EXCEPT !.firstRx = IF s.rx = 0 THEN now ELSE @]
  <2>1. now \in Time /\ d \in Nat
    BY <1>2, NowType DEF d
  <2>2. /\ r1 \in Record
        /\ r1.tx = s.tx /\ r1.rx = s.rx + 1 /\ r1.lost = s.lost /\ r1.firstTx = s.firstTx
        /\ r1.delaySum = s.delaySum
    BY <1>4 DEF Record
  <2>3. /\ r2 \in Record
        /\ r2.tx = r1.tx /\ r2.rx = r1.rx /\ r2.lost = r1.lost /\ r2.firstTx = r1.firstTx
        /\ r2.delaySum = r1.delaySum
    <3> HIDE DEF r1
    <3> QED BY <1>2, <2>2 DEF Record
  <2>4. /\ r3 \in Record
        /\ r3.tx = r2.tx /\ r3.rx = r2.rx /\ r3.lost = r2.lost /\ r3.firstTx = r2.firstTx
        /\ r3.delaySum = r2.delaySum + d
    <3> HIDE DEF r2
    <3> QED BY <2>1, <2>3 DEF Record
  <2>5. /\ r4 \in Record
        /\ r4.tx = r3.tx /\ r4.rx = r3.rx /\ r4.lost = r3.lost /\ r4.firstTx = r3.firstTx
        /\ r4.delaySum = r3.delaySum
    <3> HIDE DEF r3
    <3> QED BY <2>1, <2>4 DEF Record
  <2>6. r = [r4 EXCEPT !.lastRx = now]
    OBVIOUS
  <2> HIDE DEF r1, r2, r3, r4, r
  <2> QED BY <2>1, <2>2, <2>3, <2>4, <2>5, <2>6 DEF Record
<1> HIDE DEF r
<1> QED BY <1>1, <1>3, <1>5 DEF TypeOK, Record

LEMMA LostStats ==
    ASSUME TypeOK, NEW n \in [Flows -> Nat],
           stats' = [f \in Flows |-> [stats[f] EXCEPT !.lost = @ + n[f]]]
    PROVE  /\ stats' \in [Flows -> Record]
           /\ \A f \in Flows :
                /\ stats'[f].tx = stats[f].tx
                /\ stats'[f].firstTx = stats[f].firstTx
                /\ stats'[f].rx = stats[f].rx
                /\ stats'[f].lost = stats[f].lost + n[f]
                /\ stats'[f].lastRx = stats[f].lastRx
                /\ stats'[f].delaySum = stats[f].delaySum
BY DEF TypeOK, Record

LEMMA DropStats ==
    ASSUME TypeOK, NEW p \in Packet, Drop(p)
    PROVE  /\ stats' \in [Flows -> Record]
           /\ \A f \in Flows :
                /\ stats'[f].tx = stats[f].tx
                /\ stats'[f].firstTx = stats[f].firstTx
                /\ stats'[f].rx = stats[f].rx
                /\ stats'[f].lost = stats[f].lost + (IF f = p[1] THEN 1 ELSE 0)
                /\ stats'[f].lastRx = stats[f].lastRx
                /\ stats'[f].delaySum = stats[f].delaySum
<1>1. p[1] \in Flows
  BY DEF Packet
<1> QED BY <1>1 DEF Drop, TypeOK, Record

(* What is left of the tracked packets.                                    *)
LEMMA WithoutFact ==
    ASSUME NEW S, tracked' = Without(S)
    PROVE  /\ DOMAIN tracked' = DOMAIN tracked \ S
           /\ \A q \in DOMAIN tracked' : tracked'[q] = tracked[q]
BY DEF Without, Restrict

-----------------------------------------------------------------------------
(* Steps that send nothing: a packet leaves the network, or the list of    *)
(* the monitor, and the times of a flow move on with one that arrives.     *)
LEMMA Covered ==
    ASSUME NEW rx \in Nat, NEW sum \in Nat, NEW first \in Nat, NEW last \in Nat,
           NEW t \in Nat, NEW sent \in Nat,
           sum <= rx * (last - first), last <= t, first <= sent, sent <= t
    PROVE  sum + (t - sent) <= (rx + 1) * (t - first)
<1>1. rx * (last - first) <= rx * (t - first)
  <2>1. \A a, b \in Int : a <= b => rx * a <= rx * b
    BY SMT
  <2> QED BY <2>1
<1>2. (rx + 1) * (t - first) = rx * (t - first) + (t - first)
  BY SMT
<1>3. rx * (last - first) \in Int /\ rx * (t - first) \in Int
  BY SMT
<1> QED BY <1>1, <1>2, <1>3

LEMMA InitIInv == Init => IInv
<1> SUFFICES ASSUME Init PROVE IInv
  OBVIOUS
<1>1. /\ now = 0 /\ nextCheck = Period /\ net = {} /\ DOMAIN tracked = {}
      /\ received = {} /\ declared = {} /\ dropped = {} /\ late = {} /\ finished = FALSE
      /\ stats = [f \in Flows |->
                  [tx |-> 0, rx |-> 0, lost |-> 0, times |-> 0,
                   firstTx |-> 0, lastTx |-> 0,
                   firstRx |-> 0, lastRx |-> 0, delaySum |-> 0]]
  BY DEF Init
<1>2. 0 \in Time
  BY Constants DEF Time
<1>3. TypeOK
  BY <1>1, <1>2, Constants DEF TypeOK, Record
<1>4. Places /\ NeverBoth
  BY <1>1 DEF Places, NeverBoth
<1>5. Punctual
  BY <1>1, Constants DEF Punctual
<1>6. Completion
  BY <1>1, Constants DEF Completion
<1> QED BY <1>3, <1>4, <1>5, <1>6 DEF IInv

(* Classify gives a number nobody has, and the monitor tracks the packet.  *)
LEMMA SendIInv == IInv /\ (\E f \in Flows : SendOutgoing(f)) => IInv'
<1> SUFFICES ASSUME IInv, NEW g \in Flows, SendOutgoing(g) PROVE IInv'
  OBVIOUS
<1> DEFINE p == <<g, stats[g].tx>>
<1>1. /\ Running /\ stats[g].tx < MaxPackets[g]
      /\ ReportFirstTx(p) /\ net' = net \cup {p}
      /\ UNCHANGED <<now, nextCheck, received, declared, dropped, late, finished>>
  BY DEF SendOutgoing
<1>2. TypeOK /\ now \in Nat /\ now \in Time
  BY NowType DEF IInv
<1>3. p \in Packet /\ p[1] = g /\ p[2] = stats[g].tx /\ stats[g].tx \in Nat
  BY <1>1, <1>2, StatsType DEF Packet
<1> HIDE DEF p
<1>4. /\ stats' \in [Flows -> Record]
      /\ \A f \in Flows :
           /\ stats'[f].tx = stats[f].tx + (IF f = p[1] THEN 1 ELSE 0)
           /\ stats'[f].firstTx = IF f = p[1] /\ stats[f].tx = 0 THEN now ELSE stats[f].firstTx
           /\ stats'[f].rx = stats[f].rx
           /\ stats'[f].lastRx = stats[f].lastRx
           /\ stats'[f].delaySum = stats[f].delaySum
  BY <1>1, <1>2, <1>3, FirstTxStats
<1>5. /\ DOMAIN tracked' = DOMAIN tracked \cup {p}
      /\ tracked'[p] = [first |-> now, last |-> now, times |-> 0]
      /\ \A q \in DOMAIN tracked : q # p => tracked'[q] = tracked[q]
  BY <1>1 DEF ReportFirstTx
<1>6. p \notin net \cup DOMAIN tracked \cup received \cup declared \cup dropped
  BY <1>3 DEF IInv, Places
<1>7. TypeOK'
  <2>1. DOMAIN tracked' \subseteq Packet /\ net' \subseteq Packet
    BY <1>1, <1>3, <1>5 DEF IInv, TypeOK
  <2>2. \A q \in DOMAIN tracked' : tracked'[q] \in [first : Time, last : Time, times : 0 .. MaxHops]
    BY <1>2, <1>5, Constants DEF IInv, TypeOK
  <2> QED BY <1>1, <1>4, <2>1, <2>2 DEF IInv, TypeOK
<1>8. Places'
  <2>1. \A q \in net' \cup DOMAIN tracked' \cup received' \cup declared' \cup dropped' :
          q[2] < stats'[q[1]].tx
    <3> SUFFICES ASSUME NEW q \in net \cup DOMAIN tracked \cup {p} \cup received \cup declared \cup dropped
                 PROVE  q[2] < stats'[q[1]].tx
      BY <1>1, <1>5
    <3>1. q \in Packet /\ q[1] \in Flows /\ q[2] \in Nat /\ stats[q[1]].tx \in Nat
      <4>1. q \in Packet
        BY <1>3 DEF IInv, TypeOK
      <4>2. q[1] \in Flows /\ q[2] \in Nat
        BY <4>1 DEF Packet
      <4> QED BY <1>2, <4>1, <4>2, StatsType
    <3>2. CASE q = p
      BY <1>3, <1>4, <3>1, <3>2
    <3>3. CASE q # p
      <4>1. q[2] < stats[q[1]].tx
        BY <3>3 DEF IInv, Places
      <4> QED BY <1>4, <3>1, <4>1
    <3> QED BY <3>2, <3>3
  <2>2. /\ net' \cap (received' \cup dropped') = {}
        /\ DOMAIN tracked' \cap (received' \cup declared' \cup dropped') = {}
        /\ net' \subseteq DOMAIN tracked' \cup declared'
    BY <1>1, <1>5, <1>6 DEF IInv, Places
  <2> QED BY <2>1, <2>2 DEF Places
<1>9. NeverBoth'
  BY <1>1 DEF IInv, NeverBoth
<1>10. Punctual'
  <2>1. \A q \in DOMAIN tracked' :
          /\ tracked'[q].last <= now
          /\ nextCheck - tracked'[q].last < MaxDelay + Period
          /\ finished => now - tracked'[q].last < MaxDelay
    <3> SUFFICES ASSUME NEW q \in DOMAIN tracked \cup {p}
                 PROVE  /\ tracked'[q].last <= now
                        /\ nextCheck - tracked'[q].last < MaxDelay + Period
                        /\ finished => now - tracked'[q].last < MaxDelay
      BY <1>5
    <3>1. CASE q = p
      <4>1. tracked'[q].last = now
        BY <1>5, <3>1
      <4> QED BY <1>1, <1>2, <4>1, NowType, Constants DEF IInv, Punctual
    <3>2. CASE q # p
      BY <1>5, <3>2 DEF IInv, Punctual
    <3> QED BY <3>1, <3>2
  <2> QED BY <1>1, <2>1 DEF IInv, Punctual, Running
<1>11. Completion'
  <2>1. ASSUME NEW q \in DOMAIN tracked'
        PROVE  stats'[q[1]].firstTx <= tracked'[q].first /\ tracked'[q].first <= now
    <3>1. q[1] \in Flows /\ stats[q[1]].firstTx \in Nat /\ stats[q[1]].firstTx <= now
      <4>1. q \in Packet
        BY <1>7, <2>1 DEF TypeOK
      <4>2. q[1] \in Flows
        BY <4>1 DEF Packet
      <4>3. stats[q[1]].firstTx \in Time
        BY <1>2, <4>2, StatsType
      <4> QED BY <4>2, <4>3, Constants DEF Time, IInv, Completion
    <3>2. CASE q = p
      <4>1. tracked'[q].first = now
        BY <1>5, <3>2
      <4> QED BY <1>2, <1>4, <3>1, <4>1
    <3>3. CASE q # p
      <4>1. q \in DOMAIN tracked /\ tracked'[q] = tracked[q]
        BY <1>5, <2>1, <3>3
      <4>2. stats[q[1]].firstTx <= tracked[q].first /\ tracked[q].first <= now /\ q[2] < stats[q[1]].tx
        BY <4>1 DEF IInv, Completion, Places
      <4>3. stats[q[1]].tx # 0
        <5>1. q[2] \in Nat
          BY <1>2, <4>1, TrackedType
        <5> QED BY <4>2, <5>1
      <4> QED BY <1>4, <3>1, <4>1, <4>2, <4>3
    <3> QED BY <3>2, <3>3
  <2>2. ASSUME NEW f \in Flows
        PROVE  /\ stats'[f].firstTx <= now /\ stats'[f].lastRx <= now
               /\ stats'[f].tx = 0 => stats'[f].rx = 0
               /\ stats'[f].rx = 0 => stats'[f].lastRx = 0
               /\ stats'[f].delaySum
                    <= stats'[f].rx * (stats'[f].lastRx - stats'[f].firstTx)
    <3>1. /\ stats[f].tx \in Nat /\ stats[f].rx \in Nat /\ stats[f].delaySum \in Nat
          /\ stats[f].lastRx \in Nat /\ stats[f].firstTx \in Nat
      BY <1>2, StatsType, Constants DEF Time
    <3>2. /\ stats[f].firstTx <= now /\ stats[f].lastRx <= now
          /\ stats[f].tx = 0 => stats[f].rx = 0
          /\ stats[f].rx = 0 => stats[f].lastRx = 0
          /\ stats[f].delaySum <= stats[f].rx * (stats[f].lastRx - stats[f].firstTx)
      BY DEF IInv, Completion
    <3>3. CASE stats[f].tx = 0
      <4>1. stats'[f].rx = 0 /\ stats'[f].delaySum = 0 /\ stats'[f].lastRx = 0
        <5>1. stats[f].rx * (stats[f].lastRx - stats[f].firstTx) = 0
          <6>1. stats[f].rx = 0 /\ stats[f].lastRx - stats[f].firstTx \in Int
            BY <3>1, <3>2, <3>3
          <6>2. \A x \in Int : 0 * x = 0
            OBVIOUS
          <6> QED BY <6>1, <6>2
        <5> QED BY <1>4, <3>1, <3>2, <3>3, <5>1
      <4>2. stats'[f].firstTx \in Nat /\ stats'[f].firstTx <= now
        BY <1>2, <1>4, <3>1, <3>2
      <4>3. stats'[f].rx * (stats'[f].lastRx - stats'[f].firstTx) = 0
        BY <4>1, <4>2
      <4> QED BY <1>2, <4>1, <4>2, <4>3
    <3>4. CASE stats[f].tx # 0
      <4>1. /\ stats'[f].firstTx = stats[f].firstTx /\ stats'[f].rx = stats[f].rx
            /\ stats'[f].lastRx = stats[f].lastRx /\ stats'[f].delaySum = stats[f].delaySum
            /\ stats'[f].tx # 0
        BY <1>4, <3>1, <3>4
      <4> QED BY <3>2, <4>1
    <3> QED BY <3>3, <3>4
  <2> QED BY <1>1, <2>1, <2>2 DEF Completion
<1> QED BY <1>7, <1>8, <1>9, <1>10, <1>11 DEF IInv

(* A packet moves on: it has been seen now, and is otherwise as it was.    *)
LEMMA ForwardIInv == IInv /\ (\E p \in net : ReportForwarding(p)) => IInv'
<1> SUFFICES ASSUME IInv, NEW p \in net, ReportForwarding(p) PROVE IInv'
  OBVIOUS
<1>1. /\ p \in DOMAIN tracked /\ tracked[p].times < MaxHops
      /\ tracked' = [tracked EXCEPT ![p].times = @ + 1, ![p].last = now]
      /\ UNCHANGED <<now, nextCheck, net, stats, received, declared, dropped, late, finished>>
      /\ Running
  BY DEF ReportForwarding, IsTracked
<1>2. TypeOK /\ now \in Nat /\ now \in Time /\ nextCheck \in Nat
  BY NowType DEF IInv
<1>3. /\ DOMAIN tracked' = DOMAIN tracked
      /\ \A q \in DOMAIN tracked :
           /\ tracked'[q] \in [first : Time, last : Time, times : 0 .. MaxHops]
           /\ tracked'[q].first = tracked[q].first
           /\ tracked'[q].last = IF q = p THEN now ELSE tracked[q].last
  <2>1. DOMAIN tracked' = DOMAIN tracked
    BY <1>1
  <2>2. ASSUME NEW q \in DOMAIN tracked
        PROVE  /\ tracked'[q] \in [first : Time, last : Time, times : 0 .. MaxHops]
               /\ tracked'[q].first = tracked[q].first
               /\ tracked'[q].last = IF q = p THEN now ELSE tracked[q].last
    <3>1. tracked[q] \in [first : Time, last : Time, times : 0 .. MaxHops]
      BY DEF IInv, TypeOK
    <3>2. CASE q = p
      <4> DEFINE r1 == [tracked[p] EXCEPT !.times = @ + 1]
      <4>1. tracked'[p] = [r1 EXCEPT !.last = now]
        BY <1>1
      <4>2. /\ r1 \in [first : Time, last : Time, times : 0 .. MaxHops]
            /\ r1.first = tracked[p].first
        BY <1>1, <3>1, <3>2, Constants
      <4> HIDE DEF r1
      <4> QED BY <1>2, <3>2, <4>1, <4>2
    <3>3. CASE q # p
      BY <1>1, <3>1, <3>3
    <3> QED BY <3>2, <3>3
  <2> QED BY <2>1, <2>2
<1>4. TypeOK'
  BY <1>1, <1>3 DEF IInv, TypeOK
<1>5. Places' /\ NeverBoth'
  BY <1>1, <1>3 DEF IInv, Places, NeverBoth
<1>6. Punctual'
  BY <1>1, <1>2, <1>3, Constants DEF IInv, Punctual, Running
<1>7. Completion'
  BY <1>1, <1>3 DEF IInv, Completion
<1> QED BY <1>4, <1>5, <1>6, <1>7 DEF IInv

(* What steps keep that take packets out of the list and leave the times.  *)
LEMMA FewerTracked ==
    ASSUME IInv, UNCHANGED <<now, nextCheck, finished>>,
           DOMAIN tracked' \subseteq DOMAIN tracked,
           \A q \in DOMAIN tracked' : tracked'[q] = tracked[q]
    PROVE  /\ Punctual'
           /\ \A q \in DOMAIN tracked' :
                 tracked'[q] \in [first : Time, last : Time, times : 0 .. MaxHops]
<1>1. Punctual'
  BY DEF IInv, Punctual, Running
<1> QED BY <1>1 DEF IInv, TypeOK

(* What steps keep that count losses only.                                 *)
LEMMA LossesCompletion ==
    ASSUME IInv, now' = now,
           DOMAIN tracked' \subseteq DOMAIN tracked,
           \A q \in DOMAIN tracked' : tracked'[q] = tracked[q],
           \A f \in Flows :
             /\ stats'[f].tx = stats[f].tx
             /\ stats'[f].firstTx = stats[f].firstTx
             /\ stats'[f].rx = stats[f].rx
             /\ stats'[f].lastRx = stats[f].lastRx
             /\ stats'[f].delaySum = stats[f].delaySum
    PROVE  Completion'
<1>1. \A q \in DOMAIN tracked' : stats'[q[1]].firstTx <= tracked'[q].first /\ tracked'[q].first <= now
  <2> TAKE q \in DOMAIN tracked'
  <2>1. q \in DOMAIN tracked /\ q[1] \in Flows
    BY TrackedType DEF IInv
  <2> QED BY <2>1 DEF IInv, Completion
<1>2. \A f \in Flows : /\ stats'[f].firstTx <= now /\ stats'[f].lastRx <= now
                       /\ stats'[f].tx = 0 => stats'[f].rx = 0
                       /\ stats'[f].rx = 0 => stats'[f].lastRx = 0
                       /\ stats'[f].delaySum
                            <= stats'[f].rx * (stats'[f].lastRx - stats'[f].firstTx)
  BY DEF IInv, Completion
<1> QED BY <1>1, <1>2 DEF Completion

(* A step that leaves the numbers of the flows as they are gives no packet *)
(* a number too high.                                                      *)
LEMMA Numbered ==
    ASSUME IInv, NEW S, S \subseteq net \cup DOMAIN tracked \cup received \cup declared \cup dropped,
           \A f \in Flows : stats'[f].tx = stats[f].tx
    PROVE  \A q \in S : q[2] < stats'[q[1]].tx
<1> TAKE q \in S
<1>1. q \in Packet
  BY DEF IInv, TypeOK
<1>2. q[1] \in Flows /\ q[2] < stats[q[1]].tx
  BY <1>1 DEF Packet, IInv, Places
<1> QED BY <1>2

(* The packet has arrived, and is neither tracked nor on its way any more. *)
LEMMA LastRxIInv == IInv /\ (\E p \in net : ReportLastRx(p)) => IInv'
<1> SUFFICES ASSUME IInv, NEW p \in net, ReportLastRx(p) PROVE IInv'
  OBVIOUS
<1>1. /\ p \in DOMAIN tracked /\ LastRx(p) /\ tracked' = Without({p})
      /\ net' = net \ {p} /\ received' = received \cup {p}
      /\ UNCHANGED <<now, nextCheck, declared, dropped, late, finished>>
  BY DEF ReportLastRx, IsTracked, LastRx
<1>2. /\ TypeOK /\ now \in Nat /\ now \in Time /\ p \in Packet /\ p[1] \in Flows
      /\ tracked[p].first \in Nat /\ tracked[p].first <= now
      /\ stats[p[1]].firstTx <= tracked[p].first
  BY <1>1, NowType, TrackedType, Constants DEF IInv, Completion, Time
<1>3. DOMAIN tracked' = DOMAIN tracked \ {p} /\ \A q \in DOMAIN tracked' : tracked'[q] = tracked[q]
  BY <1>1, WithoutFact
<1>4. /\ stats' \in [Flows -> Record]
      /\ \A f \in Flows :
           /\ stats'[f].tx = stats[f].tx
           /\ stats'[f].firstTx = stats[f].firstTx
           /\ stats'[f].rx = stats[f].rx + (IF f = p[1] THEN 1 ELSE 0)
           /\ stats'[f].lastRx = IF f = p[1] THEN now ELSE stats[f].lastRx
           /\ stats'[f].delaySum
                = stats[f].delaySum + (IF f = p[1] THEN now - tracked[p].first ELSE 0)
  BY <1>1, <1>2, LastRxStats
<1>5. Punctual' /\ \A q \in DOMAIN tracked' :
                      tracked'[q] \in [first : Time, last : Time, times : 0 .. MaxHops]
  BY <1>1, <1>3, FewerTracked
<1>6. TypeOK'
  BY <1>1, <1>2, <1>3, <1>4, <1>5 DEF IInv, TypeOK
<1>7. Places'
  <2>1. \A q \in net' \cup DOMAIN tracked' \cup received' \cup declared' \cup dropped' :
          q[2] < stats'[q[1]].tx
    BY <1>1, <1>3, <1>4, Numbered
  <2> QED BY <1>1, <1>3, <2>1 DEF IInv, Places
<1>8. NeverBoth'
  BY <1>1 DEF IInv, NeverBoth, Places
<1>9. Completion'
  <2>1. \A q \in DOMAIN tracked' : stats'[q[1]].firstTx <= tracked'[q].first /\ tracked'[q].first <= now
    <3> TAKE q \in DOMAIN tracked'
    <3>1. q \in DOMAIN tracked /\ q[1] \in Flows
      BY <1>2, <1>3, TrackedType
    <3> QED BY <1>3, <1>4, <3>1 DEF IInv, Completion
  <2>2. ASSUME NEW f \in Flows
        PROVE  /\ stats'[f].firstTx <= now /\ stats'[f].lastRx <= now
               /\ stats'[f].tx = 0 => stats'[f].rx = 0
               /\ stats'[f].rx = 0 => stats'[f].lastRx = 0
               /\ stats'[f].delaySum
                    <= stats'[f].rx * (stats'[f].lastRx - stats'[f].firstTx)
    <3>1. /\ stats[f].tx \in Nat /\ stats[f].rx \in Nat /\ stats[f].delaySum \in Nat
          /\ stats[f].lastRx \in Nat /\ stats[f].firstTx \in Nat
      BY <1>2, StatsType, Constants DEF Time
    <3>2. /\ stats[f].firstTx <= now /\ stats[f].lastRx <= now
          /\ stats[f].tx = 0 => stats[f].rx = 0
          /\ stats[f].rx = 0 => stats[f].lastRx = 0
          /\ stats[f].delaySum <= stats[f].rx * (stats[f].lastRx - stats[f].firstTx)
      BY DEF IInv, Completion
    <3>3. CASE f # p[1]
      <4>1. /\ stats'[f].firstTx = stats[f].firstTx /\ stats'[f].rx = stats[f].rx
            /\ stats'[f].lastRx = stats[f].lastRx /\ stats'[f].delaySum = stats[f].delaySum
            /\ stats'[f].tx = stats[f].tx
        BY <1>4, <3>1, <3>3
      <4> QED BY <3>2, <4>1
    <3>4. CASE f = p[1]
      <4>1. stats[f].delaySum + (now - tracked[p].first) <= (stats[f].rx + 1) * (now - stats[f].firstTx)
        BY <1>2, <3>1, <3>2, <3>4, Covered
      <4>2. /\ stats'[f].firstTx = stats[f].firstTx /\ stats'[f].rx = stats[f].rx + 1
            /\ stats'[f].lastRx = now /\ stats'[f].tx = stats[f].tx
            /\ stats'[f].delaySum = stats[f].delaySum + (now - tracked[p].first)
        BY <1>4, <3>4
      <4>3. stats[f].tx # 0
        <5>1. p[2] \in Nat /\ p[2] < stats[f].tx
          BY <1>1, <1>2, <3>4, TrackedType DEF IInv, Places
        <5> QED BY <5>1
      <4> QED BY <1>2, <3>1, <3>2, <4>1, <4>2, <4>3
    <3> QED BY <3>3, <3>4
  <2> QED BY <1>1, <2>1, <2>2 DEF Completion
<1> QED BY <1>5, <1>6, <1>7, <1>8, <1>9 DEF IInv

(* A packet taken for lost arrives, or one is lost on the way: the monitor *)
(* learns nothing.                                                         *)
LEMMA UnseenIInv == IInv /\ (\E p \in net : LastRxUnknown(p) \/ Lose(p)) => IInv'
<1> SUFFICES ASSUME IInv, NEW p \in net, LastRxUnknown(p) \/ Lose(p) PROVE IInv'
  OBVIOUS
<1>1. /\ net' = net \ {p} /\ late' \in {late, late \cup {p}}
      /\ UNCHANGED <<now, nextCheck, tracked, stats, received, declared, dropped, finished>>
  BY DEF LastRxUnknown, Lose
<1>2. TypeOK'
  BY <1>1 DEF IInv, TypeOK
<1>3. Places' /\ NeverBoth' /\ Completion'
  BY <1>1 DEF IInv, Places, NeverBoth, Completion
<1>4. Punctual'
  BY <1>1 DEF IInv, Punctual, Running
<1> QED BY <1>2, <1>3, <1>4 DEF IInv

(* A drop is a loss of its flow, whether the packet was tracked or not.    *)
LEMMA DropIInv == IInv /\ (\E p \in net : ReportDrop(p)) => IInv'
<1> SUFFICES ASSUME IInv, NEW p \in net, ReportDrop(p) PROVE IInv'
  OBVIOUS
<1>1. /\ Drop(p) /\ tracked' = Without({p})
      /\ net' = net \ {p} /\ dropped' = dropped \cup {p}
      /\ UNCHANGED <<now, nextCheck, received, declared, late, finished>>
  BY DEF ReportDrop, Drop
<1>2. TypeOK /\ p \in Packet
  BY DEF IInv, TypeOK
<1>3. DOMAIN tracked' = DOMAIN tracked \ {p} /\ \A q \in DOMAIN tracked' : tracked'[q] = tracked[q]
  BY <1>1, WithoutFact
<1>4. /\ stats' \in [Flows -> Record]
      /\ \A f \in Flows : /\ stats'[f].tx = stats[f].tx
                          /\ stats'[f].firstTx = stats[f].firstTx
                          /\ stats'[f].rx = stats[f].rx
                          /\ stats'[f].lastRx = stats[f].lastRx
                          /\ stats'[f].delaySum = stats[f].delaySum
  BY <1>1, <1>2, DropStats
<1>5. Punctual' /\ \A q \in DOMAIN tracked' :
                      tracked'[q] \in [first : Time, last : Time, times : 0 .. MaxHops]
  BY <1>1, <1>3, FewerTracked
<1>6. TypeOK'
  BY <1>1, <1>2, <1>3, <1>4, <1>5 DEF IInv, TypeOK
<1>7. Places'
  <2>1. \A q \in net' \cup DOMAIN tracked' \cup received' \cup declared' \cup dropped' :
          q[2] < stats'[q[1]].tx
    BY <1>1, <1>3, <1>4, Numbered
  <2> QED BY <1>1, <1>3, <2>1 DEF IInv, Places
<1>8. NeverBoth'
  BY <1>1 DEF IInv, NeverBoth, Places
<1>9. Completion'
  BY <1>1, <1>3, <1>4, LossesCompletion
<1> QED BY <1>5, <1>6, <1>7, <1>8, <1>9 DEF IInv

-----------------------------------------------------------------------------
(* The packets of a flow can be counted.                                   *)
LEMMA CountType ==
    ASSUME NEW S \in SUBSET Packet, NEW f \in Flows
    PROVE  IsFiniteSet(Of(S, f)) /\ Cardinality(Of(S, f)) \in Nat
<1> DEFINE D == 0 .. (MaxPackets[f] - 1)
           T == {p \in Packet : p[1] = f}
           h == [n \in D |-> <<f, n>>]
<1>1. IsFiniteSet(D)
  <2>1. MaxPackets[f] - 1 \in Int
    BY Constants
  <2> QED BY <2>1, FS_Interval
<1>2. h \in Surjection(D, T)
  <2>1. h \in [D -> T]
    BY Constants DEF Packet
  <2>2. ASSUME NEW t \in T PROVE \E n \in D : h[n] = t
    <3>1. t = <<f, t[2]>> /\ t[2] \in Nat /\ t[2] < MaxPackets[f]
      BY <2>2 DEF Packet
    <3>2. t[2] \in D
      BY <3>1, Constants
    <3> QED BY <3>1, <3>2
  <2> QED BY <2>1, <2>2 DEF Surjection
<1>3. IsFiniteSet(T)
  <2> HIDE DEF D, T, h
  <2> QED BY <1>1, <1>2, FS_Surjection
<1>4. Of(S, f) \in SUBSET T
  BY DEF Of
<1>5. IsFiniteSet(Of(S, f))
  <2> HIDE DEF T
  <2> QED BY <1>3, <1>4, FS_Subset
<1> QED BY <1>5, FS_CardinalityType

(* A packet more, one less, and some moved.                                *)
LEMMA CountAdd ==
    ASSUME NEW S \in SUBSET Packet, NEW p \in Packet, p \notin S, NEW f \in Flows
    PROVE  Cardinality(Of(S \cup {p}, f)) = Cardinality(Of(S, f)) + (IF f = p[1] THEN 1 ELSE 0)
<1>1. IsFiniteSet(Of(S, f)) /\ Cardinality(Of(S, f)) \in Nat
  BY CountType
<1>2. CASE f = p[1]
  <2>1. Of(S \cup {p}, f) = Of(S, f) \cup {p} /\ p \notin Of(S, f)
    BY <1>2 DEF Of
  <2> QED BY <1>1, <1>2, <2>1, FS_AddElement
<1>3. CASE f # p[1]
  <2>1. Of(S \cup {p}, f) = Of(S, f)
    BY <1>3 DEF Of
  <2> QED BY <1>1, <1>3, <2>1
<1> QED BY <1>2, <1>3

LEMMA CountRemove ==
    ASSUME NEW S \in SUBSET Packet, NEW p \in S, NEW f \in Flows
    PROVE  Cardinality(Of(S \ {p}, f)) = Cardinality(Of(S, f)) - (IF f = p[1] THEN 1 ELSE 0)
<1>1. IsFiniteSet(Of(S, f)) /\ Cardinality(Of(S, f)) \in Nat
  BY CountType
<1>2. CASE f = p[1]
  <2>1. Of(S \ {p}, f) = Of(S, f) \ {p} /\ p \in Of(S, f)
    BY <1>2 DEF Of
  <2>2. Cardinality(Of(S, f) \ {p}) = Cardinality(Of(S, f)) - 1
    BY <1>1, <2>1, FS_RemoveElement
  <2> QED BY <1>2, <2>1, <2>2
<1>3. CASE f # p[1]
  <2>1. Of(S \ {p}, f) = Of(S, f)
    BY <1>3 DEF Of
  <2> QED BY <1>1, <1>3, <2>1
<1> QED BY <1>2, <1>3

LEMMA CountMove ==
    ASSUME NEW S \in SUBSET Packet, NEW T \in SUBSET S, NEW f \in Flows
    PROVE  Cardinality(Of(S \ T, f)) = Cardinality(Of(S, f)) - Cardinality(Of(T, f))
<1>1. IsFiniteSet(Of(S, f))
  BY CountType
<1>2. Of(S \ T, f) = Of(S, f) \ Of(T, f) /\ Of(S, f) \cap Of(T, f) = Of(T, f)
  BY DEF Of
<1>3. Cardinality(Of(S, f) \ Of(T, f)) = Cardinality(Of(S, f)) - Cardinality(Of(S, f) \cap Of(T, f))
  BY <1>1, FS_Difference
<1> QED BY <1>2, <1>3

-----------------------------------------------------------------------------
(* The check takes out what was silent for MaxDelay, and leaves nothing of *)
(* it.                                                                     *)
LEMMA CheckFact ==
    ASSUME IInv, CheckForLostPackets, UNCHANGED <<now, net, received, dropped, late>>
    PROVE  /\ stats' \in [Flows -> Record]
           /\ \A f \in Flows :
                /\ stats'[f].tx = stats[f].tx
                /\ stats'[f].rx = stats[f].rx
                /\ stats'[f].lost = stats[f].lost + Cardinality(Of(Overdue, f))
           /\ DOMAIN tracked' = DOMAIN tracked \ Overdue
           /\ Overdue \subseteq DOMAIN tracked /\ Overdue \subseteq Packet
           /\ declared' = declared \cup Overdue /\ declared' \subseteq Packet
           /\ \A q \in DOMAIN tracked' :
                /\ tracked'[q] = tracked[q]
                /\ tracked'[q] \in [first : Time, last : Time, times : 0 .. MaxHops]
                /\ now - tracked'[q].last < MaxDelay
           /\ Places' /\ NeverBoth' /\ Completion'
<1>1. TypeOK /\ now \in Nat
  BY NowType DEF IInv
<1>2. Overdue \subseteq DOMAIN tracked /\ Overdue \subseteq Packet
  BY <1>1 DEF Overdue, TypeOK
<1>3. DOMAIN tracked' = DOMAIN tracked \ Overdue /\ \A q \in DOMAIN tracked' : tracked'[q] = tracked[q]
  BY WithoutFact DEF CheckForLostPackets
<1>4. \A q \in DOMAIN tracked' :
        /\ tracked'[q] \in [first : Time, last : Time, times : 0 .. MaxHops]
        /\ now - tracked'[q].last < MaxDelay
  <2> TAKE q \in DOMAIN tracked'
  <2>1. q \in DOMAIN tracked /\ q \notin Overdue
    BY <1>3
  <2>2. tracked[q] \in [first : Time, last : Time, times : 0 .. MaxHops] /\ tracked[q].last \in Nat
    BY <1>1, <2>1, TrackedType, Constants DEF TypeOK, Time
  <2>3. ~(now - tracked[q].last >= MaxDelay)
    BY <2>1 DEF Overdue
  <2> QED BY <1>1, <1>3, <2>2, <2>3, Constants
<1> DEFINE n == [f \in Flows |-> Cardinality(Of(Overdue, f))]
<1>5. n \in [Flows -> Nat] /\ \A f \in Flows : n[f] = Cardinality(Of(Overdue, f))
  BY <1>2, CountType
<1>6. stats' = [f \in Flows |-> [stats[f] EXCEPT !.lost = @ + n[f]]]
  BY DEF CheckForLostPackets
<1> HIDE DEF n
<1>7. /\ stats' \in [Flows -> Record]
      /\ \A f \in Flows :
           /\ stats'[f].tx = stats[f].tx
           /\ stats'[f].firstTx = stats[f].firstTx
           /\ stats'[f].rx = stats[f].rx
           /\ stats'[f].lost = stats[f].lost + n[f]
           /\ stats'[f].lastRx = stats[f].lastRx
           /\ stats'[f].delaySum = stats[f].delaySum
  BY <1>1, <1>5, <1>6, LostStats
<1>8. declared' = declared \cup Overdue /\ declared' \subseteq Packet
  BY <1>1, <1>2 DEF CheckForLostPackets, TypeOK
<1>9. Places'
  <2>1. \A q \in net' \cup DOMAIN tracked' \cup received' \cup declared' \cup dropped' :
          q[2] < stats'[q[1]].tx
    BY <1>2, <1>3, <1>7, <1>8, Numbered
  <2> QED BY <1>2, <1>3, <1>8, <2>1 DEF IInv, Places
<1>10. NeverBoth'
  BY <1>2, <1>8 DEF IInv, NeverBoth, Places
<1>11. Completion'
  BY <1>3, <1>7, LossesCompletion
<1> QED BY <1>2, <1>3, <1>4, <1>5, <1>7, <1>8, <1>9, <1>10, <1>11

LEMMA PeriodicIInv == IInv /\ PeriodicCheckForLostPackets => IInv'
<1> SUFFICES ASSUME IInv, PeriodicCheckForLostPackets PROVE IInv'
  OBVIOUS
<1>1. /\ CheckForLostPackets /\ Running /\ now = nextCheck /\ nextCheck' = now + Period
      /\ UNCHANGED <<now, net, received, dropped, late, finished>>
  BY DEF PeriodicCheckForLostPackets
<1>2. now \in Nat
  BY NowType DEF IInv
<1>3. TypeOK'
  BY <1>1, <1>2, CheckFact, Constants DEF IInv, TypeOK
<1>4. Places' /\ NeverBoth' /\ Completion'
  BY <1>1, CheckFact
<1>5. Punctual'
  <2>1. ~finished
    BY <1>1 DEF IInv, Punctual
  <2>2. ASSUME NEW q \in DOMAIN tracked'
        PROVE  /\ tracked'[q].last <= now
               /\ nextCheck' - tracked'[q].last < MaxDelay + Period
    <3>1. /\ q \in DOMAIN tracked /\ tracked'[q] = tracked[q]
          /\ now - tracked'[q].last < MaxDelay /\ tracked'[q].last \in Nat
      BY <1>1, <2>2, CheckFact, TrackedType, Constants DEF IInv, Time
    <3> QED BY <1>1, <1>2, <3>1, Constants DEF IInv, Punctual
  <2> QED BY <1>1, <1>2, <2>1, <2>2, Constants DEF Punctual
<1> QED BY <1>3, <1>4, <1>5 DEF IInv

LEMMA SerializeIInv == IInv /\ SerializeToXmlFile => IInv'
<1> SUFFICES ASSUME IInv, SerializeToXmlFile PROVE IInv'
  OBVIOUS
<1>1. /\ CheckForLostPackets /\ ~Running /\ finished' = TRUE
      /\ UNCHANGED <<now, nextCheck, net, received, dropped, late>>
  BY DEF SerializeToXmlFile
<1>2. TypeOK'
  BY <1>1, CheckFact DEF IInv, TypeOK
<1>3. Places' /\ NeverBoth' /\ Completion'
  BY <1>1, CheckFact
<1>4. Punctual'
  BY <1>1, CheckFact DEF IInv, Punctual, Running
<1> QED BY <1>2, <1>3, <1>4 DEF IInv

(* Time passes, but not beyond the next check.                             *)
LEMMA TickIInv == IInv /\ Tick => IInv'
<1> SUFFICES ASSUME IInv, Tick PROVE IInv'
  OBVIOUS
<1>1. /\ now < EndTime /\ now < nextCheck /\ now' = now + 1
      /\ UNCHANGED <<nextCheck, net, tracked, stats, received, declared, dropped, late, finished>>
  BY DEF Tick, Running
<1>2. now \in Nat /\ nextCheck \in Nat /\ TypeOK
  BY NowType DEF IInv
<1>3. TypeOK'
  <2>1. now' \in Time
    BY <1>1, <1>2, Constants DEF Time
  <2> QED BY <1>1, <2>1 DEF IInv, TypeOK
<1>4. Places' /\ NeverBoth'
  BY <1>1 DEF IInv, Places, NeverBoth
<1>5. ~finished
  BY <1>1 DEF IInv, Punctual, Running
<1>6. Punctual'
  <2>1. \A q \in DOMAIN tracked : tracked[q].last <= now + 1
    <3> TAKE q \in DOMAIN tracked
    <3>1. tracked[q].last \in Nat
      BY <1>2, TrackedType, Constants DEF Time
    <3> QED BY <1>2, <3>1 DEF IInv, Punctual
  <2>2. nextCheck - Period <= now + 1 /\ now + 1 <= nextCheck
    BY <1>1, <1>2, Constants DEF IInv, Punctual
  <2> QED BY <1>1, <1>5, <2>1, <2>2 DEF IInv, Punctual
<1>7. Completion'
  <2>1. \A q \in DOMAIN tracked : tracked[q].first <= now + 1
    <3> TAKE q \in DOMAIN tracked
    <3>1. tracked[q].first \in Nat
      BY <1>2, TrackedType, Constants DEF Time
    <3> QED BY <1>2, <3>1 DEF IInv, Completion
  <2>2. \A f \in Flows : stats[f].firstTx <= now + 1 /\ stats[f].lastRx <= now + 1
    <3> TAKE f \in Flows
    <3>1. stats[f].firstTx \in Nat /\ stats[f].lastRx \in Nat
      BY <1>2, StatsType, Constants DEF Time
    <3> QED BY <1>2, <3>1 DEF IInv, Completion
  <2> QED BY <1>1, <2>1, <2>2 DEF IInv, Completion
<1> QED BY <1>3, <1>4, <1>6, <1>7 DEF IInv

-----------------------------------------------------------------------------
(* The invariant holds in every state of every run.                        *)
THEOREM Inductive == Spec => []IInv
<1>1. IInv /\ [Next]_vars => IInv'
  <2> SUFFICES ASSUME IInv, [Next]_vars PROVE IInv'
    OBVIOUS
  <2>1. CASE \E f \in Flows : SendOutgoing(f)
    BY <2>1, SendIInv
  <2>2. CASE \E p \in net : \/ ReportForwarding(p)
                            \/ ReportLastRx(p)
                            \/ LastRxUnknown(p)
                            \/ ReportDrop(p)
                            \/ Lose(p)
    BY <2>2, ForwardIInv, LastRxIInv, UnseenIInv, DropIInv
  <2>3. CASE PeriodicCheckForLostPackets
    BY <2>3, PeriodicIInv
  <2>4. CASE Tick
    BY <2>4, TickIInv
  <2>5. CASE SerializeToXmlFile
    BY <2>5, SerializeIInv
  <2>6. CASE UNCHANGED vars
    BY <2>6 DEF vars, IInv, TypeOK, Places, NeverBoth, Punctual, Completion, Running
  <2> QED BY <2>1, <2>2, <2>3, <2>4, <2>5, <2>6 DEF Next
<1> QED BY <1>1, InitIInv, PTL DEF Spec

(* The statistics of every flow and the data of every tracked packet stay  *)
(* well typed: no counter and no sum of FlowStats is ever negative.        *)
THEOREM TypeCorrect == Spec => []TypeOK
<1>1. IInv => TypeOK
  BY DEF IInv
<1> QED BY <1>1, Inductive, PTL

(* No packet is counted by both ReportLastRx and CheckForLostPackets or    *)
(* ReportDrop, in whatever order its reports come.                         *)
THEOREM NeverBothCorrect == Spec => []NeverBoth
<1>1. IInv => NeverBoth
  BY DEF IInv
<1> QED BY <1>1, Inductive, PTL

(* PeriodicCheckForLostPackets finds a silent packet within MaxDelay and a *)
(* period, for any of the two, and the file holds no overdue packet.       *)
THEOREM LossesFoundCorrect == Spec => []LossesFoundInTime
<1>1. IInv => LossesFoundInTime
  <2> SUFFICES ASSUME IInv, NEW p \in DOMAIN tracked
               PROVE  now - tracked[p].last < IF finished THEN MaxDelay ELSE MaxDelay + Period
    BY DEF LossesFoundInTime
  <2>1. /\ now \in Nat /\ nextCheck \in Nat /\ tracked[p].last \in Nat
        /\ now <= nextCheck
        /\ nextCheck - tracked[p].last < MaxDelay + Period
        /\ finished => now - tracked[p].last < MaxDelay
    BY NowType, TrackedType, Constants DEF IInv, Punctual, Time
  <2> QED BY <2>1, Constants
<1> QED BY <1>1, Inductive, PTL

(* What Flow.__init__ of xml_parser.py computes from the file is never     *)
(* less than the mean delay of a flow, and not positive for a flow that    *)
(* received nothing.                                                       *)
THEOREM CompletionCorrect == Spec => []DelaysWithinCompletion
<1>1. IInv => DelaysWithinCompletion
  <2> SUFFICES ASSUME IInv, NEW f \in Flows
               PROVE  IF stats[f].rx > 0
                      THEN stats[f].delaySum <= stats[f].rx * FlowCompletionTime(f)
                      ELSE FlowCompletionTime(f) <= 0
    BY DEF DelaysWithinCompletion
  <2>1. /\ stats[f].rx \in Nat /\ stats[f].firstTx \in Nat
        /\ stats[f].rx = 0 => stats[f].lastRx = 0
        /\ stats[f].delaySum <= stats[f].rx * (stats[f].lastRx - stats[f].firstTx)
    BY StatsType, Constants DEF IInv, Completion, Time
  <2> QED BY <2>1 DEF FlowCompletionTime
<1> QED BY <1>1, Inductive, PTL

-----------------------------------------------------------------------------
(* Where the packets of a flow are: two counters of FlowStats and the list *)
(* of the tracked ones, against what was sent.                             *)
Balance(f) ==
    stats[f].tx + Cardinality(Of(declared \cap dropped, f))
      = stats[f].rx + stats[f].lost + Cardinality(Of(DOMAIN tracked, f))

(* Packets move from the list to one of the counters.                     *)
LEMMA Shift ==
    ASSUME NEW tx \in Nat, NEW c \in Nat, NEW rx \in Nat, NEW lost \in Nat, NEW k \in Nat,
           NEW n \in Nat, tx + c = rx + lost + k
    PROVE  /\ tx + c = (rx + n) + lost + (k - n)
           /\ tx + c = rx + (lost + n) + (k - n)
OBVIOUS

LEMMA InitConserved == Init => Conserved
<1> SUFFICES ASSUME Init, NEW f \in Flows PROVE Balance(f)
  BY DEF Conserved, Balance
<1>1. Of(declared \cap dropped, f) = {} /\ Of(DOMAIN tracked, f) = {}
  BY DEF Init, Of
<1>2. stats[f].tx = 0 /\ stats[f].rx = 0 /\ stats[f].lost = 0
  BY DEF Init
<1>3. Cardinality({}) = 0
  BY FS_EmptySet
<1> QED BY <1>1, <1>2, <1>3 DEF Balance

(* A packet sent is a packet tracked.                                      *)
LEMMA SendConserved == IInv /\ Conserved /\ (\E f \in Flows : SendOutgoing(f)) => Conserved'
<1> SUFFICES ASSUME IInv, Conserved, NEW g \in Flows, SendOutgoing(g), NEW f \in Flows
             PROVE  Balance(f)'
  BY DEF Conserved, Balance
<1> DEFINE p == <<g, stats[g].tx>>
<1>1. ReportFirstTx(p) /\ stats[g].tx < MaxPackets[g] /\ UNCHANGED <<declared, dropped>>
  BY DEF SendOutgoing
<1>2. p \in Packet /\ p[2] = stats[p[1]].tx /\ p[2] \in Nat
  BY <1>1, StatsType DEF Packet, IInv
<1> HIDE DEF p
<1>3. p \notin DOMAIN tracked /\ DOMAIN tracked \in SUBSET Packet
  BY <1>2 DEF IInv, Places, TypeOK
<1>4. DOMAIN tracked' = DOMAIN tracked \cup {p}
  BY <1>1 DEF ReportFirstTx
<1>5. /\ stats'[f].tx = stats[f].tx + (IF f = p[1] THEN 1 ELSE 0)
      /\ stats'[f].rx = stats[f].rx /\ stats'[f].lost = stats[f].lost
  BY <1>1, <1>2, FirstTxStats DEF IInv
<1>6. Cardinality(Of(DOMAIN tracked', f))
        = Cardinality(Of(DOMAIN tracked, f)) + (IF f = p[1] THEN 1 ELSE 0)
  BY <1>2, <1>3, <1>4, CountAdd
<1>7. Cardinality(Of(DOMAIN tracked, f)) \in Nat /\ Cardinality(Of(declared \cap dropped, f)) \in Nat
  <2>1. declared \cap dropped \in SUBSET Packet
    BY DEF IInv, TypeOK
  <2> QED BY <1>3, <2>1, CountType
<1>8. stats[f].tx \in Nat /\ stats[f].rx \in Nat /\ stats[f].lost \in Nat /\ Balance(f)
  BY StatsType DEF IInv, Conserved, Balance
<1>9. Cardinality(Of(declared \cap dropped, f))' = Cardinality(Of(declared \cap dropped, f))
  BY <1>1 DEF Of
<1>10. Of(DOMAIN tracked, f)' = Of(DOMAIN tracked', f)
  BY DEF Of
<1> QED BY <1>5, <1>6, <1>7, <1>8, <1>9, <1>10 DEF Balance

(* A tracked packet received is a packet tracked no longer.                *)
LEMMA LastRxConserved == IInv /\ Conserved /\ (\E p \in net : ReportLastRx(p)) => Conserved'
<1> SUFFICES ASSUME IInv, Conserved, NEW p \in net, ReportLastRx(p), NEW f \in Flows
             PROVE  Balance(f)'
  BY DEF Conserved, Balance
<1>1. /\ p \in DOMAIN tracked /\ LastRx(p) /\ tracked' = Without({p})
      /\ UNCHANGED <<declared, dropped>>
  BY DEF ReportLastRx, IsTracked, LastRx
<1>2. DOMAIN tracked \in SUBSET Packet /\ tracked[p].first <= now
  BY <1>1 DEF IInv, TypeOK, Completion
<1>3. DOMAIN tracked' = DOMAIN tracked \ {p}
  BY <1>1, WithoutFact
<1>4. /\ stats'[f].tx = stats[f].tx
      /\ stats'[f].rx = stats[f].rx + (IF f = p[1] THEN 1 ELSE 0)
      /\ stats'[f].lost = stats[f].lost
  BY <1>1, <1>2, LastRxStats DEF IInv
<1>5. Cardinality(Of(DOMAIN tracked', f))
        = Cardinality(Of(DOMAIN tracked, f)) - (IF f = p[1] THEN 1 ELSE 0)
  BY <1>1, <1>2, <1>3, CountRemove
<1>6. Cardinality(Of(DOMAIN tracked, f)) \in Nat /\ Cardinality(Of(declared \cap dropped, f)) \in Nat
  <2>1. declared \cap dropped \in SUBSET Packet
    BY DEF IInv, TypeOK
  <2> QED BY <1>2, <2>1, CountType
<1>7. stats[f].tx \in Nat /\ stats[f].rx \in Nat /\ stats[f].lost \in Nat /\ Balance(f)
  BY StatsType DEF IInv, Conserved, Balance
<1>8. declared' \cap dropped' = declared \cap dropped
  BY <1>1
<1>9. Balance(f)' = (stats'[f].tx + Cardinality(Of(declared' \cap dropped', f))
                       = stats'[f].rx + stats'[f].lost + Cardinality(Of(DOMAIN tracked', f)))
  BY DEF Balance, Of
<1> DEFINE one == IF f = p[1] THEN 1 ELSE 0
<1>10. stats[f].tx + Cardinality(Of(declared \cap dropped, f))
         = (stats[f].rx + one) + stats[f].lost + (Cardinality(Of(DOMAIN tracked, f)) - one)
  <2>1. one \in Nat
    OBVIOUS
  <2> HIDE DEF one
  <2> QED BY <1>6, <1>7, <2>1, Shift DEF Balance
<1> QED BY <1>4, <1>5, <1>8, <1>9, <1>10

(* A dropped packet is taken from the list, or had been declared lost.     *)
LEMMA DropConserved == IInv /\ Conserved /\ (\E p \in net : ReportDrop(p)) => Conserved'
<1> SUFFICES ASSUME IInv, Conserved, NEW p \in net, ReportDrop(p), NEW f \in Flows
             PROVE  Balance(f)'
  BY DEF Conserved, Balance
<1> DEFINE one == IF f = p[1] THEN 1 ELSE 0
<1>1. /\ Drop(p) /\ tracked' = Without({p})
      /\ declared' = declared /\ dropped' = dropped \cup {p}
  BY DEF ReportDrop, Drop
<1>2. /\ DOMAIN tracked \in SUBSET Packet /\ p \in Packet /\ p \notin dropped
      /\ declared \cap dropped \in SUBSET Packet
  BY DEF IInv, TypeOK, Places
<1>3. DOMAIN tracked' = DOMAIN tracked \ {p}
  BY <1>1, WithoutFact
<1>4. stats'[f].tx = stats[f].tx /\ stats'[f].rx = stats[f].rx /\ stats'[f].lost = stats[f].lost + one
  BY <1>1, <1>2, DropStats DEF IInv
<1>5. Cardinality(Of(DOMAIN tracked, f)) \in Nat /\ Cardinality(Of(declared \cap dropped, f)) \in Nat
  BY <1>2, CountType
<1>6. stats[f].tx \in Nat /\ stats[f].rx \in Nat /\ stats[f].lost \in Nat /\ Balance(f)
  BY StatsType DEF IInv, Conserved, Balance
<1>7. CASE p \in DOMAIN tracked
  <2>1. p \notin declared
    BY <1>7 DEF IInv, Places
  <2>2. declared' \cap dropped' = declared \cap dropped
    BY <1>1, <2>1
  <2>3. Cardinality(Of(DOMAIN tracked', f)) = Cardinality(Of(DOMAIN tracked, f)) - one
    BY <1>2, <1>3, <1>7, CountRemove
  <2>4. Balance(f)' = (stats'[f].tx + Cardinality(Of(declared' \cap dropped', f))
                         = stats'[f].rx + stats'[f].lost + Cardinality(Of(DOMAIN tracked', f)))
    BY DEF Balance, Of
  <2>5. stats[f].tx + Cardinality(Of(declared \cap dropped, f))
          = stats[f].rx + (stats[f].lost + one) + (Cardinality(Of(DOMAIN tracked, f)) - one)
    <3>1. one \in Nat
      OBVIOUS
    <3> HIDE DEF one
    <3> QED BY <1>5, <1>6, <3>1, Shift DEF Balance
  <2> QED BY <1>4, <2>2, <2>3, <2>4, <2>5
<1>8. CASE p \notin DOMAIN tracked
  <2>1. p \in declared
    BY <1>8 DEF IInv, Places
  <2>2. declared' \cap dropped' = (declared \cap dropped) \cup {p} /\ p \notin declared \cap dropped
    BY <1>1, <1>2, <2>1
  <2>3. Cardinality(Of(declared' \cap dropped', f)) = Cardinality(Of(declared \cap dropped, f)) + one
    BY <1>2, <2>2, CountAdd
  <2>4. DOMAIN tracked' = DOMAIN tracked
    BY <1>3, <1>8
  <2>5. Balance(f)' = (stats'[f].tx + Cardinality(Of(declared' \cap dropped', f))
                         = stats'[f].rx + stats'[f].lost + Cardinality(Of(DOMAIN tracked', f)))
    BY DEF Balance, Of
  <2> QED BY <1>4, <1>5, <1>6, <2>3, <2>4, <2>5 DEF Balance
<1> QED BY <1>7, <1>8

(* What the check takes from the list it counts as lost.                   *)
LEMMA CheckConserved ==
    ASSUME IInv, Conserved, CheckForLostPackets, UNCHANGED <<now, net, received, dropped, late>>
    PROVE  Conserved'
<1> SUFFICES ASSUME NEW f \in Flows PROVE Balance(f)'
  BY DEF Conserved, Balance
<1>1. /\ stats'[f].tx = stats[f].tx /\ stats'[f].rx = stats[f].rx
      /\ stats'[f].lost = stats[f].lost + Cardinality(Of(Overdue, f))
      /\ DOMAIN tracked' = DOMAIN tracked \ Overdue
      /\ Overdue \in SUBSET (DOMAIN tracked) /\ Overdue \in SUBSET Packet
      /\ declared' = declared \cup Overdue
  BY CheckFact
<1>2. DOMAIN tracked \in SUBSET Packet /\ declared \cap dropped \in SUBSET Packet
  BY DEF IInv, TypeOK
<1>3. Cardinality(Of(DOMAIN tracked', f))
        = Cardinality(Of(DOMAIN tracked, f)) - Cardinality(Of(Overdue, f))
  BY <1>1, <1>2, CountMove
<1>4. declared' \cap dropped' = declared \cap dropped
  BY <1>1 DEF IInv, Places
<1>5. /\ Cardinality(Of(DOMAIN tracked, f)) \in Nat
      /\ Cardinality(Of(declared \cap dropped, f)) \in Nat
      /\ Cardinality(Of(Overdue, f)) \in Nat
  BY <1>1, <1>2, CountType
<1>6. stats[f].tx \in Nat /\ stats[f].rx \in Nat /\ stats[f].lost \in Nat /\ Balance(f)
  BY StatsType DEF IInv, Conserved, Balance
<1>7. Balance(f)' = (stats'[f].tx + Cardinality(Of(declared' \cap dropped', f))
                       = stats'[f].rx + stats'[f].lost + Cardinality(Of(DOMAIN tracked', f)))
  BY DEF Balance, Of
<1>8. stats[f].tx + Cardinality(Of(declared \cap dropped, f))
        = stats[f].rx + (stats[f].lost + Cardinality(Of(Overdue, f)))
            + (Cardinality(Of(DOMAIN tracked, f)) - Cardinality(Of(Overdue, f)))
  BY <1>5, <1>6, Shift DEF Balance
<1> QED BY <1>1, <1>3, <1>4, <1>7, <1>8

LEMMA OthersConserved ==
    ASSUME Conserved, DOMAIN tracked' = DOMAIN tracked, UNCHANGED <<stats, declared, dropped>>
    PROVE  Conserved'
BY DEF Conserved, Of

(* Every packet a flow sent is received, lost or tracked, once; only one   *)
(* that CheckForLostPackets declared lost and ReportDrop counted later is  *)
(* counted twice.                                                          *)
THEOREM ConservedCorrect == Spec => []Conserved
<1>1. IInv /\ Conserved /\ [Next]_vars => Conserved'
  <2> SUFFICES ASSUME IInv, Conserved, [Next]_vars PROVE Conserved'
    OBVIOUS
  <2>1. CASE \E f \in Flows : SendOutgoing(f)
    BY <2>1, SendConserved
  <2>2. CASE \E p \in net : ReportLastRx(p) \/ ReportDrop(p)
    BY <2>2, LastRxConserved, DropConserved
  <2>3. CASE \E p \in net : ReportForwarding(p) \/ LastRxUnknown(p) \/ Lose(p)
    <3>1. DOMAIN tracked' = DOMAIN tracked /\ UNCHANGED <<stats, declared, dropped>>
      BY <2>3 DEF ReportForwarding, LastRxUnknown, Lose
    <3> QED BY <3>1, OthersConserved
  <2>4. CASE PeriodicCheckForLostPackets
    BY <2>4, CheckConserved DEF PeriodicCheckForLostPackets
  <2>5. CASE SerializeToXmlFile
    BY <2>5, CheckConserved DEF SerializeToXmlFile
  <2>6. CASE Tick
    BY <2>6, OthersConserved DEF Tick
  <2>7. CASE UNCHANGED vars
    BY <2>7, OthersConserved DEF vars
  <2> QED BY <2>1, <2>2, <2>3, <2>4, <2>5, <2>6, <2>7 DEF Next
<1> QED BY <1>1, InitConserved, Inductive, PTL DEF Spec
=============================================================================
