------------------------- MODULE MtuDecision_proofs -------------------------
(***************************************************************************)
(* FindBestMtu for every array_mtu, every bandwidth and every call.        *)
(***************************************************************************)
EXTENDS MtuDecision, FiniteSetTheorems, WellFoundedInduction, TLAPS

(* The logarithm of the estimate is a natural number.                      *)
LEMMA Log2Type == \A n \in Nat : Log2(n) \in Nat
<1> TAKE n \in Nat
<1> DEFINE Exponents == {k \in 1..30 : 2^k <= n}
<1>1. 1 \in Int /\ 30 \in Int
  OBVIOUS
<1>2. IsFiniteSet(1..30)
  BY <1>1, FS_Interval
<1>3. IsFiniteSet(Exponents)
  BY <1>2, FS_Subset
<1>4. Cardinality(Exponents) \in Nat
  BY <1>3, FS_CardinalityType
<1> QED BY <1>4 DEF Log2

(* The integer transmission delay is a natural number.                     *)
LEMMA TransDelayType == \A mtu \in Nat : TransDelay(mtu) \in Nat
  BY MtuDecisionAssumption DEF TransDelay, Framing

(* The round trip time of a call is a natural number.                      *)
LEMMA RTTType ==
  ASSUME NEW c \in Calls, NEW mtu \in Nat
  PROVE  RTT(c, mtu) \in Nat
<1>1. c \in CallType
  BY MtuDecisionAssumption
<1>2. TransDelay(mtu) \in Nat
  BY TransDelayType
<1>3. CASE c.via = "tcp"
  BY <1>1, <1>3 DEF RTT, CallType
<1>4. CASE c.via = "dc"
  BY <1>1, <1>2, <1>4 DEF RTT, CallType, ComputeRTTInDC
<1>5. CASE c.via = "wan"
  BY <1>1, <1>2, <1>5 DEF RTT, CallType, ComputeRTTInWAN
<1>6. CASE c.via = "mix"
  BY <1>1, <1>2, <1>6 DEF RTT, CallType, ComputeRTTInMix
<1> QED BY <1>1, <1>3, <1>4, <1>5, <1>6 DEF CallType

(* The estimate is an integer for every call and every MTU above the       *)
(* headers.                                                                *)
LEMMA EstimateType ==
  ASSUME NEW c \in Calls, NEW mtu \in Nat, mtu > Headers
  PROVE  Estimate(c, mtu) \in Int
<1>1. c \in CallType
  BY MtuDecisionAssumption
<1>3. RTT(c, mtu) \in Nat
  BY RTTType
<1> DEFINE rtt == RTT(c, mtu)
           packets == c.flowsize \div (mtu - Headers)
           round == TransTime(mtu) + rtt
           roundNum == ComputeRoundNum(ComputePacketNum(round, mtu))
           rounds == IF packets < 2^roundNum - 1 THEN Log2(packets + 1) ELSE roundNum
<1>4. mtu - Headers \in Nat \ {0} /\ TransTime(mtu) \in Nat \ {0} /\ c.flowsize \in Nat
  BY <1>1 DEF Headers, TransTime, Framing, CallType
<1>5. packets \in Nat /\ c.flowsize % (mtu - Headers) \in Nat
  BY <1>4
<1>6. round \in Nat
  BY <1>3, <1>4
<1>7. ComputePacketNum(round, mtu) \in Nat
  BY <1>4, <1>6 DEF ComputePacketNum
<1>8. roundNum \in Nat
  BY <1>7, Log2Type DEF ComputeRoundNum
<1>9. rounds \in Nat
  BY <1>5, <1>8, Log2Type
<1>10. 2^rounds \in Int
  BY <1>9
<1>11. ComputeFCT(c.flowsize, mtu, rtt) = rounds * round + (packets - (2^rounds - 1)) * TransTime(mtu)
                                             + (c.flowsize % (mtu - Headers)) + Framing + rtt
  BY DEF ComputeFCT
<1>12. Framing \in Int
  BY DEF Framing
<1> HIDE DEF packets, round, roundNum, rounds, rtt
<1>13. rounds * round \in Int /\ (packets - (2^rounds - 1)) * TransTime(mtu) \in Int
  BY <1>4, <1>5, <1>6, <1>9, <1>10
<1>14. ComputeFCT(c.flowsize, mtu, rtt) \in Int
  BY <1>3, <1>5, <1>11, <1>12, <1>13 DEF rtt
<1> QED BY <1>14 DEF Estimate, rtt

(* Every MTU of the array gives an integer estimate.                       *)
LEMMA EntryType ==
  ASSUME NEW c \in Calls, NEW k \in 1..Len(Mtus)
  PROVE  Mtus[k] \in Nat /\ Estimate(c, Mtus[k]) \in Int
<1>1. k \in DOMAIN Mtus /\ Mtus[k] \in Nat
  BY MtuDecisionAssumption
<1>2. Mtus[k] > Headers
  BY <1>1, MtuDecisionAssumption
<1> QED BY <1>1, <1>2, EstimateType

-----------------------------------------------------------------------------
(* What the loop knows before turn i: bestMTU is the first of the best     *)
(* among the MTUs before i (the first one alone before any turn), and FCT  *)
(* is its estimate.                                                        *)
BestSoFar ==
  \E k \in 1..Len(Mtus) :
    /\ bestMTU = Mtus[k]
    /\ FCT = Estimate(call, Mtus[k])
    /\ k < i \/ k = 1
    /\ \A j \in 1..Len(Mtus) : j < i => Estimate(call, Mtus[k]) <= Estimate(call, Mtus[j])
    /\ \A j \in 1..(k - 1) : Estimate(call, Mtus[k]) < Estimate(call, Mtus[j])

IInv == TypeOK /\ BestSoFar

(* The invariant holds when a call starts.                                 *)
LEMMA InitIInv == Init => IInv
<1> SUFFICES ASSUME Init PROVE IInv
  OBVIOUS
<1>1. PICK c \in Calls : Start(c)
  BY DEF Init
<1>2. 1 \in 1..Len(Mtus) /\ Len(Mtus) \in Nat
  BY MtuDecisionAssumption
<1>3. TypeOK
  BY <1>1, <1>2, EntryType DEF Start, TypeOK
<1>4. BestSoFar
  BY <1>1, <1>2 DEF Start, BestSoFar
<1> QED BY <1>3, <1>4 DEF IInv

(* Each turn of the loop keeps it.                                         *)
LEMMA NextIInv == IInv /\ [Next]_vars => IInv'
<1> SUFFICES ASSUME IInv, [Next]_vars PROVE IInv'
  OBVIOUS
<1> USE DEF IInv
<1>1. CASE Compare
  <2>1. i \in 1..Len(Mtus) /\ call' = call /\ i' = i + 1 /\ Len(Mtus) \in Nat
    BY <1>1, MtuDecisionAssumption DEF Compare, TypeOK
  <2>2. call \in Calls /\ \A k \in 1..Len(Mtus) : Mtus[k] \in Nat /\ Estimate(call, Mtus[k]) \in Int
    BY EntryType DEF TypeOK
  <2>3. PICK k \in 1..Len(Mtus) :
          /\ bestMTU = Mtus[k]
          /\ FCT = Estimate(call, Mtus[k])
          /\ k < i \/ k = 1
          /\ \A j \in 1..Len(Mtus) : j < i => Estimate(call, Mtus[k]) <= Estimate(call, Mtus[j])
          /\ \A j \in 1..(k - 1) : Estimate(call, Mtus[k]) < Estimate(call, Mtus[j])
    BY DEF BestSoFar
  <2>4. CASE Estimate(call, Mtus[i]) < FCT
    <3>1. bestMTU' = Mtus[i] /\ FCT' = Estimate(call, Mtus[i])
      BY <1>1, <2>4 DEF Compare
    <3>2. \A j \in 1..Len(Mtus) : j < i => Estimate(call, Mtus[i]) < Estimate(call, Mtus[j])
      BY <2>1, <2>2, <2>3, <2>4
    <3>3. \A j \in 1..Len(Mtus) : j < i + 1 => Estimate(call, Mtus[i]) <= Estimate(call, Mtus[j])
      BY <2>1, <2>2, <3>2
    <3>4. \A j \in 1..(i - 1) : Estimate(call, Mtus[i]) < Estimate(call, Mtus[j])
      BY <2>1, <3>2
    <3>5. BestSoFar'
      BY <2>1, <3>1, <3>3, <3>4 DEF BestSoFar
    <3>6. TypeOK'
      BY <2>1, <2>2, <3>1 DEF TypeOK
    <3> QED BY <3>5, <3>6
  <2>5. CASE ~(Estimate(call, Mtus[i]) < FCT)
    <3>1. bestMTU' = bestMTU /\ FCT' = FCT
      BY <1>1, <2>5 DEF Compare
    <3>2. \A j \in 1..Len(Mtus) : j < i + 1 => Estimate(call, Mtus[k]) <= Estimate(call, Mtus[j])
      BY <2>1, <2>2, <2>3, <2>5
    <3>3. BestSoFar'
      BY <2>1, <2>3, <3>1, <3>2 DEF BestSoFar
    <3>4. TypeOK'
      BY <2>1, <3>1 DEF TypeOK
    <3> QED BY <3>3, <3>4
  <2> QED BY <2>4, <2>5
<1>2. CASE UNCHANGED vars
  BY <1>2 DEF vars, TypeOK, BestSoFar
<1> QED BY <1>1, <1>2 DEF Next

(* TypeOK is an invariant of the loop.                                     *)
THEOREM TypeCorrect == Spec => []TypeOK
<1>1. IInv => TypeOK
  BY DEF IInv
<1> QED BY InitIInv, NextIInv, <1>1, PTL DEF Spec

(* FindBestMtu returns the first of the MTUs with the smallest estimate,   *)
(* whatever array_mtu, the bandwidth and the call are.                     *)
THEOREM FirstOfTheBestCorrect == Spec => []FirstOfTheBest
<1>1. IInv => FirstOfTheBest
  <2> SUFFICES ASSUME IInv, i > Len(Mtus) PROVE FirstOfTheBest
    BY DEF FirstOfTheBest
  <2>1. DOMAIN Mtus = 1..Len(Mtus) /\ Len(Mtus) \in Nat /\ i \in Int
    BY MtuDecisionAssumption DEF IInv, TypeOK
  <2>2. PICK k \in 1..Len(Mtus) :
          /\ bestMTU = Mtus[k]
          /\ \A j \in 1..Len(Mtus) : j < i => Estimate(call, Mtus[k]) <= Estimate(call, Mtus[j])
          /\ \A j \in 1..(k - 1) : Estimate(call, Mtus[k]) < Estimate(call, Mtus[j])
    BY DEF IInv, BestSoFar
  <2>3. \A j \in DOMAIN Mtus : j < i
    BY <2>1
  <2> QED BY <2>1, <2>2, <2>3 DEF FirstOfTheBest
<1> QED BY InitIInv, NextIInv, <1>1, PTL DEF Spec

-----------------------------------------------------------------------------
(* Induction over the natural numbers, for a set.                          *)
LEMMA Induction ==
  ASSUME NEW S, 0 \in S, \A n \in Nat : n \in S => n + 1 \in S
  PROVE  Nat \subseteq S
<1> DEFINE R == {ss \in Nat \X Nat : ss[1] < ss[2]}
           T == Nat \ S
<1>1. IsWellFoundedOn(R, Nat)
  BY NatLessThanWellFounded DEF OpToRel
<1>2. SUFFICES ASSUME T # {} PROVE FALSE
  OBVIOUS
<1>3. T \subseteq Nat
  OBVIOUS
<1>4. PICK m \in T : \A n \in T : ~ (<<n, m>> \in R)
  <2> HIDE DEF R, T
  <2> QED BY <1>1, <1>2, <1>3, WFMin
<1>5. m \in Nat /\ m # 0 /\ m - 1 \in Nat
  <2>1. m \in Nat /\ m \notin S
    BY DEF T
  <2> QED BY <2>1
<1>6. <<m - 1, m>> \in R
  BY <1>5
<1>7. m - 1 \in S
  BY <1>4, <1>5, <1>6
<1> QED BY <1>5, <1>7

(* The powers of two an unsigned int holds, named so that the provers take *)
(* them as a function of the exponent.  Zenon writes a number in unary, so *)
(* what mentions these is left to SMT.                                     *)
Pow(k) == 2^k

LEMMA PowerTable ==
  /\ Pow(0) = 1 /\ Pow(1) = 2
  /\ Pow(2) = 4 /\ Pow(3) = 8
  /\ Pow(4) = 16 /\ Pow(5) = 32
  /\ Pow(6) = 64 /\ Pow(7) = 128
  /\ Pow(8) = 256 /\ Pow(9) = 512
  /\ Pow(10) = 1024 /\ Pow(11) = 2048
  /\ Pow(12) = 4096 /\ Pow(13) = 8192
  /\ Pow(14) = 16384 /\ Pow(15) = 32768
  /\ Pow(16) = 65536 /\ Pow(17) = 131072
  /\ Pow(18) = 262144 /\ Pow(19) = 524288
  /\ Pow(20) = 1048576 /\ Pow(21) = 2097152
  /\ Pow(22) = 4194304 /\ Pow(23) = 8388608
  /\ Pow(24) = 16777216 /\ Pow(25) = 33554432
  /\ Pow(26) = 67108864 /\ Pow(27) = 134217728
  /\ Pow(28) = 268435456 /\ Pow(29) = 536870912
  /\ Pow(30) = 1073741824 /\ Pow(31) = 2147483648
BY SMT DEF Pow

LEMMA PowerStep ==
  /\ Pow(0) = 1 /\ Pow(31) = MaxInt + 1
  /\ \A k \in 0..30 : Pow(k) \in Nat \ {0} /\ Pow(k + 1) = 2 * Pow(k)
<1>1. ASSUME NEW k \in 0..30 PROVE Pow(k) \in Nat \ {0} /\ Pow(k + 1) = 2 * Pow(k)
  <2>1. \/ k = 0 \/ k = 1 \/ k = 2 \/ k = 3 \/ k = 4 \/ k = 5 \/ k = 6 \/ k = 7
        \/ k = 8 \/ k = 9 \/ k = 10 \/ k = 11 \/ k = 12 \/ k = 13 \/ k = 14 \/ k = 15
        \/ k = 16 \/ k = 17 \/ k = 18 \/ k = 19 \/ k = 20 \/ k = 21 \/ k = 22 \/ k = 23
        \/ k = 24 \/ k = 25 \/ k = 26 \/ k = 27 \/ k = 28 \/ k = 29 \/ k = 30
    OBVIOUS
  <2> QED BY <2>1, PowerTable, SMT
<1>2. Pow(0) = 1 /\ Pow(31) = MaxInt + 1
  BY PowerTable, SMT DEF MaxInt
<1> QED BY <1>1, <1>2

LEMMA MaxIntType == MaxInt \in Nat /\ MaxInt > 1
BY SMT DEF MaxInt

LEMMA PowerType == \A k \in 0..31 : Pow(k) \in Nat \ {0}
<1> TAKE k \in 0..31
<1>1. k \in 0..30 \/ k = 31
  OBVIOUS
<1> QED BY <1>1, PowerStep, MaxIntType

(* Powers of two increase.                                                 *)
LEMMA PowerIncreases ==
  ASSUME NEW j \in 0..31, NEW k \in 0..31, j <= k
  PROVE  Pow(j) <= Pow(k)
<1> DEFINE S == {n \in Nat : j + n <= 31 => Pow(j) <= Pow(j + n)}
<1>1. 0 \in S
  BY PowerType
<1>2. ASSUME NEW n \in Nat, n \in S PROVE n + 1 \in S
  <2> SUFFICES ASSUME j + (n + 1) <= 31 PROVE Pow(j) <= Pow(j + (n + 1))
    OBVIOUS
  <2>1. j + n \in 0..30 /\ (j + n) + 1 = j + (n + 1)
    OBVIOUS
  <2>2. Pow(j) <= Pow(j + n)
    BY <1>2, <2>1
  <2>3. Pow(j + (n + 1)) = 2 * Pow(j + n) /\ Pow(j + n) \in Nat /\ Pow(j) \in Nat
    BY <2>1, PowerStep, PowerType
  <2> QED BY <2>2, <2>3
<1>3. Nat \subseteq S
  <2> HIDE DEF S
  <2> QED BY <1>1, <1>2, Induction
<1>4. k - j \in S /\ j + (k - j) = k
  BY <1>3
<1> QED BY <1>4

(* Log2 is the logarithm, up to the largest power an int holds.            *)
LEMMA Log2Fact ==
  ASSUME NEW n \in Nat \ {0}
  PROVE  /\ Log2(n) \in 0..30
         /\ \A k \in 0..30 : Pow(k) <= n <=> k <= Log2(n)
<1> DEFINE S == {k \in Nat : k <= 30 => Pow(k) <= n}
<1>1. PICK m \in 0..30 : Pow(m) <= n /\ (m < 30 => n < Pow(m + 1))
  <2>1. SUFFICES ASSUME \A m \in 0..30 : ~(Pow(m) <= n /\ (m < 30 => n < Pow(m + 1)))
                 PROVE  FALSE
    OBVIOUS
  <2>2. 0 \in S
    BY PowerStep
  <2>3. ASSUME NEW k \in Nat, k \in S PROVE k + 1 \in S
    <3> SUFFICES ASSUME k + 1 <= 30 PROVE Pow(k + 1) <= n
      OBVIOUS
    <3>1. k \in 0..30 /\ k < 30 /\ Pow(k) <= n /\ Pow(k + 1) \in Nat
      BY <2>3, PowerType
    <3> QED BY <2>1, <3>1
  <2>4. Nat \subseteq S
    <3> HIDE DEF S
    <3> QED BY <2>2, <2>3, Induction
  <2>5. Pow(30) <= n
    BY <2>4
  <2> QED BY <2>1, <2>5
<1>2. \A k \in 0..30 : Pow(k) <= n <=> k <= m
  <2> TAKE k \in 0..30
  <2>1. Pow(k) \in Nat /\ Pow(m) \in Nat /\ Pow(m + 1) \in Nat
    BY PowerType
  <2>2. CASE k <= m
    BY <1>1, <2>1, <2>2, PowerIncreases
  <2>3. CASE ~(k <= m)
    <3>1. m + 1 <= k /\ m + 1 \in 0..31 /\ m < 30
      BY <2>3
    <3>2. Pow(m + 1) <= Pow(k)
      BY <3>1, PowerIncreases
    <3> QED BY <1>1, <2>1, <2>3, <3>1, <3>2
  <2> QED BY <2>2, <2>3
<1>3. {k \in 1..30 : 2^k <= n} = {k \in 1..30 : Pow(k) <= n}
  BY DEF Pow
<1>4. {k \in 1..30 : Pow(k) <= n} = 1..m /\ Cardinality(1..m) = m
  <2>1. \A k \in 1..30 : Pow(k) <= n <=> k \in 1..m
    <3>1. \A k \in 1..30 : k \in 0..30 /\ (k <= m <=> k \in 1..m)
      OBVIOUS
    <3> QED BY <1>2, <3>1
  <2>2. 1..m \subseteq 1..30
    OBVIOUS
  <2>3. 1 \in Int /\ m \in Int /\ (m < 1 => m = 0)
    OBVIOUS
  <2>4. Cardinality(1..m) = IF 1 > m THEN 0 ELSE m - 1 + 1
    BY <2>3, FS_Interval
  <2>5. Cardinality(1..m) = m
    BY <2>3, <2>4
  <2> QED BY <2>1, <2>2, <2>5
<1>5. Log2(n) = m
  BY <1>3, <1>4 DEF Log2
<1> QED BY <1>2, <1>5

LEMMA QuotientFact ==
  ASSUME NEW n \in Nat, NEW r \in Nat, NEW t \in Nat \ {0}
  PROVE  n > r \div t <=> n * t > r
OBVIOUS

(* A round of the doubling stops when what is left fits into its window or *)
(* when the window fills the round.                                        *)
Stops(k, packets, trans, round) ==
  packets + 1 < Pow(k + 1) \/ Pow(k) * trans > round

(* The number of rounds ComputeFCT finds is the first that stops.          *)
Rounds(packets, round, mtu) ==
  LET roundNum == ComputeRoundNum(ComputePacketNum(round, mtu))
  IN  IF packets < 2^roundNum - 1 THEN Log2(packets + 1) ELSE roundNum

LEMMA RoundsFact ==
  ASSUME NEW mtu \in Nat, NEW round \in Nat, TransTime(mtu) \in Nat \ {0},
         TransTime(mtu) <= round, NEW packets \in 0..(MaxInt - 1)
  PROVE  /\ Rounds(packets, round, mtu) \in 0..30
         /\ \A k \in 0..30 : Stops(k, packets, TransTime(mtu), round)
                               <=> Rounds(packets, round, mtu) <= k
<1> DEFINE trans == TransTime(mtu)
           filled == round \div trans
           few == Log2(packets + 1)
           full == Log2(filled) + 1
<1>1. packets \in Nat /\ packets + 1 \in Nat \ {0} /\ packets + 1 < Pow(31)
  BY MaxIntType, PowerStep
<1>2. few \in 0..30 /\ \A k \in 0..30 : Pow(k) <= packets + 1 <=> k <= few
  BY <1>1, Log2Fact
<1>3. filled \in Nat \ {0}
  <2> HIDE DEF trans
  <2>1. trans \in Nat \ {0} /\ trans <= round
    BY DEF trans
  <2>2. filled \in Nat /\ ~(1 > filled)
    BY <2>1, QuotientFact
  <2> QED BY <2>2
<1>4. full \in 1..31 /\ \A k \in 0..30 : Pow(k) <= filled <=> k < full
  <2> HIDE DEF filled
  <2> QED BY <1>3, Log2Fact
<1>5. Rounds(packets, round, mtu) = IF packets < Pow(full) - 1 THEN few ELSE full
  BY DEF Rounds, Pow, ComputeRoundNum, ComputePacketNum
<1> HIDE DEF few, full, filled
<1>6. packets < Pow(full) - 1 <=> few < full
  <2>1. Pow(full) \in Nat
    BY <1>4, PowerType
  <2>2. CASE full = 31
    BY <1>1, <1>2, <2>1, <2>2
  <2>3. CASE full \in 0..30
    BY <1>1, <1>2, <2>1, <2>3
  <2> QED BY <1>4, <2>2, <2>3
<1>7. Rounds(packets, round, mtu) = IF few < full THEN few ELSE full
  BY <1>5, <1>6
<1>8. ASSUME NEW k \in 0..30
      PROVE  Stops(k, packets, trans, round) <=> few <= k \/ full <= k
  <2>1. Pow(k) \in Nat /\ Pow(k + 1) \in Nat
    BY PowerType
  <2>2. packets + 1 < Pow(k + 1) <=> few <= k
    <3>1. CASE k = 30
      BY <1>1, <1>2, <3>1
    <3>2. CASE k # 30
      <4>1. k + 1 \in 0..30
        BY <3>2
      <4> QED BY <1>1, <1>2, <2>1, <4>1
    <3> QED BY <3>1, <3>2
  <2>3. Pow(k) * trans > round <=> full <= k
    <3> HIDE DEF trans
    <3>1. trans \in Nat \ {0}
      BY DEF trans
    <3>2. Pow(k) * trans > round <=> Pow(k) > filled
      BY <2>1, <3>1, QuotientFact DEF filled
    <3> QED BY <1>3, <1>4, <2>1, <3>2
  <2> HIDE DEF trans
  <2> QED BY <2>2, <2>3 DEF Stops
<1> QED BY <1>2, <1>4, <1>7, <1>8

-----------------------------------------------------------------------------
(* The recursion of RoundByRound.                                          *)
Turn(T, k, packets, trans, round) ==
  LET left == packets - (2^k - 1)
  IN  IF left < 2^k \/ 2^k * trans > round
      THEN left * trans
      ELSE round + T[k + 1]

IsRounds(T, packets, trans, round) ==
  T = [k \in 0..30 |-> Turn(T, k, packets, trans, round)]

(* The packets left after k rounds, at the speed of the wire.              *)
Left(k, packets, trans) == (packets - (Pow(k) - 1)) * trans

LEMMA LeftType ==
  ASSUME NEW k \in 0..30, NEW packets \in Nat, NEW trans \in Nat
  PROVE  Left(k, packets, trans) \in Int
<1>1. Pow(k) \in Nat
  BY PowerType
<1> QED BY <1>1 DEF Left

LEMMA TurnFact ==
  \A T, k, packets, trans, round :
    k \in 0..30 /\ packets \in Nat /\ trans \in Nat /\ round \in Nat =>
      /\ Stops(k, packets, trans, round) =>
           Turn(T, k, packets, trans, round) = Left(k, packets, trans)
      /\ ~Stops(k, packets, trans, round) =>
           Turn(T, k, packets, trans, round) = round + T[k + 1]
<1> TAKE T, k, packets, trans, round
<1> HAVE k \in 0..30 /\ packets \in Nat /\ trans \in Nat /\ round \in Nat
<1>1. Pow(k) \in Nat /\ Pow(k + 1) = 2 * Pow(k)
  BY PowerStep
<1>2. packets - (Pow(k) - 1) < Pow(k) <=> packets + 1 < Pow(k + 1)
  BY <1>1
<1>3. Turn(T, k, packets, trans, round)
        = IF packets - (Pow(k) - 1) < Pow(k) \/ Pow(k) * trans > round
          THEN (packets - (Pow(k) - 1)) * trans
          ELSE round + T[k + 1]
  BY DEF Turn, Pow
<1> QED BY <1>2, <1>3 DEF Stops, Left

(* It has a solution, and every solution adds up the rounds before the     *)
(* first, a, that stops.                                                   *)
LEMMA RoundsExist ==
  ASSUME NEW packets \in Nat, NEW trans \in Nat, NEW round \in Nat, NEW a \in 0..30,
         \A k \in 0..30 : Stops(k, packets, trans, round) <=> a <= k
  PROVE  \E T : IsRounds(T, packets, trans, round)
<1> DEFINE tail(k) == Left(k, packets, trans)
           F == [k \in 0..30 |-> IF a <= k THEN tail(k) ELSE (a - k) * round + tail(a)]
<1>1. ASSUME NEW k \in 0..30 PROVE F[k] = Turn(F, k, packets, trans, round)
  <2>1. Turn(F, k, packets, trans, round) = IF a <= k THEN tail(k) ELSE round + F[k + 1]
    <3> HIDE DEF F
    <3>1. Stops(k, packets, trans, round) <=> a <= k
      OBVIOUS
    <3>2. /\ Stops(k, packets, trans, round) => Turn(F, k, packets, trans, round) = tail(k)
          /\ ~Stops(k, packets, trans, round) =>
               Turn(F, k, packets, trans, round) = round + F[k + 1]
      BY TurnFact
    <3> QED BY <3>1, <3>2
  <2>2. CASE a <= k
    BY <2>1, <2>2
  <2>3. CASE ~(a <= k)
    <3>1. k + 1 \in 0..30
      BY <2>3
    <3>2. tail(a) \in Int
      BY LeftType
    <3>3. F[k + 1] = (a - (k + 1)) * round + tail(a)
      <4>1. CASE a = k + 1
        <5>1. 0 * round = 0 /\ a - (k + 1) = 0
          BY <4>1
        <5> QED BY <3>1, <3>2, <4>1, <5>1
      <4>2. CASE a # k + 1
        BY <2>3, <3>1, <4>2
      <4> QED BY <4>1, <4>2
    <3>4. (a - k) * round = round + (a - (k + 1)) * round
      <4> DEFINE m == a - (k + 1)
      <4>1. m \in Nat /\ a - k = m + 1
        BY <2>3
      <4> HIDE DEF m
      <4> QED BY <4>1 DEF m
    <3> DEFINE x == (a - (k + 1)) * round
               y == tail(a)
    <3>5. x \in Int /\ y \in Int
      BY <3>2
    <3>6. F[k] = (round + x) + y /\ F[k + 1] = x + y
      BY <2>3, <3>3, <3>4
    <3> HIDE DEF x, y, F
    <3> QED BY <2>1, <2>3, <3>5, <3>6
  <2> QED BY <2>2, <2>3
<1>2. IsRounds(F, packets, trans, round)
  <2>1. F = [k \in 0..30 |-> F[k]]
    OBVIOUS
  <2> HIDE DEF F
  <2> QED BY <1>1, <2>1 DEF IsRounds
<1> QED BY <1>2

LEMMA RoundsSum ==
  \A T, packets, trans, round, a :
    /\ packets \in Nat /\ trans \in Nat /\ round \in Nat /\ a \in 0..30
    /\ \A k \in 0..30 : Stops(k, packets, trans, round) <=> a <= k
    /\ IsRounds(T, packets, trans, round)
    => T[0] = a * round + Left(a, packets, trans)
<1> TAKE T, packets, trans, round, a
<1> HAVE /\ packets \in Nat /\ trans \in Nat /\ round \in Nat /\ a \in 0..30
         /\ \A k \in 0..30 : Stops(k, packets, trans, round) <=> a <= k
         /\ IsRounds(T, packets, trans, round)
<1> DEFINE rest == Left(a, packets, trans)
           Back == {n \in Nat : n <= a => T[a - n] = n * round + rest}
<1>1. ASSUME NEW k \in 0..30 PROVE T[k] = Turn(T, k, packets, trans, round)
  BY DEF IsRounds
<1>2. rest \in Int
  BY LeftType
<1>3. 0 \in Back
  <2>1. T[a] = rest
    BY <1>1, TurnFact
  <2>2. 0 * round = 0 /\ a - 0 = a
    OBVIOUS
  <2> HIDE DEF rest
  <2> QED BY <1>2, <2>1, <2>2
<1>4. ASSUME NEW n \in Nat, n \in Back PROVE n + 1 \in Back
  <2>1. SUFFICES ASSUME n + 1 <= a PROVE T[a - (n + 1)] = (n + 1) * round + rest
    OBVIOUS
  <2> DEFINE k == a - (n + 1)
  <2>2. k \in 0..30 /\ ~(a <= k) /\ k + 1 = a - n
    BY <2>1
  <2>3. T[a - n] = n * round + rest
    BY <1>4, <2>1
  <2> HIDE DEF k, rest
  <2>4. ~Stops(k, packets, trans, round)
    BY <2>2
  <2>5. T[k] = round + T[k + 1]
    BY <1>1, <2>2, <2>4, TurnFact
  <2>6. (n + 1) * round = round + n * round /\ n * round \in Int
    OBVIOUS
  <2> QED BY <1>2, <2>2, <2>3, <2>5, <2>6 DEF k
<1>5. Nat \subseteq Back
  <2> HIDE DEF Back
  <2> QED BY <1>3, <1>4, Induction
<1>6. T[a - a] = a * round + rest
  BY <1>5
<1> QED BY <1>6

(* ComputeFCT is the time of the transmission round by round, for every    *)
(* flow, MTU and round trip time.                                          *)
LEMMA FormulaMatches ==
  ASSUME NEW flowsize \in 0..(MaxInt - 1), NEW mtu \in Nat, mtu > Headers, NEW rtt \in Nat
  PROVE  ComputeFCT(flowsize, mtu, rtt) = RoundByRound(flowsize, mtu, rtt)
<1> DEFINE packets == flowsize \div (mtu - Headers)
           trans == TransTime(mtu)
           round == trans + rtt
           a == Rounds(packets, round, mtu)
           T == CHOOSE f : IsRounds(f, packets, trans, round)
           tail == (flowsize % (mtu - Headers)) + Framing + rtt
<1>1. mtu - Headers \in Nat \ {0} /\ trans \in Nat \ {0} /\ flowsize \in Nat
  BY MaxIntType DEF Headers, TransTime, Framing
<1>2. packets \in 0..(MaxInt - 1)
  <2> DEFINE mss == mtu - Headers
  <2>1. mss \in Nat \ {0}
    BY <1>1
  <2> HIDE DEF mss
  <2>2. flowsize \div mss \in Nat /\ flowsize \div mss <= flowsize
    BY <1>1, <2>1
  <2>3. flowsize \div mss \in 0..(MaxInt - 1)
    BY <2>2, MaxIntType
  <2> QED BY <2>3 DEF mss
<1>3. round \in Nat /\ trans <= round
  BY <1>1
<1>4. /\ a \in 0..30
      /\ \A k \in 0..30 : Stops(k, packets, trans, round) <=> a <= k
  <2> HIDE DEF packets, round, a
  <2> QED BY <1>1, <1>2, <1>3, RoundsFact DEF a
<1>5. RoundByRound(flowsize, mtu, rtt) = T[0] + (flowsize % (mtu - Headers)) + Framing + rtt
  BY DEF RoundByRound, IsRounds, Turn
<1>6. ComputeFCT(flowsize, mtu, rtt)
        = a * round + (packets - (2^a - 1)) * trans + (flowsize % (mtu - Headers)) + Framing + rtt
  BY DEF ComputeFCT, Rounds
<1>7. T[0] = a * round + (packets - (2^a - 1)) * trans
  <2> HIDE DEF packets, round, a, trans
  <2>1. packets \in Nat
    BY <1>2, MaxIntType
  <2>2. \E f : IsRounds(f, packets, trans, round)
    BY <1>1, <1>3, <1>4, <2>1, RoundsExist
  <2>3. IsRounds(T, packets, trans, round)
    BY <2>2
  <2> HIDE DEF T
  <2>4. T[0] = a * round + Left(a, packets, trans)
    BY ZenonT(60), <1>1, <1>3, <1>4, <2>1, <2>3, RoundsSum
  <2> QED BY <2>4 DEF Pow, Left
<1> HIDE DEF packets, round, a, trans, T
<1> QED BY <1>5, <1>6, <1>7

(* The closed formula of ComputeFCT with its logarithms and its two        *)
(* branches is the time of the transmission it is derived from, for every  *)
(* flow an int holds, every MTU above the headers, every bandwidth and     *)
(* every round trip time a caller computes.                                *)
THEOREM MatchesRoundsCorrect == Spec => []MatchesRounds
<1>1. IInv => MatchesRounds
  <2> SUFFICES ASSUME IInv, NEW k \in DOMAIN Mtus
               PROVE  Estimate(call, Mtus[k]) = RoundByRound(call.flowsize, Mtus[k], RTT(call, Mtus[k]))
    BY DEF MatchesRounds
  <2>1. call \in Calls /\ call.flowsize \in 0..(MaxInt - 1)
    BY MtuDecisionAssumption DEF IInv, TypeOK, CallType
  <2>2. Mtus[k] \in Nat /\ Mtus[k] > Headers
    BY MtuDecisionAssumption
  <2>3. RTT(call, Mtus[k]) \in Nat
    BY <2>1, <2>2, RTTType
  <2> QED BY <2>1, <2>2, <2>3, FormulaMatches DEF Estimate
<1> QED BY <1>1, InitIInv, NextIInv, PTL DEF Spec

=============================================================================
