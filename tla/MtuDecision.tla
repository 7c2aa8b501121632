----------------------------- MODULE MtuDecision -----------------------------
(***************************************************************************)
(* ns3::MtuDecision: the estimate of the flow completion time and the loop *)
(* over array_mtu that picks the MTU, in its four callers' forms: from a   *)
(* measured round trip time (TcpSocketBase), and from the delays of a data *)
(* centre, of a wide area network and of a mixture of both.                *)
(*                                                                         *)
(* The unit of time is the time of one byte on the wire, which makes every *)
(* quantity an integer; BytesPerMs of them are the millisecond of the      *)
(* code.  Abstracted: the rounding of double; delay_tx and delay_rx, 0 in  *)
(* all callers; flows for which packets + 1 might not fit an int;          *)
(* bandwidths that do not; src_type, always "dc".                          *)
(***************************************************************************)
EXTENDS Integers, Sequences, FiniteSets

CONSTANTS
  Mtus,        \* array_mtu
  BytesPerMs,  \* bandwidth / 8000
  Calls        \* the arguments of the calls

Headers == 40   \* IP and TCP
Framing == 38   \* preamble, header, checksum and gap of a frame
MaxInt == 2147483647

CallType == [via : {"tcp", "dc", "wan", "mix"}, flowsize : 0..(MaxInt - 1), rtt : Nat,
             prop : Nat, process : Nat,
             switches : Nat, propWan : Nat, processWan : Nat]

ASSUME MtuDecisionAssumption ==
  /\ Mtus \in Seq(Nat) /\ Mtus # <<>>
  /\ \A k \in DOMAIN Mtus : Mtus[k] > Headers
  /\ BytesPerMs \in Nat \ {0}
  /\ Calls \subseteq CallType

VARIABLES
  call,     \* the arguments of the current call
  i,        \* index of the next MTU to compare
  bestMTU,
  FCT       \* the estimate for bestMTU

vars == <<call, i, bestMTU, FCT>>

-----------------------------------------------------------------------------
(* trans_delay, computed with integers: whole seconds, then in ms.         *)
TransDelay(mtu) ==
  (((mtu + Framing) * 8) \div (8000 * BytesPerMs)) * 1000 * BytesPerMs

(* trans_time, computed with doubles.                                      *)
TransTime(mtu) == mtu + Framing

ComputeRTTInDC(prop, trans, process) == prop * 8 + trans * 3 + process * 3

ComputeRTTInWAN(switches, prop, trans, process) ==
  switches * (process + trans) + (switches + 1) * 2 * prop

ComputeRTTInMix(propDc, propWan, processWan, processDc, transDc, switches) ==
  propDc * 4 + (processDc + transDc) * 2
    + switches * (processWan + processDc) + (switches + 1) * 2 * processWan

(* The round trip time a call assumes for an MTU.                          *)
RTT(c, mtu) ==
  CASE c.via = "tcp" -> c.rtt
    [] c.via = "dc"  -> ComputeRTTInDC(c.prop, TransDelay(mtu), c.process)
    [] c.via = "wan" -> ComputeRTTInWAN(c.switches, c.prop, TransDelay(mtu), c.process)
    [] c.via = "mix" -> ComputeRTTInMix(c.prop, c.propWan, c.processWan, c.process,
                                        TransDelay(mtu), c.switches)

(* floor(log2(n)), for n > 0.                                              *)
Log2(n) == Cardinality({k \in 1..30 : 2^k <= n})

(* ComputePacketNum and ComputeRoundNum: the packets one round has time    *)
(* for, and the rounds of doubling windows that do not fill it.            *)
ComputePacketNum(round, mtu) == round \div TransTime(mtu)
ComputeRoundNum(packetNum) == Log2(packetNum) + 1

\* Faulty form: the windows of n rounds are taken for 2^n packets.
ComputeFCTOffByOne(flowsize, mtu, rtt) ==
  LET packets == flowsize \div (mtu - Headers)
      round == TransTime(mtu) + rtt
      roundNum == ComputeRoundNum(ComputePacketNum(round, mtu))
      rounds == IF packets < 2^roundNum THEN Log2(packets + 1) ELSE roundNum
  IN  rounds * round + (packets - 2^rounds) * TransTime(mtu)
        + (flowsize % (mtu - Headers)) + Framing + rtt

(* ComputeFCT: full rounds, the remaining packets at the speed of the      *)
(* wire, the remaining bytes, and one round trip.                            *)
ComputeFCT(flowsize, mtu, rtt) ==
  LET packets == flowsize \div (mtu - Headers)
      round == TransTime(mtu) + rtt
      roundNum == ComputeRoundNum(ComputePacketNum(round, mtu))
      rounds == IF packets < 2^roundNum - 1 THEN Log2(packets + 1) ELSE roundNum
  IN  rounds * round + (packets - (2^rounds - 1)) * TransTime(mtu)
        + (flowsize % (mtu - Headers)) + Framing + rtt

Estimate(c, mtu) == ComputeFCT(c.flowsize, mtu, RTT(c, mtu))

-----------------------------------------------------------------------------
Start(c) == /\ call = c
            /\ i = 1
            /\ bestMTU = Mtus[1]
            /\ FCT = Estimate(c, Mtus[1])

Init == \E c \in Calls : Start(c)

\* Faulty form: a tie goes to the later MTU.
CompareLast ==
  /\ i <= Len(Mtus)
  /\ IF Estimate(call, Mtus[i]) <= FCT
     THEN bestMTU' = Mtus[i] /\ FCT' = Estimate(call, Mtus[i])
     ELSE UNCHANGED <<bestMTU, FCT>>
  /\ i' = i + 1
  /\ UNCHANGED call

(* One turn of the loop.                                                   *)
Compare ==
  /\ i <= Len(Mtus)
  /\ IF Estimate(call, Mtus[i]) < FCT
     THEN bestMTU' = Mtus[i] /\ FCT' = Estimate(call, Mtus[i])
     ELSE UNCHANGED <<bestMTU, FCT>>
  /\ i' = i + 1
  /\ UNCHANGED call

Next == Compare

Spec == Init /\ [][Next]_vars
-----------------------------------------------------------------------------
TypeOK ==
  /\ call \in Calls
  /\ i \in 1..(Len(Mtus) + 1)
  /\ bestMTU \in Nat
  /\ FCT \in Int

(* The loop returns the first of the MTUs with the smallest estimate: no   *)
(* other MTU promises an earlier end, and a tie goes to the MTU that comes *)
(* first in array_mtu.                                                     *)
FirstOfTheBest ==
  i > Len(Mtus) =>
    \E k \in DOMAIN Mtus :
      /\ bestMTU = Mtus[k]
      /\ \A j \in DOMAIN Mtus : Estimate(call, Mtus[k]) <= Estimate(call, Mtus[j])
      /\ \A j \in 1..(k - 1) : Estimate(call, Mtus[k]) < Estimate(call, Mtus[j])

(* Packets sent round by round: the window doubles until it fills a round, *)
(* from then on the wire never pauses.                                     *)
RoundByRound(flowsize, mtu, rtt) ==
  LET packets == flowsize \div (mtu - Headers)
      round == TransTime(mtu) + rtt
      T[k \in 0..30] ==
        LET left == packets - (2^k - 1)
        IN  IF left < 2^k \/ 2^k * TransTime(mtu) > round
            THEN left * TransTime(mtu)
            ELSE round + T[k + 1]
  IN  T[0] + (flowsize % (mtu - Headers)) + Framing + rtt

(* The closed formula of ComputeFCT, with its logarithms and its two       *)
(* branches, is the time of the transmission it is derived from.           *)
MatchesRounds ==
  \A k \in DOMAIN Mtus :
    Estimate(call, Mtus[k]) = RoundByRound(call.flowsize, Mtus[k], RTT(call, Mtus[k]))

-----------------------------------------------------------------------------
(* The round trip time of a data centre contains three transmission delays *)
(* (the header of ComputeRTTInDC).  The code does not provide it: the      *)
(* delay is computed with integers and is 0.                               *)
DcRttAsDocumented ==
  call.via = "dc" =>
    RTT(call, bestMTU) = call.prop * 8 + TransTime(bestMTU) * 3 + call.process * 3

=============================================================================
