---------------------------- MODULE MCMtuDecision ----------------------------
(***************************************************************************)
(* The MTUs of the constructor at 1 Gbps, and flows on both sides of the   *)
(* boundaries of the estimate: a packet full or not, a round complete or   *)
(* not, for a round trip time of less than a packet up to 1 ms.            *)
(***************************************************************************)
EXTENDS MtuDecision

MCMtus == <<1500, 3000, 4500, 6000, 7500, 9000>>
MCBytesPerMs == 125000

FlowSizes ==
  {0, 1}
    \cup {(MCMtus[k] - Headers) * packets - less :
            k \in DOMAIN MCMtus, packets \in {1, 3, 7, 10, 15, 63}, less \in {0, 1}}
    \cup {102399, 1000000, 30000000}

NoDelays == [via |-> "tcp", flowsize |-> 0, rtt |-> 0, prop |-> 0, process |-> 0,
             switches |-> 0, propWan |-> 0, processWan |-> 0]

MCCalls ==
  {[NoDelays EXCEPT !.flowsize = f, !.rtt = r] :
      f \in FlowSizes, r \in {0, 1538, 12500, 125000}}
    \cup {[NoDelays EXCEPT !.via = "dc", !.flowsize = f, !.prop = p] :
      f \in FlowSizes, p \in {625, 12500}}
    \cup {[NoDelays EXCEPT !.via = "wan", !.flowsize = f, !.prop = 31250, !.switches = n] :
      f \in FlowSizes, n \in {1, 4}}
    \cup {[NoDelays EXCEPT !.via = "mix", !.flowsize = f, !.prop = 625, !.process = q,
                           !.propWan = 31250, !.processWan = q, !.switches = 4] :
      f \in FlowSizes, q \in {0, 100}}

=============================================================================
