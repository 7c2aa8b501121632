----------------------------- MODULE FlowMonitor -----------------------------
(***************************************************************************)
(* The instrument of the experiments: ns-3's FlowMonitor, fed by the IPv4  *)
(* probe of every node, and the parser that turns its file into the mean   *)
(* flow completion time the plots show (script/xml_parser.py).             *)
(*                                                                         *)
(* A TCP connection is two flows: the data, and the answers of the sink,   *)
(* whose source port is the sink's.  The parser averages the latter.  The  *)
(* network between the probes is what can happen to a packet: it is        *)
(* forwarded, delivered, dropped by a queue that traces the drop, or lost  *)
(* in MtuNetDevice::Send, which traces nothing a probe listens to.         *)
(* Time is counted in ticks; everything at the end time comes after        *)
(* Simulator::Stop, whose event was scheduled before the run.              *)
(***************************************************************************)
EXTENDS Integers, FiniteSets, Functions

CONSTANTS DataFlows,  \* the flows from a source to its sink
          SinkFlow,   \* for each of them the flow of the sink's answers
          MaxDelay,   \* MaxPerHopDelay, 10 s
          Period,     \* PERIODIC_CHECK_INTERVAL, 1 s
          EndTime,    \* END_TIME of the scenario
          MaxPackets, \* bound: the packets of each flow
          MaxHops     \* bound: forwards of one packet

SinkFlows == {SinkFlow[d] : d \in DataFlows}
Flows == DataFlows \cup SinkFlows

ASSUME TimesAssumption == /\ MaxDelay \in Nat \ {0}
                          /\ Period \in Nat \ {0}
                          /\ EndTime \in Nat
                          /\ MaxPackets \in [Flows -> Nat]
                          /\ MaxHops \in Nat
ASSUME FlowsAssumption == DataFlows \cap SinkFlows = {}

VARIABLES now,        \* Simulator::Now
          nextCheck,  \* when PeriodicCheckForLostPackets runs next
          net,        \* the packets on their way
          tracked,    \* m_trackedPackets: packet |-> when and how often seen
          stats,      \* m_flowStats; no packet sent yet: no entry
          received,   \* history: packets ReportLastRx counted
          declared,   \* history: packets CheckForLostPackets counted as lost
          dropped,    \* history: packets ReportDrop counted as lost
          late,       \* history: packets delivered when no longer tracked
          finished    \* the file is written

vars == <<now, nextCheck, net, tracked, stats,
          received, declared, dropped, late, finished>>

\* A packet as Ipv4FlowClassifier::Classify numbers it within its flow.
Packet == {p \in Flows \X Nat : p[2] < MaxPackets[p[1]]}

Of(S, f) == {p \in S : p[1] = f}

Time == 0 .. EndTime

\* FlowStats, without the histograms.
Record == [tx : Nat, rx : Nat, lost : Nat, times : Nat, firstTx : Time, lastTx : Time,
           firstRx : Time, lastRx : Time, delaySum : Nat]

TypeOK ==
    /\ now \in Time
    /\ nextCheck \in Nat
    /\ net \subseteq Packet
    /\ DOMAIN tracked \subseteq Packet
    /\ \A p \in DOMAIN tracked :
          tracked[p] \in [first : Time, last : Time, times : 0 .. MaxHops]
    /\ stats \in [Flows -> Record]
    /\ received \subseteq Packet
    /\ declared \subseteq Packet
    /\ dropped \subseteq Packet
    /\ late \subseteq Packet
    /\ finished \in BOOLEAN

Init ==
    /\ now = 0
    /\ nextCheck = Period
    /\ net = {}
    /\ tracked = [p \in {} |-> 0]
    /\ stats = [f \in Flows |->
                  [tx |-> 0, rx |-> 0, lost |-> 0, times |-> 0,
                   firstTx |-> 0, lastTx |-> 0,
                   firstRx |-> 0, lastRx |-> 0, delaySum |-> 0]]
    /\ received = {}
    /\ declared = {}
    /\ dropped = {}
    /\ late = {}
    /\ finished = FALSE

Running == now < EndTime

IsTracked(p) == p \in DOMAIN tracked

\* m_trackedPackets.erase.
Without(S) == Restrict(tracked, DOMAIN tracked \ S)

-----------------------------------------------------------------------------
(* The reports of the probes *)

\* The sink speaks only when spoken to.
MaySend(f) == \A d \in DataFlows :
                 f = SinkFlow[d] => \E p \in received \cup late : p[1] = d

\* Faulty form: the flow starts anew with every packet.
ReportFirstTxRestarts(p) ==
    /\ tracked' = [q \in DOMAIN tracked \cup {p} |->
                     IF q = p THEN [first |-> now, last |-> now, times |-> 0]
                              ELSE tracked[q]]
    /\ stats' = [stats EXCEPT ![p[1]] =
                   [stats[p[1]] EXCEPT !.tx = @ + 1, !.firstTx = now, !.lastTx = now]]

\* A probe sees the packet leave its source.
ReportFirstTx(p) ==
    /\ tracked' = [q \in DOMAIN tracked \cup {p} |->
                     IF q = p THEN [first |-> now, last |-> now, times |-> 0]
                              ELSE tracked[q]]
    /\ stats' = [stats EXCEPT ![p[1]] =
                   [stats[p[1]] EXCEPT !.tx = @ + 1,
                             !.firstTx = IF stats[p[1]].tx = 0 THEN now ELSE @,
                             !.lastTx = now]]

\* Classify gives the packet the next number of its flow.
SendOutgoing(f) ==
    /\ Running /\ MaySend(f)
    /\ stats[f].tx < MaxPackets[f]
    /\ LET p == <<f, stats[f].tx>>
       IN  /\ ReportFirstTx(p)
           /\ net' = net \cup {p}
    /\ UNCHANGED <<now, nextCheck, received, declared, dropped, late, finished>>

\* A switch forwards it; a packet no longer tracked is only warned about.
ReportForwarding(p) ==
    /\ Running /\ p \in net /\ IsTracked(p)
    /\ tracked[p].times < MaxHops
    /\ tracked' = [tracked EXCEPT ![p].times = @ + 1, ![p].last = now]
    /\ UNCHANGED <<now, nextCheck, net, stats,
                   received, declared, dropped, late, finished>>

\* Faulty form: the packet is still tracked after its delivery.
LastRxKeeps(p) ==
    /\ stats' = [stats EXCEPT ![p[1]] =
                   [stats[p[1]] EXCEPT !.rx = @ + 1,
                             !.times = @ + tracked[p].times,
                             !.delaySum = @ + (now - tracked[p].first),
                             !.firstRx = IF stats[p[1]].rx = 0 THEN now ELSE @,
                             !.lastRx = now]]
    /\ tracked' = tracked

\* Faulty form: the delay is taken the wrong way round.
LastRxReversed(p) ==
    /\ stats' = [stats EXCEPT ![p[1]] =
                   [stats[p[1]] EXCEPT !.rx = @ + 1,
                             !.times = @ + tracked[p].times,
                             !.delaySum = @ + (tracked[p].first - now),
                             !.firstRx = IF stats[p[1]].rx = 0 THEN now ELSE @,
                             !.lastRx = now]]
    /\ tracked' = Without({p})

LastRx(p) ==
    /\ stats' = [stats EXCEPT ![p[1]] =
                   [stats[p[1]] EXCEPT !.rx = @ + 1,
                             !.times = @ + tracked[p].times,
                             !.delaySum = @ + (now - tracked[p].first),
                             !.firstRx = IF stats[p[1]].rx = 0 THEN now ELSE @,
                             !.lastRx = now]]
    /\ tracked' = Without({p})

\* The packet reaches its destination while the monitor tracks it ...
ReportLastRx(p) ==
    /\ Running /\ p \in net /\ IsTracked(p)
    /\ LastRx(p)
    /\ net' = net \ {p}
    /\ received' = received \cup {p}
    /\ UNCHANGED <<now, nextCheck, declared, dropped, late, finished>>

\* ... or after it was taken for lost, which changes no statistics.
LastRxUnknown(p) ==
    /\ Running /\ p \in net /\ ~IsTracked(p)
    /\ net' = net \ {p}
    /\ late' = late \cup {p}
    /\ UNCHANGED <<now, nextCheck, tracked, stats,
                   received, declared, dropped, finished>>

\* Faulty form: the packet is still tracked after its drop.
DropKeeps(p) ==
    /\ stats' = [stats EXCEPT ![p[1]].lost = @ + 1]
    /\ tracked' = tracked

\* Counted whether the packet is tracked or not.
Drop(p) ==
    /\ stats' = [stats EXCEPT ![p[1]].lost = @ + 1]
    /\ tracked' = Without({p})

\* A queue disc, a device queue or IPv4 drops it, and a probe hears of it.
ReportDrop(p) ==
    /\ Running /\ p \in net
    /\ Drop(p)
    /\ net' = net \ {p}
    /\ dropped' = dropped \cup {p}
    /\ UNCHANGED <<now, nextCheck, received, declared, late, finished>>

\* The draw of MtuNetDevice::Send loses it: no probe hears of it.
Lose(p) ==
    /\ Running /\ p \in net
    /\ net' = net \ {p}
    /\ UNCHANGED <<now, nextCheck, tracked, stats,
                   received, declared, dropped, late, finished>>

-----------------------------------------------------------------------------
(* Losses are concluded from silence *)

\* Faulty form: a packet silent for exactly MaxDelay is spared.
OverdueStrict == {p \in DOMAIN tracked : now - tracked[p].last > MaxDelay}

Overdue == {p \in DOMAIN tracked : now - tracked[p].last >= MaxDelay}

CheckForLostPackets ==
    /\ tracked' = Without(Overdue)
    /\ stats' = [f \in Flows |->
                   [stats[f] EXCEPT
                      !.lost = @ + Cardinality(Of(Overdue, f))]]
    /\ declared' = declared \cup Overdue

PeriodicCheckForLostPackets ==
    /\ Running /\ now = nextCheck
    /\ CheckForLostPackets
    /\ nextCheck' = now + Period
    /\ UNCHANGED <<now, net, received, dropped, late, finished>>

\* The next event is later; the check that is due runs first.
Tick ==
    /\ Running /\ now < nextCheck
    /\ now' = now + 1
    /\ UNCHANGED <<nextCheck, net, tracked, stats,
                   received, declared, dropped, late, finished>>

\* After Simulator::Run the scenario checks once more and writes the file.
SerializeToXmlFile ==
    /\ ~Running /\ ~finished
    /\ CheckForLostPackets
    /\ finished' = TRUE
    /\ UNCHANGED <<now, nextCheck, net, received, dropped, late>>

Next ==
    \/ \E f \in Flows : SendOutgoing(f)
    \/ \E p \in net : \/ ReportForwarding(p)
                      \/ ReportLastRx(p)
                      \/ LastRxUnknown(p)
                      \/ ReportDrop(p)
                      \/ Lose(p)
    \/ PeriodicCheckForLostPackets
    \/ Tick
    \/ SerializeToXmlFile

Spec == Init /\ [][Next]_vars

-----------------------------------------------------------------------------
(* script/xml_parser.py, on the file *)

\* Flow.__init__; a time never assigned is written as 0.
FlowCompletionTime(f) == stats[f].lastRx - stats[f].firstTx

-----------------------------------------------------------------------------
(* Properties *)

\* Every packet a flow sent is received, counted as lost, or still tracked;
\* only a packet that was declared lost and dropped later counts twice.
\* About the counters and the map the four reports and the check share.
Conserved ==
    \A f \in Flows :
        stats[f].tx + Cardinality(Of(declared \cap dropped, f))
          = stats[f].rx + stats[f].lost + Cardinality(Of(DOMAIN tracked, f))

\* No packet counts both as received and as lost, whatever comes late.
\* About ReportLastRx against CheckForLostPackets and ReportDrop.
NeverBoth == received \cap (declared \cup dropped) = {}

\* Silence is noticed: no packet is tracked for more than MaxDelay and one
\* period since it was seen, and none for MaxDelay in the file.
\* About PeriodicCheckForLostPackets and the check before the file.
LossesFoundInTime ==
    \A p \in DOMAIN tracked :
        now - tracked[p].last < IF finished THEN MaxDelay ELSE MaxDelay + Period

\* The time the parser calls the completion of a flow covers the delay of
\* every packet it received: their mean is never above it.  A flow that
\* received nothing has no completion, and its time is not positive; main
\* averages it all the same, since flowCompletionTime is never None.
\* About the times ReportFirstTx and ReportLastRx keep, and Flow.__init__.
DelaysWithinCompletion ==
    \A f \in Flows :
        IF stats[f].rx > 0
        THEN stats[f].delaySum <= stats[f].rx * FlowCompletionTime(f)
        ELSE FlowCompletionTime(f) <= 0
=============================================================================
