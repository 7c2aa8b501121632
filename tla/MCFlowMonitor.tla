---------------------------- MODULE MCFlowMonitor ----------------------------
(* One connection.  Of the two packets of its data, one may be answered,    *)
(* forwarded, delivered late, dropped late or lost while the other takes    *)
(* another way; a period is as long as the delay that counts as a loss, so  *)
(* that a packet can be silent for anything between one and two of them.    *)
EXTENDS FlowMonitor

CONSTANTS data, acks

MCDataFlows == {data}
MCSinkFlow == [d \in {data} |-> acks]
MCMaxPackets == [f \in {data, acks} |-> IF f = data THEN 2 ELSE 1]
=============================================================================
