--------------------------- MODULE MCMtuNetDevice ---------------------------
(* Device a sends an acknowledgement and data of both weighted priorities  *)
(* and may lose packets, device b sends one packet, loses none, and has a  *)
(* receiver with an error model.  While the draw is 1 nothing is lost.     *)
EXTENDS MtuNetDevice

CONSTANTS a, b, ack, m1, l1, l2, r1

MCDev == {a, b}
MCPacket == {ack, m1, l1, l2, r1}
MCFrom == [p \in MCPacket |-> IF p = r1 THEN b ELSE a]
MCTag == [p \in MCPacket |-> CASE p = ack -> NoTag
                               [] p = m1 -> 1
                               [] p \in {l1, l2} -> 2
                               [] p = r1 -> 0]

LossAtA == [d \in MCDev |-> IF d = a THEN 1 ELSE 0]

=============================================================================
