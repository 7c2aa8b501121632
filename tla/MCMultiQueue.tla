---------------------------- MODULE MCMultiQueue ----------------------------
(* Seven packets: an acknowledgement, two of priority 0 and 1, two of      *)
(* priority 2, and one whose tag is beyond the last queue.                 *)
EXTENDS MultiQueue

CONSTANTS ack, a0, b1, c1, d2, e2, f7

MCPacket == {ack, a0, b1, c1, d2, e2, f7}
MCTag == [p \in MCPacket |-> CASE p = ack -> NoTag
                               [] p = a0 -> 0
                               [] p \in {b1, c1} -> 1
                               [] p \in {d2, e2} -> 2
                               [] p = f7 -> 7]

=============================================================================
