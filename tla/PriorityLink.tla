---------------------------- MODULE PriorityLink ----------------------------
(***************************************************************************)
(* What a link between two devices promises, without queues, transmitters  *)
(* or wires: in each direction and for each priority, the accepted packets *)
(* come out in the order in which they went in, each at most once; a       *)
(* packet may be lost before it is accepted or when it would come out.     *)
(* Nothing is promised between two priorities.                             *)
(***************************************************************************)
EXTENDS Naturals, Sequences

CONSTANTS Dev, Class, Packet,
          From,     \* the device that sends each packet
          ClassOf   \* the priority class of each packet

VARIABLES
  pending,    \* pending[d][c]: accepted from d in class c and not yet out
  delivered,  \* delivered[d]: the packets of d that came out, oldest first
  dead        \* packets that will never come out

vars == <<pending, delivered, dead>>

Accepted(p) ==
  \/ p \in dead
  \/ \E d \in Dev :
       \/ \E k \in DOMAIN delivered[d] : delivered[d][k] = p
       \/ \E c \in Class : \E k \in DOMAIN pending[d][c] : pending[d][c][k] = p

Init == /\ pending = [d \in Dev |-> [c \in Class |-> <<>>]]
        /\ delivered = [d \in Dev |-> <<>>]
        /\ dead = {}

Accept(p) == /\ ~Accepted(p)
             /\ pending' = [pending EXCEPT ![From[p]][ClassOf[p]] = Append(@, p)]
             /\ UNCHANGED <<delivered, dead>>

Refuse(p) == /\ ~Accepted(p)
             /\ dead' = dead \cup {p}
             /\ UNCHANGED <<pending, delivered>>

Deliver(d, c) == /\ pending[d][c] # <<>>
                 /\ pending' = [pending EXCEPT ![d][c] = Tail(@)]
                 /\ delivered' = [delivered EXCEPT ![d] = Append(@, Head(pending[d][c]))]
                 /\ UNCHANGED dead

Corrupt(d, c) == /\ pending[d][c] # <<>>
                 /\ pending' = [pending EXCEPT ![d][c] = Tail(@)]
                 /\ dead' = dead \cup {Head(pending[d][c])}
                 /\ UNCHANGED delivered

Next == \/ \E p \in Packet : Accept(p) \/ Refuse(p)
        \/ \E d \in Dev, c \in Class : Deliver(d, c) \/ Corrupt(d, c)

(* A waiting packet comes out or dies: the link is never silent forever.   *)
Fairness == \A d \in Dev, c \in Class : WF_vars(Deliver(d, c) \/ Corrupt(d, c))

Spec == Init /\ [][Next]_vars /\ Fairness

=============================================================================
