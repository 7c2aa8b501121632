---------------------------- MODULE MultiQueueOps ----------------------------
(***************************************************************************)
(* The queue discipline of ns3::MultiQueue as operators on a vector of     *)
(* queues qs, a function from 0..n-1 to sequences of packets (m_queues).   *)
(* The specifications of the queue, of its public interface and of the     *)
(* device that owns it are built from these operators.                     *)
(*                                                                         *)
(* Floating point is abstracted: Dequeue compares one random value with    *)
(* the accumulated and normalised weights.  These increase, except when    *)
(* m_weight is read past its end, which makes the last ones arbitrary; in  *)
(* every case the positions whose test succeeds are {t, t+1, ...} for some *)
(* t, or none, and no t is excluded here.                                  *)
(***************************************************************************)
EXTENDS Naturals, Sequences, FiniteSets

CONSTANT NoTag    \* what PeekPacketTag finds on a packet without PriorityTag

ASSUME NoTagAssumption == NoTag \notin Nat

(* The queue Enqueue chooses: queue 0 without a tag, the tag's queue when  *)
(* there is one, the last queue otherwise.                                 *)
QueueOf(tag, n) == IF tag = NoTag THEN 0
                   ELSE IF tag < n THEN tag ELSE n - 1

(* nonEmpty of Dequeue: the weighted queues that hold a packet.  w is      *)
(* m_weight.size().                                                        *)
Backlogged(qs, w) == {i \in 1..w : qs[i] # <<>>}

(* The position of queue i in the vector nonEmpty, counted from 0.         *)
Rank(S, i) == Cardinality({j \in S : j < i})

(* Faulty form of Pickable: the loop does not fall through to the last     *)
(* position.                                                               *)
PickableNoFallThrough(qs, w) ==
  LET S == Backlogged(qs, w) IN {i \in S : qs[Rank(S, i)] # <<>>}

(* The queues the weighted loop may end on.  It stops at the first         *)
(* position whose draw succeeds and for which m_queues[position], indexed  *)
(* with the position and not with the queue found there, holds a packet;   *)
(* it falls through to the last position when none does.                   *)
Pickable(qs, w) ==
  LET S == Backlogged(qs, w)
  IN  {i \in S : \/ qs[Rank(S, i)] # <<>>
                 \/ Rank(S, i) + 1 = Cardinality(S)}

(* Faulty form of Servable: queue 0 takes part in the draw like the others. *)
ServableNoPriority(qs, w) ==
  {i \in {0} : qs[i] # <<>>} \cup Pickable(qs, w)

(* The queues from which the next Dequeue may take its packet: none means  *)
(* that it returns the null pointer.                                       *)
Servable(qs, w) == IF qs[0] # <<>> THEN {0} ELSE Pickable(qs, w)

(* The queue whose front Peek returns: the first of the first n that holds *)
(* a packet; the empty set is the null pointer.                            *)
Peeked(qs, n) ==
  {i \in 0..(n - 1) : /\ qs[i] # <<>>
                      /\ \A j \in 0..(i - 1) : qs[j] = <<>>}

=============================================================================
