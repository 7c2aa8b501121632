---------------------------- MODULE MCTcpRecovery ----------------------------
(***************************************************************************)
(* TcpRecovery for TLC: what may happen to a flow of five bytes.           *)
(***************************************************************************)
EXTENDS TcpRecovery

Scene(segments, losses, early, updates) ==
  [segments |-> segments, losses |-> losses, early |-> early, updates |-> updates,
   reliable |-> losses + early = 0, steady |-> updates = 0]

\* Five segments at once: a loss or an early timeout with a change of the
\* segment size, two losses without; one segment at once: a reliable network
\* and one that loses more than the sender has retries.
MCScenarios == {Scene(5, 1, 0, 1), Scene(5, 0, 1, 1), Scene(5, 2, 0, 0),
                Scene(1, 0, 0, 2), Scene(1, 4, 0, 0)}

\* Reordering alone.
MCReordering == {Scene(5, 0, 0, 1)}
=============================================================================
