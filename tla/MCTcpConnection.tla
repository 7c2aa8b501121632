--------------------------- MODULE MCTcpConnection ---------------------------
(***************************************************************************)
(* A patient network that loses one segment less than there are retries,   *)
(* or as many as there are; one whose timers run out at any moment; and a  *)
(* sink that stops at any moment; with a flow whose only segment carries   *)
(* the FIN, and one with data before it.                                   *)
(***************************************************************************)
EXTENDS TcpConnection

MCScenarios ==
  [size : 1..N, patient : {TRUE}, losses : {2, 3}, stops : {FALSE}] \cup
  [size : 1..N, patient : {TRUE}, losses : {1}, stops : {TRUE}] \cup
  [size : {N}, patient : {FALSE}, losses : {0}, stops : {FALSE}]

=============================================================================
