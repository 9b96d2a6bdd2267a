----------------------------- MODULE MCConsole -----------------------------
(***************************************************************************)
(* An instance of Console for TLC.                                         *)
(***************************************************************************)
EXTENDS Console

\* Messages 1 and 2 on stream:alerts, 3 on stream:escalations.
Three == 1..3
TwoStreams == [m \in Message |-> IF m = 3 THEN Escalations ELSE Alerts]

============================================================================
