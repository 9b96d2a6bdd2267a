------------------------- MODULE MCOutboxPublisher -------------------------
(***************************************************************************)
(* Instances of OutboxPublisher for TLC.                                   *)
(***************************************************************************)
EXTENDS OutboxPublisher

\* Two events fill a batch, a third one makes the poll choose.
TwoEvents == 1..2
ThreeEvents == 1..3

============================================================================
