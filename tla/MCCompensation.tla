--------------------------- MODULE MCCompensation ---------------------------
(***************************************************************************)
(* Instances of Compensation for TLC.                                      *)
(***************************************************************************)
EXTENDS Compensation

Two == 1..2
Four == 1..4
Third == {3}

\* Message 4 is a second copy of the event of alert 1.
CopyOfFirst == [m \in Message |-> IF m = 4 THEN 1 ELSE IF m = 3 THEN 2 ELSE m]
OneStream == [m \in Message |-> 1]
OneUser == {"u1"}
SameUser == [a \in Event |-> "u1"]

============================================================================
