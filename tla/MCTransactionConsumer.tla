----------------------- MODULE MCTransactionConsumer -----------------------
(***************************************************************************)
(* Instances of TransactionConsumer for TLC.                               *)
(***************************************************************************)
EXTENDS TransactionConsumer

Three == 1..3
Four == 1..4

\* Messages 1 and 3 carry the same event: the publisher sent it twice.
DuplicateOf == [m \in Message |-> IF m <= 2 THEN m ELSE IF m = 3 THEN 1 ELSE 3]
OneStream == [m \in Message |-> 1]
Own == [m \in Message |-> m]
OneUser == {"u1"}
SameUser == [e \in Event |-> "u1"]

First == {1}
Second == {2}

============================================================================
