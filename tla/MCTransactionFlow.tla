------------------------- MODULE MCTransactionFlow -------------------------
(***************************************************************************)
(* An instance of TransactionFlow for TLC.                                 *)
(***************************************************************************)
EXTENDS TransactionFlow

OneKey == {"k1"}
SameKey == [s \in Submission |-> "k1"]

============================================================================
