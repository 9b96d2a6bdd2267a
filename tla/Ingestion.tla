----------------------------- MODULE Ingestion -----------------------------
(***************************************************************************)
(* POST /transactions: IngestionService.submit_transaction of the gateway. *)
(* A handler looks its idempotency key up and, when there is no row, adds  *)
(* the transaction and its outbox event in one commit.  The unique index   *)
(* covers (idempotency_key, created_at), so it does not stop a second row  *)
(* with the same key: handlers whose lookups overlap both insert, and from *)
(* then on a lookup finds two rows and raises.                             *)
(*                                                                         *)
(* A row is known by its number in commit order; its transaction.created   *)
(* event has the same number.                                              *)
(***************************************************************************)
EXTENDS Integers, Sequences, FiniteSets

CONSTANTS
  Submission,   \* requests, retries among them
  Key,
  KeyOf         \* [Submission -> Key], a retry has the key of the first try

ASSUME IngestionAssumption ==
  /\ IsFiniteSet(Submission)
  /\ KeyOf \in [Submission -> Key]

VARIABLES
  handler,      \* [Submission -> HandlerState]
  answer,       \* [Submission -> row it was told of, 0 before]
  transactions, \* the submissions that made the rows, in commit order
  looked        \* history: [Submission -> rows there were at its lookup]

ingestionVars == <<handler, answer, transactions, looked>>

HandlerState == {"new", "insert", "accepted", "duplicate", "error"}
Row == 1..Cardinality(Submission)

IngestionTypeOK ==
  /\ handler \in [Submission -> HandlerState]
  /\ answer \in [Submission -> 0..Len(transactions)]
  /\ transactions \in UNION {[1..n -> Submission] : n \in 0..Cardinality(Submission)}
  /\ looked \in [Submission -> 0..Len(transactions)]
  /\ \A s \in Submission : handler[s] \in {"accepted", "duplicate"} <=> answer[s] > 0

IngestionInit ==
  /\ handler = [s \in Submission |-> "new"]
  /\ answer = [s \in Submission |-> 0]
  /\ transactions = <<>>
  /\ looked = [s \in Submission |-> 0]

RowsOf(k) == {r \in DOMAIN transactions : KeyOf[transactions[r]] = k}

\* Mutant: the lookup finds only its own submission's row.
LookupOwn(s) ==
  /\ handler[s] = "new"
  /\ looked' = [looked EXCEPT ![s] = Len(transactions)]
  /\ handler' = [handler EXCEPT ![s] = "insert"]
  /\ UNCHANGED <<answer, transactions>>

\* select ... where idempotency_key = key: none, one or several rows.
Lookup(s) ==
  LET rows == RowsOf(KeyOf[s]) IN
  /\ handler[s] = "new"
  /\ looked' = [looked EXCEPT ![s] = Len(transactions)]
  /\ \/ rows = {} /\ handler' = [handler EXCEPT ![s] = "insert"] /\ UNCHANGED answer
     \/ \E r \in rows :
          /\ rows = {r}
          /\ handler' = [handler EXCEPT ![s] = "duplicate"]
          /\ answer' = [answer EXCEPT ![s] = r]
     \/ /\ Cardinality(rows) > 1
        /\ handler' = [handler EXCEPT ![s] = "error"]
        /\ UNCHANGED answer
  /\ UNCHANGED transactions

\* The commit; the caller records the outbox event with it.
Insert(s) ==
  /\ handler[s] = "insert"
  /\ transactions' = Append(transactions, s)
  /\ handler' = [handler EXCEPT ![s] = "accepted"]
  /\ answer' = [answer EXCEPT ![s] = Len(transactions')]
  /\ UNCHANGED looked

\* A call to the database fails, or the gateway dies before the commit.
FailSubmit(s) ==
  /\ handler[s] \in {"new", "insert"}
  /\ handler' = [handler EXCEPT ![s] = "error"]
  /\ UNCHANGED <<answer, transactions, looked>>

----------------------------------------------------------------------------
\* Two rows share a key only if the later one's handler had looked before the
\* earlier one was committed; a retry that is sent after the first request
\* was answered never makes a second transaction.
SecondRowOnlyByOverlap ==
  \A r, q \in DOMAIN transactions :
    r < q /\ KeyOf[transactions[r]] = KeyOf[transactions[q]]
      => looked[transactions[q]] < r

============================================================================
