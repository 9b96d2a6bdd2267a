-------------------------- MODULE TransactionFlow --------------------------
(***************************************************************************)
(* A transaction from the request to its processing: ingestion in the      *)
(* gateway, then the outbox and the processor with what their abstract     *)
(* specifications promise.  OutboxPublisher implements OutboxDelivery, and *)
(* TransactionConsumer implements EventProcessing.                         *)
(***************************************************************************)
EXTENDS Ingestion

VARIABLES
  outbox_status, delivered,                  \* see OutboxDelivery
  listening, offered, processed, alerts     \* see EventProcessing

Outbox == INSTANCE OutboxDelivery WITH Event <- Row, status <- outbox_status
Processing == INSTANCE EventProcessing WITH Event <- Row

outboxVars == <<outbox_status, delivered>>
processingVars == <<listening, offered, processed, alerts>>
flowVars == <<ingestionVars, outboxVars, processingVars>>

FlowTypeOK ==
  /\ IngestionTypeOK
  /\ outbox_status \in [Row -> Outbox!EventStatus]
  /\ \A r \in Row : outbox_status[r] = "ABSENT" <=> r > Len(transactions)
  /\ listening \in BOOLEAN
  /\ alerts \in [Row -> 0..1]
  /\ {r \in Row : alerts[r] > 0} \subseteq processed /\ processed \subseteq offered
  /\ offered \subseteq delivered /\ delivered \subseteq DOMAIN transactions

FlowInit ==
  /\ IngestionInit
  /\ Outbox!Init
  /\ Processing!Init

----------------------------------------------------------------------------
\* Mutant: the commit is without the outbox event.
AcceptOnly(s) ==
  /\ Insert(s)
  /\ UNCHANGED <<outboxVars, processingVars>>

\* The commit of submit_transaction: the row and its outbox event.
Accept(s) ==
  /\ Insert(s)
  /\ Outbox!Record(Len(transactions'))
  /\ UNCHANGED processingVars

\* The request is turned away without a trace in the database.
Decline(s) == (Lookup(s) \/ FailSubmit(s)) /\ UNCHANGED <<outboxVars, processingVars>>

\* The publisher XADDs a PENDING event, more than once after a failure ...
Deliver(r) ==
  /\ Outbox!Deliver(r)
  /\ Processing!Offer(r)
  /\ UNCHANGED ingestionVars

\* ... and settles it.
Settle(r) ==
  /\ Outbox!Settle({r}, {}) \/ Outbox!Settle({}, {r})
  /\ UNCHANGED <<ingestionVars, processingVars>>

Process(r) == Processing!Process(r) /\ UNCHANGED <<ingestionVars, outboxVars>>

Listen == Processing!Listen /\ UNCHANGED <<ingestionVars, outboxVars>>

FlowNext ==
  \/ \E s \in Submission : Accept(s) \/ Decline(s)
  \/ \E r \in Row : Deliver(r) \/ Settle(r) \/ Process(r)
  \/ Listen

FlowSpec == FlowInit /\ [][FlowNext]_flowVars

\* The publisher polls until an event is settled.  The processor starts, and
\* processes what it was given: TransactionConsumer shows that every message
\* is acknowledged in the end, and not before its event is processed; the
\* pipeline can digest what the gateway has validated, so no row is a poison
\* event.  Nothing makes a request arrive or succeed.
FlowFairness ==
  /\ \A r \in Row : WF_flowVars(Settle(r)) /\ WF_flowVars(r \notin delivered /\ Deliver(r))
  /\ \A r \in Row : WF_flowVars(Process(r))
  /\ WF_flowVars(Listen)

FlowFairSpec == FlowSpec /\ FlowFairness

----------------------------------------------------------------------------
\* A request that was answered, a retry too, has a transaction of its key
\* with its event in the outbox: a failing call or a crash never leaves one
\* without the other.  And nothing is processed that has no such row.
AnswerIsBacked ==
  /\ \A s \in Submission : answer[s] > 0 =>
       /\ answer[s] \in DOMAIN transactions
       /\ KeyOf[transactions[answer[s]]] = KeyOf[s]
       /\ outbox_status[answer[s]] # "ABSENT"
  /\ \A r \in processed : r \in DOMAIN transactions /\ outbox_status[r] # "ABSENT"

\* The answer 202 is a promise, to a retry as well: the transaction it names is
\* processed in the end, unless the publisher gave its event up (an outbox
\* dead letter) or had settled it before the processor first listened.
AcceptedIsProcessed ==
  \A r \in Row :
    (\E s \in Submission : answer[s] = r) ~>
      \/ r \in processed
      \/ outbox_status[r] = "DEAD_LETTERED"
      \/ outbox_status[r] = "PUBLISHED" /\ r \notin offered

============================================================================
