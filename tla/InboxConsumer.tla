--------------------------- MODULE InboxConsumer ---------------------------
(***************************************************************************)
(* A stream consumer with an inbox, as the processor has two of: the       *)
(* transaction consumer and the compensation consumer.  The outer part of  *)
(* process_single_message: dead-letter threshold, envelope, inbox check,   *)
(* the business transaction (left to the modules that extend this one,     *)
(* phases "work" and "write"), XACK.                                       *)
(*                                                                         *)
(* The publisher delivers at least once: two messages may carry the same   *)
(* event.                                                                  *)
(***************************************************************************)
EXTENDS StreamConsumer

CONSTANTS
  Event,
  EventOf,      \* [Message -> Event]
  Corrupt,      \* messages whose envelope does not parse
  MAX_CONSUMER_DELIVERIES,
  DeadLetterInsertable  \* as in OutboxPublisher

ASSUME InboxAssumption ==
  /\ EventOf \in [Message -> Event]
  /\ Corrupt \subseteq Message
  /\ MAX_CONSUMER_DELIVERIES \in Nat \ {0}
  /\ DeadLetterInsertable \in BOOLEAN
  /\ ~FromStart

VARIABLES
  processed,    \* events in processed_events for this group
  dlq_rows      \* [Message -> Nat], rows of dead_letter_events

inboxVars == <<streamVars, processed, dlq_rows>>

Phase == {"work", "write", "ack", "dead", "dead_ack"}

InboxTypeOK ==
  /\ StreamTypeOK(Phase)
  /\ processed \subseteq Event
  /\ dlq_rows \in [Message -> Nat]

InboxInit ==
  /\ StreamInit
  /\ processed = {}
  /\ dlq_rows = [m \in Message |-> 0]

\* The delivery_count the two loops pass on.
DeliveryCount(w) == IF w[2] = "read" THEN 1 ELSE 2

\* Mutant: the threshold counts as reached one delivery early.
CheckEarly(w, m) ==
  /\ Current(w, m) /\ phase[w] = "check"
  /\ GoTo(w, IF DeliveryCount(w) >= MAX_CONSUMER_DELIVERIES \/ m \in Corrupt THEN "dead"
             ELSE IF EventOf[m] \in processed THEN "ack"
             ELSE "work")
  /\ UNCHANGED <<group, entry, todo, faults, processed, dlq_rows>>

\* Mutant: a duplicate is skipped without being acknowledged.
CheckUnacked(w, m) ==
  /\ Current(w, m) /\ phase[w] = "check"
  /\ IF m \notin Corrupt /\ EventOf[m] \in processed
     THEN Return(w, m)
     ELSE GoTo(w, IF m \in Corrupt THEN "dead" ELSE "work") /\ UNCHANGED todo
  /\ UNCHANGED <<group, entry, faults, processed, dlq_rows>>

\* Over the threshold, or no envelope: to the dead letters.  Otherwise the
\* inbox decides between acknowledging at once and doing the work.
Check(w, m) ==
  /\ Current(w, m) /\ phase[w] = "check"
  /\ GoTo(w, IF DeliveryCount(w) > MAX_CONSUMER_DELIVERIES \/ m \in Corrupt THEN "dead"
             ELSE IF EventOf[m] \in processed THEN "ack"
             ELSE "work")
  /\ UNCHANGED <<group, entry, todo, faults, processed, dlq_rows>>

\* XACK after the commit, or of a duplicate.
Ack(w, m) ==
  /\ Current(w, m) /\ phase[w] = "ack"
  /\ Acknowledge(w, m)
  /\ UNCHANGED <<processed, dlq_rows>>

\* handle_dead_letter commits its row ...
DeadLetter(w, m) ==
  /\ Current(w, m) /\ phase[w] = "dead"
  /\ DeadLetterInsertable
  /\ dlq_rows' = [dlq_rows EXCEPT ![m] = @ + 1]
  /\ GoTo(w, "dead_ack")
  /\ UNCHANGED <<group, entry, todo, faults, processed>>

\* ... and acknowledges the message.
AckDeadLetter(w, m) ==
  /\ Current(w, m) /\ phase[w] = "dead_ack"
  /\ Acknowledge(w, m)
  /\ UNCHANGED <<processed, dlq_rows>>

\* The row is refused, or a call of handle_dead_letter fails: nothing there
\* catches the exception.
FailDeadLetter(w, m) ==
  /\ Current(w, m)
  /\ \/ phase[w] = "dead" /\ ~DeadLetterInsertable /\ UNCHANGED faults
     \/ phase[w] \in {"dead", "dead_ack"} /\ Fault
  /\ Raise(w)
  /\ UNCHANGED <<group, entry, processed, dlq_rows>>

\* process_single_message around its business transaction.
ProcessAround(w, m) ==
  \/ Check(w, m) \/ Ack(w, m)
  \/ DeadLetter(w, m) \/ AckDeadLetter(w, m) \/ FailDeadLetter(w, m)

----------------------------------------------------------------------------
\* A table that refuses dead letters: a corrupt message is never acknowledged,
\* and the exception it raises drops whatever follows it in its batch.
HeldUp(m) ==
  /\ ~DeadLetterInsertable
  /\ \E l \in Corrupt : StreamOf[l] = StreamOf[m] /\ l <= m

\* A message leaves the PEL only when its event has been committed or its
\* dead letter has been written: XACK never runs ahead of the commit.
AckedIsSettled ==
  \A m \in Message :
    entry[m] = "acked" => EventOf[m] \in processed \/ dlq_rows[m] > 0

\* A message is handed to the operators only if it is corrupt: being slow,
\* reclaimed or retried does not make a good message a dead letter.
OnlyCorruptDeadLettered ==
  \A m \in Message : dlq_rows[m] > 0 => m \in Corrupt

============================================================================
