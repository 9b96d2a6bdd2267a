-------------------------- MODULE OutboxPublisher --------------------------
(***************************************************************************)
(* The outbox_publisher service: replicas that each poll a batch of        *)
(* PENDING rows of outbox_events under FOR UPDATE SKIP LOCKED, XADD them   *)
(* one by one to Redis and mark all of them in one database transaction.   *)
(*                                                                         *)
(* An event is a number, its rank in created_at, the order in which the    *)
(* poll takes rows.  Rows become visible in any order: two services may    *)
(* commit in another order than they read the clock.                       *)
(*                                                                         *)
(* What a replica has done in its open transaction is kept in three sets:  *)
(* todo (polled, not yet tried), sent (XADD answered, row marked           *)
(* PUBLISHED in the session) and failed (handle_publish_failure ran).      *)
(* Their union is the set of rows it has locked.  A replica that crashes   *)
(* loses exactly these: it keeps nothing else, so crash, rollback and      *)
(* restart are one step.                                                   *)
(***************************************************************************)
EXTENDS Naturals, FiniteSets

CONSTANTS
  Event,                \* the outbox events, by rank of created_at
  Publisher,            \* the replicas of the service
  BATCH_SIZE,           \* settings.BATCH_SIZE
  MAX_RETRIES,          \* settings.MAX_RETRIES
  DeadLetterInsertable, \* does the dead_letter_events table accept the row
                        \* that the DeadLetterEvent model inserts
  MaxAborts,            \* bound: transactions lost to a crash or the database
  MaxCopies             \* bound: copies, and rolled back attempts, of one
                        \* event that are counted

ASSUME PublisherAssumption ==
  /\ Event \subseteq Nat
  /\ BATCH_SIZE \in Nat \ {0}
  /\ MAX_RETRIES \in Nat \ {0}
  /\ DeadLetterInsertable \in BOOLEAN
  /\ MaxAborts \in Nat
  /\ MaxCopies \in Nat \ {0}

VARIABLES
  status,      \* [Event -> EventStatus], committed outbox_events.status
  retry_count, \* [Event -> Nat], committed outbox_events.retry_count
  dlq_rows,    \* [Event -> Nat], rows of dead_letter_events for the event
  copies,      \* [Event -> Nat], messages in Redis carrying the event
  todo, sent, failed, \* [Publisher -> SUBSET Event], the open transactions
  rolled_back, \* [Event -> Nat], attempts whose transaction was rolled back
  aborts       \* transactions lost to a crash or the database so far

session == <<todo, sent, failed>>
vars == <<status, retry_count, dlq_rows, copies, session, rolled_back, aborts>>

EventStatus == {"ABSENT", "PENDING", "PUBLISHED", "DEAD_LETTERED"}
Settled == {"PUBLISHED", "DEAD_LETTERED"}

TypeOK ==
  /\ status \in [Event -> EventStatus]
  /\ retry_count \in [Event -> 0..MAX_RETRIES]
  /\ dlq_rows \in [Event -> Nat]
  /\ copies \in [Event -> 0..MaxCopies]
  /\ todo \in [Publisher -> SUBSET Event]
  /\ sent \in [Publisher -> SUBSET Event]
  /\ failed \in [Publisher -> SUBSET Event]
  /\ rolled_back \in [Event -> 0..MaxCopies]
  /\ aborts \in 0..MaxAborts

----------------------------------------------------------------------------
Tried(p) == sent[p] \cup failed[p]
Locked(p) == todo[p] \cup Tried(p)

\* Mutant of Pollable: the poll does not skip rows that others have locked.
PollableUnlocked == {e \in Event : status[e] = "PENDING"}

\* The rows that SELECT ... FOR UPDATE SKIP LOCKED of a replica may return.
Pollable == {e \in Event : /\ status[e] = "PENDING"
                           /\ \A q \in Publisher : e \notin Locked(q)}

\* ORDER BY created_at ASC LIMIT BATCH_SIZE over the rows of S.
IsOldestBatch(B, S) ==
  /\ Cardinality(B) = IF Cardinality(S) < BATCH_SIZE THEN Cardinality(S)
                      ELSE BATCH_SIZE
  /\ \A e \in B, f \in S \ B : e < f

\* Mutant of Exhausted: the retry limit is off by one.
ExhaustedLate(p) == {e \in failed[p] : retry_count[e] + 1 > MAX_RETRIES}

\* The failed events of p's transaction that reach MAX_RETRIES in it.
Exhausted(p) == {e \in failed[p] : retry_count[e] + 1 >= MAX_RETRIES}

Init ==
  /\ status = [e \in Event |-> "ABSENT"]
  /\ retry_count = [e \in Event |-> 0]
  /\ dlq_rows = [e \in Event |-> 0]
  /\ copies = [e \in Event |-> 0]
  /\ todo = [p \in Publisher |-> {}]
  /\ sent = [p \in Publisher |-> {}]
  /\ failed = [p \in Publisher |-> {}]
  /\ rolled_back = [e \in Event |-> 0]
  /\ aborts = 0

\* A service commits a transaction that inserts the event as PENDING.
Record(e) ==
  /\ status[e] = "ABSENT"
  /\ status' = [status EXCEPT ![e] = "PENDING"]
  /\ UNCHANGED <<retry_count, dlq_rows, copies, session, rolled_back, aborts>>

\* poll_pending_events returns a non-empty batch.  (An empty one changes
\* nothing: publish_batch returns 0 and the loop sleeps.)
Poll(p) ==
  /\ Locked(p) = {}
  /\ \E B \in SUBSET Pollable :
        /\ B # {}
        /\ IsOldestBatch(B, Pollable)
        /\ todo' = [todo EXCEPT ![p] = B]
  /\ UNCHANGED <<status, retry_count, dlq_rows, copies, sent, failed,
                 rolled_back, aborts>>

\* The loop of publish_batch takes the events of the batch oldest first.
IsNext(p, e) == e \in todo[p] /\ \A f \in todo[p] : e <= f

CountedUpTo(n) == IF n < MaxCopies THEN n + 1 ELSE n

AddCopy(e) == copies' = [copies EXCEPT ![e] = CountedUpTo(@)]

\* publish_event returned: the row is marked PUBLISHED in the session.
Publish(p, e) ==
  /\ IsNext(p, e)
  /\ AddCopy(e)
  /\ todo' = [todo EXCEPT ![p] = @ \ {e}]
  /\ sent' = [sent EXCEPT ![p] = @ \cup {e}]
  /\ UNCHANGED <<status, retry_count, dlq_rows, failed, rolled_back, aborts>>

\* Mutant of FailPublish: the exception is swallowed and the row marked.
FailPublishMarked(p, e) ==
  /\ IsNext(p, e)
  /\ UNCHANGED copies
  /\ todo' = [todo EXCEPT ![p] = @ \ {e}]
  /\ sent' = [sent EXCEPT ![p] = @ \cup {e}]
  /\ UNCHANGED <<status, retry_count, dlq_rows, failed, rolled_back, aborts>>

\* publish_event raised and handle_publish_failure ran.  Redis may have
\* executed the XADD (the reply was lost) or not.
FailPublish(p, e) ==
  /\ IsNext(p, e)
  /\ AddCopy(e) \/ UNCHANGED copies
  /\ todo' = [todo EXCEPT ![p] = @ \ {e}]
  /\ failed' = [failed EXCEPT ![p] = @ \cup {e}]
  /\ UNCHANGED <<status, retry_count, dlq_rows, sent, rolled_back, aborts>>

Attempt(p) == \E e \in Event : Publish(p, e) \/ FailPublish(p, e)

\* The transaction ends: its locks are gone, and so is the session's memory.
EndTransaction(p) ==
  /\ todo' = [todo EXCEPT ![p] = {}]
  /\ sent' = [sent EXCEPT ![p] = {}]
  /\ failed' = [failed EXCEPT ![p] = {}]

BatchDone(p) == todo[p] = {} /\ Tried(p) # {}

\* Mutant of Commit: a failed attempt is not counted.
CommitUncounted(p) ==
  /\ BatchDone(p)
  /\ status' = [e \in Event |-> IF e \in sent[p] THEN "PUBLISHED"
                                ELSE IF e \in Exhausted(p) THEN "DEAD_LETTERED"
                                ELSE status[e]]
  /\ EndTransaction(p)
  /\ UNCHANGED <<retry_count, dlq_rows, copies, rolled_back, aborts>>

\* session.commit() of a batch: marks, retry counters and dead letters of
\* all its events at once.
Commit(p) ==
  /\ BatchDone(p)
  /\ DeadLetterInsertable \/ Exhausted(p) = {}
  /\ status' = [e \in Event |-> IF e \in sent[p] THEN "PUBLISHED"
                                ELSE IF e \in Exhausted(p) THEN "DEAD_LETTERED"
                                ELSE status[e]]
  /\ retry_count' = [e \in Event |-> IF e \in failed[p] THEN retry_count[e] + 1
                                     ELSE retry_count[e]]
  /\ dlq_rows' = [e \in Event |-> IF e \in Exhausted(p) THEN dlq_rows[e] + 1
                                  ELSE dlq_rows[e]]
  /\ EndTransaction(p)
  /\ UNCHANGED <<copies, rolled_back, aborts>>

\* The transaction is rolled back: nothing it did to the tables remains, and
\* the history notes the attempts that leave no other trace.
Rollback(p) ==
  /\ EndTransaction(p)
  /\ rolled_back' = [e \in Event |-> IF e \in Tried(p)
                                     THEN CountedUpTo(rolled_back[e])
                                     ELSE rolled_back[e]]
  /\ UNCHANGED <<status, retry_count, dlq_rows, copies>>

\* session.commit() raises: the table refuses a dead letter, or the database
\* fails.  run_loop logs the error and waits; the whole batch is rolled back.
CommitFails(p) ==
  /\ BatchDone(p)
  /\ \/ ~DeadLetterInsertable /\ Exhausted(p) # {} /\ UNCHANGED aborts
     \/ aborts < MaxAborts /\ aborts' = aborts + 1
  /\ Rollback(p)

\* The replica crashes or is cancelled with a batch in hand.
Abort(p) ==
  /\ Locked(p) # {}
  /\ aborts < MaxAborts
  /\ aborts' = aborts + 1
  /\ Rollback(p)

Next ==
  \/ \E e \in Event : Record(e)
  \/ \E p \in Publisher :
        Poll(p) \/ Attempt(p) \/ Commit(p) \/ CommitFails(p) \/ Abort(p)

Spec == Init /\ [][Next]_vars

\* run_loop polls again after every batch and after every error, and a
\* batch in hand is worked off: nothing in it waits for another replica.
Fairness ==
  \A p \in Publisher :
     /\ WF_vars(Poll(p))
     /\ WF_vars(Attempt(p))
     /\ WF_vars(Commit(p) \/ CommitFails(p))

FairSpec == Spec /\ Fairness

----------------------------------------------------------------------------
\* An event marked PUBLISHED is in its stream: no crash, rollback or second
\* replica between XADD and commit loses it (publish_batch).
PublishedWasDelivered ==
  \A e \in Event : status[e] = "PUBLISHED" => copies[e] > 0

\* Every extra copy of an event is paid for by an attempt on that very event
\* that failed and was counted in retry_count, or that was rolled back with
\* its batch (a crash, a lost commit, a refused dead letter of another
\* event): two replicas never publish the same row in parallel, and a row
\* marked PUBLISHED is not published again (poll_pending_events, FOR UPDATE
\* SKIP LOCKED).
DuplicatesAccounted ==
  \A e \in Event :
    copies[e] <= retry_count[e] + rolled_back[e]
                 + (IF status[e] = "PUBLISHED" THEN 1 ELSE 0)
                 + (IF \E p \in Publisher : e \in Tried(p) THEN 1 ELSE 0)

\* An event is DEAD_LETTERED exactly when the operators' table holds one row
\* for it, and only after MAX_RETRIES counted failures; a PENDING event
\* always has an attempt left (handle_publish_failure).
DeadLetterLedger ==
  \A e \in Event :
    /\ dlq_rows[e] = IF status[e] = "DEAD_LETTERED" THEN 1 ELSE 0
    /\ status[e] = "DEAD_LETTERED" <=> retry_count[e] = MAX_RETRIES

\* A settled event is never touched again, whatever the other replicas have
\* in hand: neither its status nor its retry counter changes.
SettledIsFinal ==
  [][\A e \in Event :
       status[e] \in Settled =>
         status'[e] = status[e] /\ retry_count'[e] = retry_count[e]]_vars

\* Every recorded event is eventually published or handed to the operators,
\* however often XADD fails (the loop of run_loop, FR-EVT-005).
EventuallySettled ==
  \A e \in Event : status[e] = "PENDING" ~> status[e] \in Settled

\* Why the ledgers above hold.  A row is locked by one replica at a time and
\* is PENDING as long as it is locked; a replica has each row of its batch in
\* one of its three sets; what it will mark PUBLISHED is in the stream.
RowLocks ==
  \A p \in Publisher :
    /\ \A q \in Publisher : p # q => Locked(p) \cap Locked(q) = {}
    /\ \A e \in Locked(p) : status[e] = "PENDING"
    /\ todo[p] \cap Tried(p) = {} /\ sent[p] \cap failed[p] = {}
    /\ \A e \in sent[p] : copies[e] > 0

\* The inductive invariant.
IndInv ==
  /\ TypeOK
  /\ RowLocks
  /\ PublishedWasDelivered
  /\ DeadLetterLedger
  /\ DuplicatesAccounted

\* The service implements the outbox promise of OutboxDelivery.
Delivery == INSTANCE OutboxDelivery
              WITH delivered <- {e \in Event : copies[e] > 0}
ImplementsDelivery == Delivery!Spec

============================================================================
