----------------------- MODULE OutboxPublisher_proofs -----------------------
(***************************************************************************)
(* Proofs about OutboxPublisher for any number of events and replicas, any *)
(* batch size and retry limit, and both forms of the dead-letter table.    *)
(***************************************************************************)
EXTENDS OutboxPublisher, TLAPS

USE PublisherAssumption

----------------------------------------------------------------------------
\* The inductive invariant holds before any event is recorded.
LEMMA InitIndInv == Init => IndInv
BY DEF Init, IndInv, TypeOK, EventStatus, RowLocks, Locked, Tried,
       PublishedWasDelivered, DeadLetterLedger, DuplicatesAccounted

\* Recording an event touches a row that no replica can have locked.
LEMMA RecordIndInv ==
  ASSUME IndInv, NEW e \in Event, Record(e)
  PROVE  IndInv'
<1> USE DEF IndInv
<1>1. TypeOK'
  BY DEF TypeOK, EventStatus, Record, session
<1>2. RowLocks'
  BY DEF TypeOK, RowLocks, Locked, Tried, Record, session
<1>3. PublishedWasDelivered' /\ DeadLetterLedger'
  BY DEF TypeOK, EventStatus, PublishedWasDelivered, DeadLetterLedger, Record, session
<1>4. DuplicatesAccounted'
  BY DEF TypeOK, EventStatus, DuplicatesAccounted, Tried, Record, session
<1> QED BY <1>1, <1>2, <1>3, <1>4

\* A poll locks PENDING rows that nobody holds.
LEMMA PollIndInv ==
  ASSUME IndInv, NEW p \in Publisher, Poll(p)
  PROVE  IndInv'
<1> USE DEF IndInv
<1>1. PICK B \in SUBSET Pollable : todo' = [todo EXCEPT ![p] = B]
  BY DEF Poll
<1>2. \A e \in B : status[e] = "PENDING" /\ \A q \in Publisher : e \notin Locked(q)
  BY <1>1 DEF Pollable
<1>3. TypeOK'
  BY <1>1 DEF TypeOK, Poll, Pollable
<1>4. RowLocks'
  <2>1. \A q \in Publisher : q # p => Locked(q)' = Locked(q)
    BY <1>1 DEF TypeOK, Locked, Tried, Poll
  <2>2. Locked(p)' = B /\ Tried(p)' = {}
    BY <1>1 DEF TypeOK, Locked, Tried, Poll
  <2>3. QED BY <1>1, <1>2, <2>1, <2>2 DEF TypeOK, RowLocks, Poll, Locked, Tried
<1>5. PublishedWasDelivered' /\ DeadLetterLedger' /\ DuplicatesAccounted'
  BY DEF PublishedWasDelivered, DeadLetterLedger, DuplicatesAccounted, Poll, Tried
<1> QED BY <1>3, <1>4, <1>5

\* What one attempt of replica p on event e does to the open transactions.
LEMMA AttemptLocks ==
  ASSUME IndInv, NEW p \in Publisher, NEW e \in Event,
         Publish(p, e) \/ FailPublish(p, e)
  PROVE  /\ e \in todo[p]
         /\ \A q \in Publisher : q # p => Tried(q)' = Tried(q)
         /\ Tried(p)' = Tried(p) \cup {e}
         /\ \A q \in Publisher : Locked(q)' = Locked(q)
         /\ \A q \in Publisher : e \notin Tried(q)
         /\ status[e] = "PENDING"
         /\ copies'[e] \in copies[e]..copies[e] + 1
         /\ \A f \in Event : f # e => copies'[f] = copies[f]
         /\ copies' \in [Event -> 0..MaxCopies]
<1> USE DEF IndInv
<1>1. e \in todo[p]
  BY DEF Publish, FailPublish, IsNext
<1>2. /\ \A q \in Publisher : q # p => Tried(q)' = Tried(q)
      /\ Tried(p)' = Tried(p) \cup {e}
  BY DEF TypeOK, Publish, FailPublish, Tried
<1>3. \A q \in Publisher : Locked(q)' = Locked(q)
  BY <1>1, <1>2 DEF TypeOK, Publish, FailPublish, Locked
<1>4. /\ \A q \in Publisher : e \notin Tried(q)
      /\ status[e] = "PENDING"
  BY <1>1 DEF RowLocks, Locked
<1>5. /\ copies'[e] \in copies[e]..copies[e] + 1
      /\ \A f \in Event : f # e => copies'[f] = copies[f]
      /\ copies' \in [Event -> 0..MaxCopies]
  BY DEF TypeOK, Publish, FailPublish, AddCopy, CountedUpTo
<1> QED BY <1>1, <1>2, <1>3, <1>4, <1>5

\* An attempt, successful or not, keeps the ledgers.
LEMMA AttemptIndInv ==
  ASSUME IndInv, NEW p \in Publisher, NEW e \in Event,
         Publish(p, e) \/ FailPublish(p, e)
  PROVE  IndInv'
<1> USE DEF IndInv
<1>0. UNCHANGED <<status, retry_count, dlq_rows, rolled_back, aborts>>
  BY DEF Publish, FailPublish
<1>1. TypeOK'
  BY <1>0, AttemptLocks DEF TypeOK, Publish, FailPublish
<1>2. RowLocks'
  <2>1. \A q \in Publisher : todo'[q] \cap Tried(q)' = {} /\ sent'[q] \cap failed'[q] = {}
    BY AttemptLocks DEF TypeOK, RowLocks, Tried, Publish, FailPublish
  <2>2. \A f \in Event : copies'[f] >= copies[f]
    BY AttemptLocks DEF TypeOK
  <2>3. \A q \in Publisher : \A f \in sent'[q] : copies'[f] > 0
    <3> SUFFICES ASSUME NEW q \in Publisher, NEW f \in sent'[q]
                 PROVE copies'[f] > 0
      OBVIOUS
    <3>1. f \in Event
      BY <1>1 DEF TypeOK
    <3>2. CASE f \in sent[q]
      BY <2>2, <3>1, <3>2, <1>1 DEF TypeOK, RowLocks
    <3>3. CASE f \notin sent[q]
      <4>1. f = e /\ Publish(p, e)
        BY <3>3 DEF TypeOK, Publish, FailPublish
      <4>2. copies'[e] > 0
        BY <4>1 DEF TypeOK, Publish, AddCopy, CountedUpTo
      <4> QED BY <4>1, <4>2
    <3> QED BY <3>2, <3>3
  <2> QED BY <1>0, <2>1, <2>3, AttemptLocks DEF RowLocks
<1>3. PublishedWasDelivered' /\ DeadLetterLedger'
  BY <1>0, AttemptLocks DEF TypeOK, PublishedWasDelivered, DeadLetterLedger
<1>4. DuplicatesAccounted'
  <2> SUFFICES ASSUME NEW f \in Event
               PROVE (copies[f] <= retry_count[f] + rolled_back[f]
                   + (IF status[f] = "PUBLISHED" THEN 1 ELSE 0)
                   + (IF \E q \in Publisher : f \in Tried(q) THEN 1 ELSE 0))'
    BY DEF DuplicatesAccounted
  <2>1. CASE f = e
    <3>1. \E q \in Publisher : f \in Tried(q)'
      BY <2>1, AttemptLocks
    <3>2. copies[f] <= retry_count[f] + rolled_back[f]
      BY <2>1, AttemptLocks DEF DuplicatesAccounted, TypeOK
    <3> QED BY <1>0, <2>1, <3>1, <3>2, AttemptLocks DEF TypeOK
  <2>2. CASE f # e
    <3>1. (\E q \in Publisher : f \in Tried(q)') <=> \E q \in Publisher : f \in Tried(q)
      BY <2>2, AttemptLocks
    <3>2. copies'[f] = copies[f]
      BY <2>2, AttemptLocks
    <3> QED BY <1>0, <3>1, <3>2 DEF DuplicatesAccounted
  <2> QED BY <2>1, <2>2
<1> QED BY <1>1, <1>2, <1>3, <1>4

\* A transaction that ends, either way, frees its rows and no others.
LEMMA EndTransactionLocks ==
  ASSUME IndInv, NEW p \in Publisher, EndTransaction(p)
  PROVE  /\ todo' \in [Publisher -> SUBSET Event]
         /\ sent' \in [Publisher -> SUBSET Event]
         /\ failed' \in [Publisher -> SUBSET Event]
         /\ todo'[p] = {} /\ sent'[p] = {} /\ failed'[p] = {}
         /\ Tried(p)' = {} /\ Locked(p)' = {}
         /\ \A q \in Publisher : q # p =>
               /\ todo'[q] = todo[q] /\ sent'[q] = sent[q] /\ failed'[q] = failed[q]
               /\ Tried(q)' = Tried(q) /\ Locked(q)' = Locked(q)
BY DEF IndInv, TypeOK, EndTransaction, Tried, Locked

\* The rows a commit rewrites are PENDING rows that only p has locked.
LEMMA CommitIndInv ==
  ASSUME IndInv, NEW p \in Publisher, Commit(p)
  PROVE  IndInv'
<1> USE DEF IndInv
<1>1. EndTransaction(p) /\ UNCHANGED <<copies, rolled_back, aborts>>
  BY DEF Commit
<1>2. \A e \in Tried(p) : /\ e \in Event /\ status[e] = "PENDING"
                          /\ retry_count[e] < MAX_RETRIES
  BY DEF TypeOK, RowLocks, Locked, Tried, DeadLetterLedger
<1>3. \A e \in Event : e \notin Tried(p) =>
         /\ status'[e] = status[e]
         /\ retry_count'[e] = retry_count[e]
         /\ dlq_rows'[e] = dlq_rows[e]
  BY DEF Commit, Exhausted, Tried
<1>4. \A e \in sent[p] : /\ status'[e] = "PUBLISHED"
                         /\ retry_count'[e] = retry_count[e]
                         /\ dlq_rows'[e] = dlq_rows[e]
  BY <1>2 DEF Commit, Exhausted, Tried, RowLocks
<1>5. \A e \in failed[p] :
         /\ retry_count'[e] = retry_count[e] + 1
         /\ IF retry_count[e] + 1 = MAX_RETRIES
            THEN status'[e] = "DEAD_LETTERED" /\ dlq_rows'[e] = dlq_rows[e] + 1
            ELSE status'[e] = "PENDING" /\ dlq_rows'[e] = dlq_rows[e]
  <2> TAKE e \in failed[p]
  <2>1. e \in Event /\ e \notin sent[p] /\ retry_count[e] < MAX_RETRIES /\ status[e] = "PENDING"
    BY <1>2 DEF Tried, RowLocks
  <2>2. e \in Exhausted(p) <=> retry_count[e] + 1 = MAX_RETRIES
    BY <2>1 DEF Exhausted, TypeOK
  <2> QED BY <2>1, <2>2 DEF Commit
<1>6. TypeOK'
  <2>1. status' \in [Event -> EventStatus] /\ dlq_rows' \in [Event -> Nat]
    BY DEF Commit, TypeOK, EventStatus
  <2>2. retry_count' \in [Event -> 0..MAX_RETRIES]
    BY <1>2 DEF Commit, TypeOK, Tried
  <2> QED BY <1>1, <2>1, <2>2, EndTransactionLocks DEF TypeOK
<1>7. RowLocks'
  <2>1. \A q \in Publisher : q # p => \A e \in Locked(q) : e \in Event /\ e \notin Tried(p)
    BY DEF RowLocks, Locked, Tried, TypeOK
  <2> QED BY <1>1, <1>3, <2>1, EndTransactionLocks DEF RowLocks
<1>8. PublishedWasDelivered'
  <2> SUFFICES ASSUME NEW e \in Event, status'[e] = "PUBLISHED" PROVE copies'[e] > 0
    BY DEF PublishedWasDelivered
  <2>1. CASE e \in sent[p]
    BY <1>1, <2>1 DEF RowLocks
  <2>2. CASE e \in failed[p]
    BY <1>5, <2>2
  <2>3. CASE e \notin Tried(p)
    BY <1>1, <1>3, <2>3 DEF PublishedWasDelivered
  <2> QED BY <2>1, <2>2, <2>3 DEF Tried
<1>9. DeadLetterLedger'
  <2> SUFFICES ASSUME NEW e \in Event
               PROVE  /\ dlq_rows'[e] = IF status'[e] = "DEAD_LETTERED" THEN 1 ELSE 0
                      /\ status'[e] = "DEAD_LETTERED" <=> retry_count'[e] = MAX_RETRIES
    BY DEF DeadLetterLedger
  <2>1. CASE e \in sent[p]
    BY <1>2, <1>4, <2>1 DEF DeadLetterLedger, Tried, TypeOK
  <2>2. CASE e \in failed[p]
    BY <1>2, <1>5, <2>2 DEF DeadLetterLedger, Tried, TypeOK
  <2>3. CASE e \notin Tried(p)
    BY <1>3, <2>3 DEF DeadLetterLedger
  <2> QED BY <2>1, <2>2, <2>3 DEF Tried
<1>10. DuplicatesAccounted'
  <2> SUFFICES ASSUME NEW e \in Event
               PROVE (copies[e] <= retry_count[e] + rolled_back[e]
                   + (IF status[e] = "PUBLISHED" THEN 1 ELSE 0)
                   + (IF \E q \in Publisher : e \in Tried(q) THEN 1 ELSE 0))'
    BY DEF DuplicatesAccounted
  <2>1. CASE e \in Tried(p)
    <3>1. copies[e] <= retry_count[e] + rolled_back[e] + 1
      BY <1>2, <2>1 DEF DuplicatesAccounted, TypeOK
    <3>2. CASE e \in sent[p]
      BY <1>1, <1>4, <3>1, <3>2 DEF TypeOK
    <3>3. CASE e \in failed[p]
      <4>1. retry_count'[e] = retry_count[e] + 1 /\ status'[e] # "PUBLISHED"
        BY <1>5, <3>3
      <4> QED BY <1>1, <3>1, <4>1 DEF TypeOK
    <3> QED BY <2>1, <3>2, <3>3 DEF Tried
  <2>2. CASE e \notin Tried(p)
    <3>1. (\E q \in Publisher : e \in Tried(q)') <=> \E q \in Publisher : e \in Tried(q)
      BY <1>1, <2>2, EndTransactionLocks
    <3> QED BY <1>1, <1>3, <2>2, <3>1 DEF DuplicatesAccounted
  <2> QED BY <2>1, <2>2
<1> QED BY <1>6, <1>7, <1>8, <1>9, <1>10

\* A transaction that is rolled back leaves only its copies behind, and each
\* of them is an attempt that the history notes.
LEMMA RollbackIndInv ==
  ASSUME IndInv, NEW p \in Publisher, CommitFails(p) \/ Abort(p)
  PROVE  IndInv'
<1> USE DEF IndInv
<1>1. EndTransaction(p) /\ UNCHANGED <<status, retry_count, dlq_rows, copies>>
  BY DEF CommitFails, Abort, Rollback
<1>2. aborts' \in aborts..MaxAborts
  BY DEF CommitFails, Abort, TypeOK
<1>3. \A e \in Event :
         rolled_back'[e] = IF e \in Tried(p) THEN CountedUpTo(rolled_back[e])
                           ELSE rolled_back[e]
  BY DEF CommitFails, Abort, Rollback
<1>4. rolled_back' \in [Event -> 0..MaxCopies]
  BY DEF CommitFails, Abort, Rollback, CountedUpTo, TypeOK
<1>5. TypeOK'
  BY <1>1, <1>2, <1>4, EndTransactionLocks DEF TypeOK
<1>6. RowLocks'
  BY <1>1, EndTransactionLocks DEF RowLocks
<1>7. PublishedWasDelivered' /\ DeadLetterLedger'
  BY <1>1 DEF PublishedWasDelivered, DeadLetterLedger
<1>8. DuplicatesAccounted'
  <2> SUFFICES ASSUME NEW e \in Event
               PROVE (copies[e] <= retry_count[e] + rolled_back[e]
                   + (IF status[e] = "PUBLISHED" THEN 1 ELSE 0)
                   + (IF \E q \in Publisher : e \in Tried(q) THEN 1 ELSE 0))'
    BY DEF DuplicatesAccounted
  <2>1. CASE e \in Tried(p)
    <3>1. copies[e] <= retry_count[e] + rolled_back[e]
                       + (IF status[e] = "PUBLISHED" THEN 1 ELSE 0) + 1
      BY DEF DuplicatesAccounted, TypeOK
    <3>2. copies[e] <= MaxCopies
      BY DEF TypeOK
    <3>3. \/ rolled_back'[e] = rolled_back[e] + 1
          \/ rolled_back'[e] = MaxCopies
      BY <1>3, <2>1 DEF CountedUpTo, TypeOK
    <3> QED BY <1>1, <3>1, <3>2, <3>3 DEF TypeOK
  <2>2. CASE e \notin Tried(p)
    <3>1. (\E q \in Publisher : e \in Tried(q)') <=> \E q \in Publisher : e \in Tried(q)
      BY <1>1, <2>2, EndTransactionLocks
    <3>2. rolled_back'[e] = rolled_back[e]
      BY <1>3, <2>2
    <3> QED BY <1>1, <3>1, <3>2 DEF DuplicatesAccounted
  <2> QED BY <2>1, <2>2
<1> QED BY <1>5, <1>6, <1>7, <1>8

\* Every step of any replica, or of a recording service, keeps the invariant.
LEMMA NextIndInv == IndInv /\ [Next]_vars => IndInv'
<1> SUFFICES ASSUME IndInv, [Next]_vars PROVE IndInv'
  OBVIOUS
<1>1. ASSUME NEW e \in Event, Record(e) PROVE IndInv'
  BY <1>1, RecordIndInv
<1>2. ASSUME NEW p \in Publisher, Poll(p) PROVE IndInv'
  BY <1>2, PollIndInv
<1>3. ASSUME NEW p \in Publisher, Attempt(p) PROVE IndInv'
  BY <1>3, AttemptIndInv DEF Attempt
<1>4. ASSUME NEW p \in Publisher, Commit(p) PROVE IndInv'
  BY <1>4, CommitIndInv
<1>5. ASSUME NEW p \in Publisher, CommitFails(p) \/ Abort(p) PROVE IndInv'
  BY <1>5, RollbackIndInv
<1>6. CASE UNCHANGED vars
  BY <1>6 DEF IndInv, vars, session, TypeOK, RowLocks, Locked, Tried,
              PublishedWasDelivered, DeadLetterLedger, DuplicatesAccounted
<1> QED BY <1>1, <1>2, <1>3, <1>4, <1>5, <1>6 DEF Next

----------------------------------------------------------------------------
\* The inductive invariant holds in every reachable state.
THEOREM Invariance == Spec => []IndInv
BY InitIndInv, NextIndInv, PTL DEF Spec

\* Type correctness of the service's state, for every instance.
THEOREM TypeCorrect == Spec => []TypeOK
BY Invariance, PTL DEF IndInv

\* No event is marked PUBLISHED that is not in its stream, whatever crashes
\* between XADD and commit (publish_batch).
THEOREM NoLoss == Spec => []PublishedWasDelivered
BY Invariance, PTL DEF IndInv

\* Copies of an event are bounded by the counted failures and the rolled back
\* attempts on it, for any number of replicas and both forms of the
\* dead-letter table (poll_pending_events).
THEOREM BoundedDuplicates == Spec => []DuplicatesAccounted
BY Invariance, PTL DEF IndInv

\* The dead-letter table and the status column agree (handle_publish_failure).
THEOREM DeadLettersAgree == Spec => []DeadLetterLedger
BY Invariance, PTL DEF IndInv

\* A replica never rewrites an event that has been settled, because what it
\* writes it holds locked and what is locked is PENDING.
THEOREM SettledStays == Spec => SettledIsFinal
<1> DEFINE Stays == \A e \in Event : status[e] \in Settled =>
                      status'[e] = status[e] /\ retry_count'[e] = retry_count[e]
<1>1. IndInv /\ [Next]_vars => [Stays]_vars
  <2> SUFFICES ASSUME IndInv, Next PROVE Stays
    OBVIOUS
  <2>1. ASSUME NEW e \in Event, Record(e) PROVE Stays
    BY <2>1 DEF Record, Settled, IndInv, TypeOK
  <2>2. ASSUME NEW p \in Publisher, Commit(p) PROVE Stays
    <3>1. \A e \in Tried(p) : status[e] = "PENDING"
      BY DEF IndInv, RowLocks, Locked
    <3> QED BY <2>2, <3>1 DEF Commit, Exhausted, Tried, Settled
  <2>3. ASSUME NEW p \in Publisher,
               Poll(p) \/ Attempt(p) \/ CommitFails(p) \/ Abort(p)
        PROVE Stays
    BY <2>3 DEF Poll, Attempt, Publish, FailPublish, CommitFails, Abort, Rollback
  <2> QED BY <2>1, <2>2, <2>3 DEF Next
<1>2. Spec => [][Stays]_vars
  BY Invariance, <1>1, PTL DEF Spec
<1> QED BY <1>2 DEF SettledIsFinal

----------------------------------------------------------------------------
\* The refinement mapping: an event is delivered when Redis has a copy.
LEMMA InitRefines == Init => Delivery!Init
BY DEF Init, Delivery!Init

\* Every step is a step of the outbox promise or a stutter.
LEMMA NextRefines ==
  ASSUME IndInv, [Next]_vars
  PROVE  [Delivery!Next]_(Delivery!vars)
<1> DEFINE delivered == {e \in Event : copies[e] > 0}
<1>1. ASSUME NEW e \in Event, Record(e) PROVE Delivery!Next
  <2>1. Delivery!Record(e)
    BY <1>1 DEF Record, Delivery!Record
  <2> QED BY <2>1 DEF Delivery!Next
<1>2. ASSUME NEW p \in Publisher, NEW e \in Event, Publish(p, e) \/ FailPublish(p, e)
      PROVE  Delivery!Next \/ UNCHANGED Delivery!vars
  <2>1. UNCHANGED status
    BY <1>2 DEF Publish, FailPublish
  <2>2. \/ delivered' = delivered
        \/ delivered' = delivered \cup {e}
    <3>1. \A f \in Event \ {e} : copies'[f] = copies[f]
      BY <1>2, AttemptLocks
    <3>2. copies[e] > 0 => copies'[e] > 0
      BY <1>2, AttemptLocks DEF IndInv, TypeOK
    <3>3. delivered' = {f \in Event : copies'[f] > 0}
      OBVIOUS
    <3>4. \A f \in Event : f # e => (f \in delivered' <=> f \in delivered)
      BY <3>1, <3>3
    <3>5. e \in delivered => e \in delivered'
      BY <3>2, <3>3
    <3>6. delivered \subseteq Event /\ delivered' \subseteq Event
      BY <3>3
    <3> HIDE DEF delivered
    <3>7. CASE e \in delivered'
      <4>1. delivered' = delivered \cup {e}
        BY <3>4, <3>6, <3>7
      <4> QED BY <4>1
    <3>8. CASE e \notin delivered'
      <4>1. \A f : f \in delivered' <=> f \in delivered
        BY <3>4, <3>5, <3>6, <3>8
      <4>2. delivered' = delivered
        BY <4>1
      <4> QED BY <4>2
    <3> QED BY <3>7, <3>8
  <2>3. status[e] = "PENDING"
    BY <1>2, AttemptLocks
  <2>4. CASE delivered' = delivered
    BY <2>1, <2>4 DEF Delivery!vars
  <2>5. CASE delivered' = delivered \cup {e}
    <3>1. Delivery!Deliver(e)
      BY <2>1, <2>3, <2>5 DEF Delivery!Deliver
    <3> QED BY <3>1 DEF Delivery!Next
  <2> QED BY <2>2, <2>4, <2>5
<1>3. ASSUME NEW p \in Publisher, Commit(p) PROVE Delivery!Next
  <2>1. UNCHANGED copies
    BY <1>3 DEF Commit
  <2>2. /\ sent[p] \subseteq delivered
        /\ sent[p] \cap Exhausted(p) = {}
        /\ \A e \in sent[p] \cup Exhausted(p) : status[e] = "PENDING"
    BY DEF IndInv, TypeOK, RowLocks, Locked, Tried, Exhausted
  <2>3. Delivery!Settle(sent[p], Exhausted(p))
    BY <1>3, <2>1, <2>2 DEF Commit, Delivery!Settle
  <2>4. sent[p] \in SUBSET Event /\ Exhausted(p) \in SUBSET Event
    BY DEF IndInv, TypeOK, Exhausted
  <2> QED BY <2>3, <2>4 DEF Delivery!Next
<1>4. ASSUME NEW p \in Publisher, Poll(p) \/ CommitFails(p) \/ Abort(p)
      PROVE  UNCHANGED Delivery!vars
  BY <1>4 DEF Poll, CommitFails, Abort, Rollback, Delivery!vars
<1>5. ASSUME UNCHANGED vars PROVE UNCHANGED Delivery!vars
  BY <1>5 DEF vars, Delivery!vars
<1> QED BY <1>1, <1>2, <1>3, <1>4, <1>5 DEF Next, Attempt

\* The replicas together implement the outbox promise: recorded, delivered
\* while PENDING, settled once.
THEOREM Refinement == Spec => ImplementsDelivery
BY InitRefines, NextRefines, Invariance, PTL
   DEF Spec, ImplementsDelivery, Delivery!Spec

============================================================================
