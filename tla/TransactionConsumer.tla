------------------------ MODULE TransactionConsumer ------------------------
(***************************************************************************)
(* The processor's consumption of stream:transactions: an inbox consumer   *)
(* whose business transaction is the detection pipeline with its one       *)
(* commit.  An event is a transaction.created (one transaction each).      *)
(***************************************************************************)
EXTENDS InboxConsumer

CONSTANTS
  User,
  UserOf,       \* [Event -> User]
  Alerting,     \* events whose detection decision is should_alert
  Poison        \* events on which the pipeline raises every time

ASSUME ConsumerAssumption ==
  /\ UserOf \in [Event -> User]
  /\ Alerting \subseteq Event /\ Poison \subseteq Event

VARIABLES
  processed_txn,\* events whose transaction row is PROCESSED
  alerts,       \* [Event -> Nat], rows of alerts for its transaction
  created,      \* [Event -> Nat], alert.created rows in outbox_events
  total_alerts, \* [User -> Nat or NoProfile], risk_profiles.total_alerts
  seen          \* [Worker -> total_alerts as its transaction read it]

store == <<processed_txn, alerts, created, total_alerts>>
vars == <<inboxVars, store, seen>>

NoProfile == -1
Tally == Nat \cup {NoProfile}

TypeOK ==
  /\ InboxTypeOK
  /\ processed_txn \subseteq Event
  /\ alerts \in [Event -> Nat]
  /\ created \in [Event -> Nat]
  /\ total_alerts \in [User -> Tally]
  /\ seen \in [Worker -> Tally]

Init ==
  /\ InboxInit
  /\ processed_txn = {}
  /\ alerts = [e \in Event |-> 0]
  /\ created = [e \in Event |-> 0]
  /\ total_alerts = [u \in User |-> NoProfile]
  /\ seen = [w \in Worker |-> 0]

----------------------------------------------------------------------------
(* The detection pipeline                                                  *)

\* Some transaction has updated this event's transaction row and is open.
RowLocked(e) ==
  \E v \in Worker, l \in Message :
     Current(v, l) /\ phase[v] = "write" /\ EventOf[l] = e

\* The pipeline up to its last read: the decision is made, the transaction
\* row is updated (and stays locked), the risk profile has been read.
RunPipeline(w, m) ==
  /\ Current(w, m) /\ phase[w] = "work"
  /\ EventOf[m] \notin Poison
  /\ ~RowLocked(EventOf[m])
  /\ seen' = [seen EXCEPT ![w] = total_alerts[UserOf[EventOf[m]]]]
  /\ GoTo(w, "write")
  /\ UNCHANGED <<group, entry, processed, store, dlq_rows, todo, faults>>

\* Mutant: neither processed_events nor alerts.transaction_id is unique.
ConflictProfileOnly(w, e) ==
  e \in Alerting /\ seen[w] = NoProfile /\ total_alerts[UserOf[e]] # NoProfile

\* What the unique keys refuse: a second inbox row or alert of the event, a
\* second profile of the user.
Conflict(w, e) ==
  \/ e \in processed
  \/ e \in Alerting /\ (alerts[e] > 0 \/ (seen[w] = NoProfile /\ total_alerts[UserOf[e]] # NoProfile))

\* total_alerts as the session writes it back.
NextTally(w) == IF seen[w] = NoProfile THEN 1 ELSE seen[w] + 1

\* session.commit() of the pipeline: transaction row, alert, alert.created,
\* risk profile and inbox row at once.
CommitPipeline(w, m) ==
  LET e == EventOf[m] IN
  /\ Current(w, m) /\ phase[w] = "write"
  /\ ~Conflict(w, e)
  /\ processed' = processed \cup {e}
  /\ processed_txn' = processed_txn \cup {e}
  /\ IF e \in Alerting
     THEN /\ alerts' = [alerts EXCEPT ![e] = @ + 1]
          /\ created' = [created EXCEPT ![e] = @ + 1]
          /\ total_alerts' = [total_alerts EXCEPT ![UserOf[e]] = NextTally(w)]
     ELSE UNCHANGED <<alerts, created, total_alerts>>
  /\ GoTo(w, "ack")
  /\ UNCHANGED <<group, entry, dlq_rows, todo, seen, faults>>

\* Mutant: the message is acknowledged although the pipeline failed.
FailPipelineAcked(w, m) ==
  /\ Current(w, m)
  /\ \/ phase[w] = "write" /\ Conflict(w, EventOf[m]) /\ UNCHANGED faults
     \/ phase[w] = "work" /\ EventOf[m] \in Poison /\ UNCHANGED faults
     \/ phase[w] \in {"work", "write"} /\ Fault
  /\ GoTo(w, "ack")
  /\ UNCHANGED <<group, entry, processed, store, dlq_rows, todo, seen>>

\* The transaction raises and rolls back: a key conflict, an event the
\* pipeline cannot digest, or a failing call.  The message stays pending.
FailPipeline(w, m) ==
  /\ Current(w, m)
  /\ \/ phase[w] = "write" /\ Conflict(w, EventOf[m]) /\ UNCHANGED faults
     \/ phase[w] = "work" /\ EventOf[m] \in Poison /\ UNCHANGED faults
     \/ phase[w] \in {"work", "write"} /\ Fault
  /\ Return(w, m)
  /\ UNCHANGED <<group, entry, processed, store, dlq_rows, seen>>

\* XACK raises inside process_single_message, which returns False.
FailAck(w, m) ==
  /\ Current(w, m) /\ phase[w] = "ack"
  /\ Fault
  /\ Return(w, m)
  /\ UNCHANGED <<group, entry, processed, store, dlq_rows, seen>>

Process(w) ==
  \E m \in Message :
    \/ ProcessAround(w, m) /\ UNCHANGED <<store, seen>>
    \/ RunPipeline(w, m) \/ CommitPipeline(w, m) \/ FailPipeline(w, m)
    \/ FailAck(w, m)

\* What the loops, the publisher and the supervisor do around it.
StreamStep(A) == A /\ UNCHANGED <<processed, dlq_rows, store, seen>>

Next ==
  \/ StreamStep(SetupGroup)
  \/ \E m \in Message : StreamStep(Add(m))
  \/ \E c \in Consumer :
       \/ StreamStep(Read(c))
       \/ \E B \in SUBSET Message : StreamStep(Reclaim(c, B))
       \/ StreamStep(Crash(c))
  \/ \E w \in Worker : Process(w)

Spec == Init /\ [][Next]_vars

\* A loop works off its batch and reads again; XAUTOCLAIM scans the whole
\* PEL, so every message that stays pending is in a claimed batch again and
\* again.  Nothing makes a message arrive or a replica fail.
Fairness ==
  /\ WF_vars(StreamStep(SetupGroup))
  /\ \A c \in Consumer : WF_vars(StreamStep(Read(c)))
  /\ \A w \in Worker : WF_vars(Process(w))
  /\ \A c \in Consumer, m \in Message :
       SF_vars(\E B \in SUBSET Message : m \in B /\ StreamStep(Reclaim(c, B)))

FairSpec == Spec /\ Fairness

----------------------------------------------------------------------------
\* The effects of an event happen together and once, however often its
\* message is delivered, reclaimed or processed by two loops at a time: inbox
\* row, PROCESSED, one alert and one alert.created for an alerting event.
ExactlyOnceEffects ==
  /\ processed_txn = processed
  /\ \A e \in Event :
       /\ alerts[e] = IF e \in processed \cap Alerting THEN 1 ELSE 0
       /\ created[e] = alerts[e]

\* The events of the messages the group has been given.
Given == {m \in Message : entry[m] \in {"new", "pending", "acked"}}
Offered == {EventOf[m] : m \in Given}

\* The processor as the rest of the system sees it: deliveries, replicas and
\* retries behind it, an event takes effect in one step, once, and after it
\* has come.
Promise == INSTANCE EventProcessing WITH
  listening <- group,
  offered <- Offered,
  processed <- processed_txn
KeepsPromise == Promise!Spec

\* The alerts of a user.
AlertsOf(u) == {e \in Event : UserOf[e] = u /\ alerts[e] > 0}

\* The risk profile never counts an alert that does not exist, and a user
\* with an alert has a profile.
TallyNotInflated ==
  \A u \in User :
    /\ total_alerts[u] <= Cardinality(AlertsOf(u))
    /\ AlertsOf(u) # {} => total_alerts[u] > 0

\* Every message the group has been given, other than of a poison event or
\* held up by a dead letter that the table refuses, is eventually
\* acknowledged: crashes, lost acks, conflicts and batches dropped behind a
\* failing dead letter are all recovered by XAUTOCLAIM.
EventuallyAcked ==
  \A m \in Message :
    entry[m] = "new" /\ EventOf[m] \notin Poison /\ ~HeldUp(m) ~> entry[m] = "acked"

\* When all messages have stalled in the PEL, whether good, corrupt or poison,
\* the loops recover some of them: they process or dead-letter it ("XAUTOCLAIM
\* to recover stalled pending messages", "poison pill prevention").
StalledRecovered ==
  (\A m \in Message : entry[m] = "pending") ~> (\E m \in Message : entry[m] = "acked")

\* The profile counts every alert of the user ("alert tallies").
TallyExact ==
  \A u \in User :
    total_alerts[u] = IF AlertsOf(u) = {} THEN NoProfile ELSE Cardinality(AlertsOf(u))

============================================================================
