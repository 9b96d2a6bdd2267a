---------------------------- MODULE Compensation ----------------------------
(***************************************************************************)
(* Compensation of false positives: the second inbox consumer of the       *)
(* processor, on stream:compensation, and the risk profile it shares with  *)
(* the detection pipeline.  An event is the risk_profile.recalculate that  *)
(* resolving an alert as FALSE_POSITIVE records, one per alert.            *)
(*                                                                         *)
(* Both sides read the row of risk_profiles without locking it, compute in *)
(* Python, and write back only the columns they have changed.  Only this   *)
(* side writes risk_score and false_positive_count, only the pipeline      *)
(* writes total_alerts.                                                    *)
(***************************************************************************)
EXTENDS InboxConsumer

CONSTANTS
  User,
  UserOf        \* [Event -> User], Event being the alerts

ASSUME CompensationAssumption == UserOf \in [Event -> User]

VARIABLES
  raised,       \* alerts in the table
  raising,      \* the pipeline's open transactions, with the profile they read
  cleared,      \* alerts resolved as FALSE_POSITIVE
  profile,      \* [User -> Profile], risk_profiles
  seen          \* [Worker -> Profile] as the session of the loop read it

pipeline == <<raised, raising, cleared>>
vars == <<inboxVars, pipeline, profile, seen>>

MaxScore == 4   \* risk_score in steps of 0.25: 4 is 1.0000

Profile == [total : Nat \cup {-1}, fp : Nat, score : 0..MaxScore]
NoProfile == [total |-> -1, fp |-> 0, score |-> 0]

TypeOK ==
  /\ InboxTypeOK
  /\ raised \subseteq Event
  /\ raising \subseteq [alert : Event, seen : Profile]
  /\ cleared \subseteq raised
  /\ profile \in [User -> Profile]
  /\ seen \in [Worker -> Profile]

Init ==
  /\ InboxInit
  /\ raised = {} /\ raising = {} /\ cleared = {}
  /\ profile = [u \in User |-> NoProfile]
  /\ seen = [w \in Worker |-> NoProfile]

----------------------------------------------------------------------------
(* The pipeline and the analysts                                           *)

\* process_transaction_event reads the profile of an alerting transaction.
ReadProfile(a) ==
  /\ a \notin raised
  /\ \A r \in raising : r.alert # a
  /\ raising' = raising \cup {[alert |-> a, seen |-> profile[UserOf[a]]]}
  /\ UNCHANGED <<inboxVars, raised, cleared, profile, seen>>

\* Mutant: the whole row is written back as it was read.
CountedRow(p, read) ==
  IF read = NoProfile THEN [total |-> 1, fp |-> 0, score |-> 0]
  ELSE [read EXCEPT !.total = @ + 1]

\* The profile after the pipeline has counted an alert.
Counted(p, read) ==
  IF read = NoProfile THEN [total |-> 1, fp |-> 0, score |-> 0]
  ELSE [p EXCEPT !.total = read.total + 1]

\* Its commit inserts the alert and writes total_alerts; the INSERT of a
\* second profile of the user fails and rolls everything back.
RaiseAlert(r) ==
  LET u == UserOf[r.alert] IN
  /\ raising' = raising \ {r}
  /\ IF r.seen = NoProfile /\ profile[u] # NoProfile
     THEN UNCHANGED <<raised, profile>>
     ELSE /\ raised' = raised \cup {r.alert}
          /\ profile' = [profile EXCEPT ![u] = Counted(@, r.seen)]
  /\ UNCHANGED <<inboxVars, cleared, seen>>

\* resolve_alert with FALSE_POSITIVE; AlertLifecycle has the details.
MarkFalsePositive(a) ==
  /\ a \in raised \ cleared
  /\ cleared' = cleared \cup {a}
  /\ UNCHANGED <<inboxVars, raised, raising, profile, seen>>

----------------------------------------------------------------------------
(* The business transaction                                                *)

\* recalculate_user_risk_profile reads the row.
ReadForRecalculation(w, m) ==
  /\ Current(w, m) /\ phase[w] = "work"
  /\ seen' = [seen EXCEPT ![w] = profile[UserOf[EventOf[m]]]]
  /\ GoTo(w, "write")
  /\ UNCHANGED <<group, entry, todo, faults, processed, dlq_rows, pipeline, profile>>

\* Mutant: the false positives are not deducted.
ScoreGross(total, fp) == IF total > MaxScore THEN MaxScore ELSE total

\* The score for so many alerts and false positives: a quarter for each
\* alert that stands, at most 1.0000.
Score(total, fp) ==
  IF total <= fp THEN 0 ELSE IF total - fp > MaxScore THEN MaxScore ELSE total - fp

\* Mutant: the whole row is written back as it was read.
RecalculatedRow(p, read) ==
  IF read = NoProfile THEN [total |-> 0, fp |-> 1, score |-> 0]
  ELSE [total |-> read.total, fp |-> read.fp + 1, score |-> Score(read.total, read.fp + 1)]

\* The row p after a session that read `read' is flushed: the counter is
\* always written, the score only if the session has changed it.
Recalculated(p, read) ==
  LET fp == read.fp + 1  score == Score(read.total, fp) IN
  IF read = NoProfile THEN [total |-> 0, fp |-> 1, score |-> 0]
  ELSE [p EXCEPT !.fp = fp, !.score = IF score = read.score THEN @ ELSE score]

\* Mutant: the inbox has no unique key.
ConflictProfileOnly(w, a) == seen[w] = NoProfile /\ profile[UserOf[a]] # NoProfile

\* What the keys of processed_events and risk_profiles refuse.
Conflict(w, a) ==
  \/ a \in processed
  \/ seen[w] = NoProfile /\ profile[UserOf[a]] # NoProfile

\* session.commit(): profile and inbox row at once.
CommitRecalculation(w, m) ==
  LET a == EventOf[m] IN
  /\ Current(w, m) /\ phase[w] = "write"
  /\ ~Conflict(w, a)
  /\ profile' = [profile EXCEPT ![UserOf[a]] = Recalculated(@, seen[w])]
  /\ processed' = processed \cup {a}
  /\ GoTo(w, "ack")
  /\ UNCHANGED <<group, entry, todo, faults, dlq_rows, pipeline, seen>>

\* Mutant: the message is acknowledged although the transaction failed.
FailRecalculationAcked(w, m) ==
  /\ Current(w, m)
  /\ \/ phase[w] = "write" /\ Conflict(w, EventOf[m]) /\ UNCHANGED faults
     \/ phase[w] \in {"work", "write"} /\ Fault
  /\ GoTo(w, "ack")
  /\ UNCHANGED <<group, entry, todo, processed, dlq_rows, pipeline, profile, seen>>

\* A conflict or a failing call: rolled back, the message stays pending.
FailRecalculation(w, m) ==
  /\ Current(w, m)
  /\ \/ phase[w] = "write" /\ Conflict(w, EventOf[m]) /\ UNCHANGED faults
     \/ phase[w] \in {"work", "write"} /\ Fault
  /\ Return(w, m)
  /\ UNCHANGED <<group, entry, processed, dlq_rows, pipeline, profile, seen>>

\* The inbox query and XACK are outside the try block here: when they raise,
\* the loop loses the rest of its batch.
FailAround(w, m) ==
  /\ Current(w, m) /\ phase[w] \in {"check", "ack"}
  /\ Fault
  /\ Raise(w)
  /\ UNCHANGED <<group, entry, processed, dlq_rows, pipeline, profile, seen>>

Process(w) ==
  \E m \in Message :
    \/ ProcessAround(w, m) /\ UNCHANGED <<pipeline, profile, seen>>
    \/ ReadForRecalculation(w, m) \/ CommitRecalculation(w, m)
    \/ FailRecalculation(w, m) \/ FailAround(w, m)

StreamStep(A) == A /\ UNCHANGED <<processed, dlq_rows, pipeline, profile, seen>>

\* The outbox sends the event of an alert once it has been cleared.
AddCleared(m) ==
  /\ m \in Corrupt \/ EventOf[m] \in cleared
  /\ StreamStep(Add(m))

Next ==
  \/ \E a \in Event : ReadProfile(a) \/ MarkFalsePositive(a)
  \/ \E r \in raising : RaiseAlert(r)
  \/ StreamStep(SetupGroup)
  \/ \E m \in Message : AddCleared(m)
  \/ \E c \in Consumer :
       \/ StreamStep(Read(c))
       \/ \E B \in SUBSET Message : StreamStep(Reclaim(c, B))
       \/ StreamStep(Crash(c))
  \/ \E w \in Worker : Process(w)

Spec == Init /\ [][Next]_vars

\* As in TransactionConsumer; none of the pipeline, the analysts or the outbox.
Fairness ==
  /\ WF_vars(StreamStep(SetupGroup))
  /\ \A c \in Consumer : WF_vars(StreamStep(Read(c)))
  /\ \A w \in Worker : WF_vars(Process(w))
  /\ \A c \in Consumer, m \in Message :
       SF_vars(\E B \in SUBSET Message : m \in B /\ StreamStep(Reclaim(c, B)))

FairSpec == Spec /\ Fairness

----------------------------------------------------------------------------
OfUser(S, u) == {a \in S : UserOf[a] = u}

\* However often its message is delivered, and whatever the pipeline writes
\* at the same time, a false positive is counted at most once, only after the
\* analyst has said so, and the count does not go back to zero.
CompensatedOnce ==
  /\ processed \subseteq cleared
  /\ \A u \in User :
       /\ profile[u].fp <= Cardinality(OfUser(processed, u))
       /\ OfUser(processed, u) # {} => profile[u].fp > 0

\* The risk score of a user is never more than the alerts beyond the first
\* false positive justify, although it is computed from a row that may be out
\* of date, and stays 0 until there is a false positive.
ScoreJustified ==
  \A u \in User :
    profile[u].score > 0 =>
      /\ OfUser(processed, u) # {}
      /\ profile[u].score < Cardinality(OfUser(raised, u))

\* The two writers of a row do not overwrite each other's columns, however
\* old the row is that they have read: a compensation leaves the count of
\* alerts alone, the pipeline leaves the false positives and the score.
ColumnsKept ==
  [][\A u \in User : profile[u] # NoProfile =>
       /\ processed' # processed => profile'[u].total = profile[u].total
       /\ raised' # raised => /\ profile'[u].fp = profile[u].fp
                              /\ profile'[u].score = profile[u].score]_vars

\* Every recalculation the group has been given, but for those a refused dead
\* letter holds up, is carried out: through crashes, conflicts with the other
\* loop and batches that a corrupt message or a failing call cuts short.
EventuallyCompensated ==
  \A m \in Message \ Corrupt :
    entry[m] = "new" /\ ~HeldUp(m) ~> EventOf[m] \in processed

============================================================================
