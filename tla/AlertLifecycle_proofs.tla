----------------------- MODULE AlertLifecycle_proofs -----------------------
(***************************************************************************)
(* Proofs about AlertLifecycle for any alerts, scheduler replicas and      *)
(* analysts, any timers and batch size, and any bound on the clock and on  *)
(* the transactions that are lost.                                         *)
(***************************************************************************)
EXTENDS AlertLifecycle, TLAPS

USE LifecycleAssumption
USE DEF Terminal, Unresolved, AlertStatus, Machine!Terminal, Machine!Unresolved,
        Machine!AlertStatus

\* A tick holds rows that were due, and are as it found them.
TickHolds(s) ==
  /\ tick[s] = "idle" => email[s] = {}
  /\ tick[s] # "slack" => slack[s] = {}
  /\ \A a \in email[s] :
       /\ status[a] = "PENDING"
       /\ created_at[a] <= tick_now[s] - ESCALATION_EMAIL_MINUTES
  /\ \A a \in slack[s] :
       /\ status[a] = "ESCALATED_EMAIL" \/ a \in email[s]
       /\ EmailedAt(s)[a] <= tick_now[s] - ESCALATION_SLACK_MINUTES

\* A request holds a row on which nobody has decided.
RequestHolds(r) == \A a \in LockedByRequest(r) : status[a] \in Unresolved

\* A row is held by one transaction.
Exclusive ==
  /\ \A s, u \in Scheduler : s # u => LockedByTick(s) \cap LockedByTick(u) = {}
  /\ \A s \in Scheduler, r \in Analyst : LockedByTick(s) \cap LockedByRequest(r) = {}
  /\ \A r, q \in Analyst : r # q => LockedByRequest(r) \cap LockedByRequest(q) = {}

RowLocks ==
  /\ \A s \in Scheduler : TickHolds(s)
  /\ \A r \in Analyst : RequestHolds(r)
  /\ Exclusive

\* The escalation times of a row say how far it has come.
TimesFit ==
  \A a \in Alert :
    /\ status[a] \in {"ABSENT", "PENDING"} => escalated_email_at[a] = Never
    /\ status[a] \in {"ABSENT", "PENDING", "ESCALATED_EMAIL"} => escalated_slack_at[a] = Never
    /\ status[a] = "ESCALATED_EMAIL" => escalated_email_at[a] # Never

RowsFit ==
  /\ TimesFit
  /\ AuditReplaysHistory
  /\ OutboxMatchesHistory
  /\ EscalationTimers

IndInv == TypeOK /\ RowLocks /\ RowsFit

\* What a transaction has locked are rows of the table.
LEMMA LocksAreRows ==
  ASSUME TypeOK
  PROVE  /\ \A s \in Scheduler : LockedByTick(s) \subseteq Alert
         /\ \A r \in Analyst : LockedByRequest(r) \subseteq Alert
<1>1. ASSUME NEW r \in Analyst PROVE LockedByRequest(r) \subseteq Alert
  BY DEF TypeOK, LockedByRequest, Request, Idle
<1> QED BY <1>1 DEF TypeOK, LockedByTick

----------------------------------------------------------------------------
(* The steps that write no row                                             *)

\* Without a write the rows fit together as before.
LEMMA RowsKept ==
  ASSUME RowsFit, UNCHANGED rows
  PROVE  RowsFit'
BY DEF rows, RowsFit, TimesFit, AuditReplaysHistory, OutboxMatchesHistory, EscalationTimers, Warranted

\* The inductive invariant holds before the first alert.
LEMMA InitIndInv == Init => IndInv
<1> SUFFICES ASSUME Init PROVE IndInv
  OBVIOUS
<1> USE DEF Init
<1>1. TypeOK
  <2>1. outbox \in [Alert -> [EventType -> Nat]]
    OBVIOUS
  <2>2. request \in [Analyst -> Request]
    BY DEF Request
  <2>3. created_at \in [Alert -> Time] /\ escalated_email_at \in [Alert -> Time]
        /\ escalated_slack_at \in [Alert -> Time]
    BY DEF Time
  <2>4. now \in 0..MaxTime /\ tick_now \in [Scheduler -> 0..MaxTime] /\ aborts \in 0..MaxAborts
    OBVIOUS
  <2> QED BY <2>1, <2>2, <2>3, <2>4 DEF TypeOK, Nobody
<1>2. RowLocks
  BY DEF RowLocks, TickHolds, RequestHolds, Exclusive, LockedByTick, LockedByRequest, Idle
<1>3. RowsFit
  BY DEF RowsFit, TimesFit, AuditReplaysHistory, OutboxMatchesHistory, EscalationTimers, Warranted
<1> QED BY <1>1, <1>2, <1>3 DEF IndInv

\* The clock goes on.
LEMMA PassTimeIndInv ==
  ASSUME IndInv, PassTime
  PROVE  IndInv'
<1> USE DEF IndInv
<1>1. TypeOK'
  BY DEF PassTime, TypeOK, rows, ticks
<1>2. RowLocks'
  BY DEF PassTime, RowLocks, TickHolds, RequestHolds, Exclusive, LockedByTick, LockedByRequest,
         EmailedAt, rows, ticks
<1> QED BY <1>1, <1>2, RowsKept DEF PassTime

\* Tier 1 takes PENDING rows that are due and free.
LEMMA EscalateEmailIndInv ==
  ASSUME IndInv, NEW s \in Scheduler, EscalateEmail(s)
  PROVE  IndInv'
<1> USE DEF IndInv
<1>1. PICK B \in SUBSET EmailDue(s) : email' = [email EXCEPT ![s] = B]
  BY DEF EscalateEmail
<1>2. /\ B \subseteq Alert
      /\ \A a \in B : /\ status[a] = "PENDING"
                      /\ created_at[a] <= now - ESCALATION_EMAIL_MINUTES
                      /\ \A u \in Scheduler \ {s} : a \notin LockedByTick(u)
                      /\ \A r \in Analyst : a \notin LockedByRequest(r)
  BY DEF EmailDue, UnlockedBy
<1>3. /\ tick[s] = "idle" /\ email[s] = {} /\ slack[s] = {}
      /\ tick' = [tick EXCEPT ![s] = "email"]
      /\ tick_now' = [tick_now EXCEPT ![s] = now]
      /\ UNCHANGED <<now, rows, slack, request, aborts>>
  BY DEF EscalateEmail, RowLocks, TickHolds
<1>4. TypeOK'
  BY <1>1, <1>2, <1>3 DEF TypeOK, rows
<1>5. \A u \in Scheduler : LockedByTick(u)' = IF u = s THEN B ELSE LockedByTick(u)
  BY <1>1, <1>3 DEF TypeOK, LockedByTick
<1>6. \A r \in Analyst : LockedByRequest(r)' = LockedByRequest(r)
  BY <1>3 DEF LockedByRequest
<1>7. \A u \in Scheduler : TickHolds(u)'
  <2>1. TickHolds(s)'
    BY <1>1, <1>2, <1>3 DEF TypeOK, TickHolds, rows
  <2>2. ASSUME NEW u \in Scheduler, u # s PROVE TickHolds(u)'
    <3>1. EmailedAt(u)' = EmailedAt(u)
      BY <1>1, <1>3, <2>2 DEF TypeOK, EmailedAt, rows
    <3> QED BY <1>1, <1>3, <2>2, <3>1 DEF TypeOK, RowLocks, TickHolds, rows
  <2> QED BY <2>1, <2>2
<1>8. RowLocks'
  BY <1>2, <1>3, <1>5, <1>6, <1>7 DEF RowLocks, RequestHolds, Exclusive, rows
<1> QED BY <1>3, <1>4, <1>8, RowsKept

\* Tier 2 takes ESCALATED_EMAIL rows that are due and free, or its own.
LEMMA EscalateSlackIndInv ==
  ASSUME IndInv, NEW s \in Scheduler, EscalateSlack(s)
  PROVE  IndInv'
<1> USE DEF IndInv
<1>1. PICK B \in SUBSET SlackDue(s) : slack' = [slack EXCEPT ![s] = B]
  BY DEF EscalateSlack
<1>2. /\ B \subseteq Alert
      /\ \A a \in B : /\ status[a] = "ESCALATED_EMAIL" \/ a \in email[s]
                      /\ EmailedAt(s)[a] <= tick_now[s] - ESCALATION_SLACK_MINUTES
                      /\ \A u \in Scheduler \ {s} : a \notin LockedByTick(u)
                      /\ \A r \in Analyst : a \notin LockedByRequest(r)
  BY DEF SlackDue, UnlockedBy
<1>3. /\ tick[s] = "email" /\ slack[s] = {}
      /\ tick' = [tick EXCEPT ![s] = "slack"]
      /\ UNCHANGED <<now, rows, tick_now, email, request, aborts>>
  BY DEF EscalateSlack, RowLocks, TickHolds
<1>4. TypeOK'
  BY <1>1, <1>2, <1>3 DEF TypeOK, rows
<1>5. \A u \in Scheduler : LockedByTick(u)' = IF u = s THEN email[s] \cup B ELSE LockedByTick(u)
  BY <1>1, <1>3 DEF TypeOK, LockedByTick
<1>6. \A r \in Analyst : LockedByRequest(r)' = LockedByRequest(r)
  BY <1>3 DEF LockedByRequest
<1>7. \A u \in Scheduler : EmailedAt(u)' = EmailedAt(u)
  BY <1>3 DEF EmailedAt, rows
<1>8. \A u \in Scheduler : TickHolds(u)'
  BY <1>1, <1>2, <1>3, <1>7 DEF TypeOK, RowLocks, TickHolds, rows
<1>9. \A u \in Scheduler : email[s] \cap LockedByTick(u) # {} => u = s
  BY DEF RowLocks, Exclusive, LockedByTick
<1>10. \A r \in Analyst : email[s] \cap LockedByRequest(r) = {}
  BY DEF RowLocks, Exclusive, LockedByTick
<1>11. RowLocks'
  BY <1>2, <1>3, <1>5, <1>6, <1>8, <1>9, <1>10 DEF RowLocks, RequestHolds, Exclusive, rows
<1> QED BY <1>3, <1>4, <1>11, RowsKept

\* A tick that is lost gives its rows back as they were.
LEMMA AbortTickIndInv ==
  ASSUME IndInv, NEW s \in Scheduler, AbortTick(s)
  PROVE  IndInv'
<1> USE DEF IndInv
<1>1. /\ tick' = [tick EXCEPT ![s] = "idle"]
      /\ email' = [email EXCEPT ![s] = {}]
      /\ slack' = [slack EXCEPT ![s] = {}]
      /\ UNCHANGED <<now, rows, request, tick_now>>
  BY DEF AbortTick, EndTick
<1>2. TypeOK'
  BY <1>1 DEF TypeOK, AbortTick, rows
<1>3. \A u \in Scheduler : LockedByTick(u)' = IF u = s THEN {} ELSE LockedByTick(u)
  BY <1>1 DEF TypeOK, LockedByTick
<1>4. \A r \in Analyst : LockedByRequest(r)' = LockedByRequest(r)
  BY <1>1 DEF LockedByRequest
<1>5. \A u \in Scheduler : TickHolds(u)'
  <2>1. TickHolds(s)'
    BY <1>1 DEF TypeOK, TickHolds
  <2>2. ASSUME NEW u \in Scheduler, u # s PROVE TickHolds(u)'
    <3>1. EmailedAt(u)' = EmailedAt(u)
      BY <1>1, <2>2 DEF TypeOK, EmailedAt, rows
    <3> QED BY <1>1, <2>2, <3>1 DEF TypeOK, RowLocks, TickHolds, rows
  <2> QED BY <2>1, <2>2
<1>6. RowLocks'
  BY <1>1, <1>3, <1>4, <1>5 DEF RowLocks, RequestHolds, Exclusive, rows
<1> QED BY <1>1, <1>2, <1>6, RowsKept

\* A request takes a row that is free and undecided, or lets go of its row.
LEMMA RequestIndInv ==
  ASSUME IndInv, NEW r \in Analyst,
         Submit(r) \/ UpdateAlert(r) \/ RejectRequest(r) \/ AbortRequest(r)
  PROVE  IndInv'
<1> USE DEF IndInv
<1>1. /\ UNCHANGED <<now, rows, ticks>>
      /\ aborts' \in 0..MaxAborts
  BY DEF Submit, UpdateAlert, RejectRequest, AbortRequest, TypeOK
<1>2. request' \in [Analyst -> Request]
  <2>1. CASE Submit(r)
    BY <2>1 DEF Submit, TypeOK, Request
  <2>2. CASE UpdateAlert(r)
    <3>1. /\ request[r] \in [phase: {"waiting", "updated"}, alert: Alert, target: Terminal]
          /\ request' = [request EXCEPT ![r] = [request[r] EXCEPT !.phase = "updated"]]
      BY <2>2 DEF UpdateAlert, TypeOK, Request, Idle
    <3>2. [request[r] EXCEPT !.phase = "updated"] \in Request
      BY <3>1 DEF Request
    <3> QED BY <3>1, <3>2 DEF TypeOK
  <2>3. CASE RejectRequest(r) \/ AbortRequest(r)
    BY <2>3 DEF RejectRequest, AbortRequest, TypeOK, Request
  <2> QED BY <2>1, <2>2, <2>3
<1>3. TypeOK'
  BY <1>1, <1>2 DEF TypeOK, rows, ticks
<1>4. \A s \in Scheduler : LockedByTick(s)' = LockedByTick(s) /\ TickHolds(s)'
  BY <1>1 DEF LockedByTick, TickHolds, EmailedAt, RowLocks, rows, ticks
<1>5. \A q \in Analyst : q # r => LockedByRequest(q)' = LockedByRequest(q)
  BY DEF Submit, UpdateAlert, RejectRequest, AbortRequest, TypeOK, LockedByRequest
<1>6. \A a \in LockedByRequest(r)' : RowFree(a) /\ status[a] \in Unresolved
  <2>1. CASE UpdateAlert(r)
    BY <2>1 DEF UpdateAlert, Resolvable, LockedByRequest, TypeOK, Request, Idle
  <2>2. CASE Submit(r) \/ RejectRequest(r) \/ AbortRequest(r)
    BY <2>2 DEF Submit, RejectRequest, AbortRequest, LockedByRequest, TypeOK, Idle
  <2> QED BY <2>1, <2>2
<1>7. RowLocks'
  BY <1>1, <1>4, <1>5, <1>6 DEF RowLocks, RequestHolds, Exclusive, RowFree, rows
<1> QED BY <1>1, <1>3, <1>7, RowsKept

----------------------------------------------------------------------------
(* The commits                                                             *)

\* The part of AuditReplaysHistory about one audit log.
Replays(h) ==
  \A i \in 1..Len(h) : Machine!Arrow(IF i = 1 THEN "PENDING" ELSE h[i - 1], h[i])

\* The status the audit log h of a raised alert ends in.
Latest(h) == IF Len(h) > 0 THEN h[Len(h)] ELSE "PENDING"

\* An audit row that follows an arrow from the latest status continues the log.
LEMMA AppendReplays ==
  ASSUME NEW h \in Seq(AlertStatus), Replays(h), NEW to \in AlertStatus,
         Machine!Arrow(Latest(h), to)
  PROVE  /\ Append(h, to) \in Seq(AlertStatus)
         /\ Replays(Append(h, to))
         /\ Len(Append(h, to)) > 0
         /\ Latest(Append(h, to)) = to
<1> DEFINE g == Append(h, to)
<1>1. /\ g \in Seq(AlertStatus) /\ Len(g) = Len(h) + 1 /\ Len(h) \in Nat
      /\ g[Len(h) + 1] = to
      /\ \A i \in 1..Len(h) : g[i] = h[i]
  OBVIOUS
<1>2. ASSUME NEW i \in 1..Len(g)
      PROVE  Machine!Arrow(IF i = 1 THEN "PENDING" ELSE g[i - 1], g[i])
  <2>1. CASE i = Len(h) + 1
    BY <2>1, <1>1 DEF Latest
  <2>2. CASE i # Len(h) + 1
    BY <2>2, <1>1, i - 1 \in 1..Len(h) \/ i = 1 DEF Replays
  <2> QED BY <2>1, <2>2
<1> QED BY <1>1, <1>2 DEF Replays, Latest

\* A row's log ends in its status; only a row that was never raised is ABSENT.
LEMMA LogEndsInStatus ==
  ASSUME TypeOK, AuditReplaysHistory, NEW a \in Alert
  PROVE  /\ Replays(audit[a])
         /\ status[a] # "ABSENT" => status[a] = Latest(audit[a])
         /\ status[a] = "ABSENT" => Len(audit[a]) = 0 /\ created_at[a] = Never
<1> DEFINE h == audit[a]
<1>1. h \in Seq(AlertStatus) /\ Len(h) \in Nat
  BY DEF TypeOK
<1>2. Replays(h)
  BY DEF AuditReplaysHistory, Replays
<1>3. Len(h) > 0 => h[Len(h)] # "ABSENT"
  BY <1>1, <1>2 DEF Replays, Machine!Arrow
<1> QED BY <1>1, <1>2, <1>3 DEF AuditReplaysHistory, Latest

\* A log that ends in the status of a raised row is what the property asks for.
LEMMA LogFits ==
  ASSUME NEW h \in Seq(AlertStatus), Replays(h), NEW to, NEW at,
         \/ to = Latest(h) /\ (Len(h) > 0 \/ at # Never)
         \/ to = "ABSENT" /\ Len(h) = 0 /\ at = Never
  PROVE  /\ \A i \in 1..Len(h) :
              Machine!Arrow(IF i = 1 THEN "PENDING" ELSE h[i - 1], h[i])
         /\ to = IF Len(h) > 0 THEN h[Len(h)]
                 ELSE IF at = Never THEN "ABSENT" ELSE "PENDING"
BY Len(h) \in Nat DEF Replays, Latest

\* The pipeline raises an alert on a row nobody can hold.
LEMMA RaiseIndInv ==
  ASSUME IndInv, NEW a \in Alert, Raise(a)
  PROVE  IndInv'
<1> USE DEF IndInv, RowsFit
<1>1. PICK t \in 0..now : created_at' = [created_at EXCEPT ![a] = t]
  BY DEF Raise
<1>2. /\ status[a] = "ABSENT"
      /\ status' = [status EXCEPT ![a] = "PENDING"]
      /\ outbox' = [outbox EXCEPT ![a] = [outbox[a] EXCEPT !["alert.created"] = @ + 1]]
      /\ UNCHANGED <<now, escalated_email_at, escalated_slack_at, resolved_by,
                     audit, ticks, request, aborts>>
  BY DEF Raise, TypeOK
<1>3. t \in Time /\ t # Never
  BY DEF TypeOK, Time, Never
<1>4. TypeOK'
  <2>1. [outbox[a] EXCEPT !["alert.created"] = @ + 1] \in [EventType -> Nat]
    BY DEF TypeOK, EventType
  <2> QED BY <1>1, <1>2, <1>3, <2>1 DEF TypeOK, ticks
<1>5. RowLocks'
  <2>1. /\ \A s \in Scheduler : a \notin LockedByTick(s)
        /\ \A r \in Analyst : a \notin LockedByRequest(r)
    BY <1>2 DEF RowLocks, TickHolds, RequestHolds, LockedByTick
  <2>2. \A s \in Scheduler : LockedByTick(s)' = LockedByTick(s) /\ EmailedAt(s)' = EmailedAt(s)
    BY <1>2 DEF LockedByTick, EmailedAt, ticks
  <2>3. \A r \in Analyst : LockedByRequest(r)' = LockedByRequest(r)
    BY <1>2 DEF LockedByRequest
  <2>4. \A s \in Scheduler : TickHolds(s)'
    BY <1>1, <1>2, <2>1, <2>2 DEF TypeOK, RowLocks, TickHolds, LockedByTick, ticks
  <2>5. \A r \in Analyst : RequestHolds(r)'
    BY <1>2, <2>1, <2>3, LocksAreRows DEF TypeOK, RowLocks, RequestHolds
  <2> QED BY <2>2, <2>3, <2>4, <2>5 DEF RowLocks, Exclusive
<1>6. TimesFit' /\ EscalationTimers'
  <2>1. escalated_email_at[a] = Never /\ escalated_slack_at[a] = Never
    BY <1>2 DEF TimesFit
  <2> QED BY <1>1, <1>2, <2>1 DEF TypeOK, TimesFit, EscalationTimers
<1>7. AuditReplaysHistory'
  <2> SUFFICES ASSUME NEW b \in Alert
               PROVE  /\ \A i \in 1..Len(audit[b]) :
                           Machine!Arrow(IF i = 1 THEN "PENDING" ELSE audit[b][i - 1], audit[b][i])
                      /\ status'[b] = IF Len(audit[b]) > 0 THEN audit[b][Len(audit[b])]
                                      ELSE IF created_at'[b] = Never THEN "ABSENT" ELSE "PENDING"
    BY <1>2 DEF AuditReplaysHistory
  <2>1. CASE b = a
    BY <1>1, <1>2, <1>3, <2>1, LogEndsInStatus, Len(audit[a]) = 0 DEF TypeOK
  <2>2. CASE b # a
    BY <1>1, <1>2, <2>2 DEF TypeOK, AuditReplaysHistory
  <2> QED BY <2>1, <2>2
<1>8. OutboxMatchesHistory'
  <2> SUFFICES ASSUME NEW b \in Alert, NEW e \in EventType
               PROVE  outbox'[b][e] = IF e \in Warranted(b)' THEN 1 ELSE 0
    BY DEF OutboxMatchesHistory
  <2>1. CASE b = a
    <3>1. Warranted(a) = {} /\ Warranted(a)' = {"alert.created"}
      BY <1>2 DEF TypeOK, TimesFit, Warranted
    <3> QED BY <1>2, <2>1, <3>1 DEF TypeOK, OutboxMatchesHistory
  <2>2. CASE b # a
    <3>1. Warranted(b)' = Warranted(b)
      BY <1>2, <2>2 DEF TypeOK, Warranted
    <3> QED BY <1>2, <2>2, <3>1 DEF TypeOK, OutboxMatchesHistory
  <2> QED BY <2>1, <2>2
<1> QED BY <1>4, <1>5, <1>6, <1>7, <1>8

\* The commit of a decision rewrites the one row it has locked.
LEMMA CommitRequestIndInv ==
  ASSUME IndInv, NEW r \in Analyst, CommitRequest(r)
  PROVE  IndInv'
<1> USE DEF IndInv, RowsFit
<1>1. PICK a \in Alert, to \in Terminal :
        /\ request[r].alert = a /\ request[r].target = to
        /\ a \in LockedByRequest(r) /\ status[a] \in Unresolved
  BY DEF CommitRequest, TypeOK, Request, Idle, LockedByRequest, RowLocks, RequestHolds
<1>2. /\ status' = [status EXCEPT ![a] = to]
      /\ resolved_by' = [resolved_by EXCEPT ![a] = r]
      /\ audit' = [audit EXCEPT ![a] = Append(audit[a], to)]
      /\ outbox' = [outbox EXCEPT ![a] = AddEvents(outbox[a], RequestEvents(r))]
      /\ request' = [request EXCEPT ![r] = Idle]
      /\ UNCHANGED <<now, clock, ticks, aborts>>
  BY <1>1 DEF CommitRequest
<1>3. /\ AddEvents(outbox[a], RequestEvents(r)) \in [EventType -> Nat]
      /\ \A e \in EventType : AddEvents(outbox[a], RequestEvents(r))[e]
           = IF e \in RequestEvents(r) THEN outbox[a][e] + 1 ELSE outbox[a][e]
  BY <1>1 DEF TypeOK, AddEvents
<1>4. /\ Replays(audit[a]) /\ Latest(audit[a]) = status[a]
      /\ Append(audit[a], to) \in Seq(AlertStatus)
      /\ Replays(Append(audit[a], to)) /\ Latest(Append(audit[a], to)) = to
      /\ Len(Append(audit[a], to)) > 0
  BY <1>1, LogEndsInStatus, AppendReplays DEF TypeOK, Machine!Arrow
<1>5. RequestEvents(r) = {ResolutionEvent[to]}
          \cup (IF to = "FALSE_POSITIVE" THEN {"risk_profile.recalculate"} ELSE {})
  BY <1>1 DEF RequestEvents
<1>6. TypeOK'
  BY <1>1, <1>2, <1>3, <1>4 DEF TypeOK, Request, clock, ticks
<1>7. RowLocks'
  <2>1. /\ \A s \in Scheduler : a \notin LockedByTick(s)
        /\ \A q \in Analyst : q # r => a \notin LockedByRequest(q)
    BY <1>1 DEF RowLocks, Exclusive
  <2>2. \A s \in Scheduler : LockedByTick(s)' = LockedByTick(s) /\ EmailedAt(s)' = EmailedAt(s)
    BY <1>2 DEF LockedByTick, EmailedAt, clock, ticks
  <2>3. \A q \in Analyst : LockedByRequest(q)' = IF q = r THEN {} ELSE LockedByRequest(q)
    BY <1>2 DEF LockedByRequest, TypeOK, Idle
  <2>4. \A s \in Scheduler : TickHolds(s)'
    BY <1>2, <2>1, <2>2 DEF TypeOK, RowLocks, TickHolds, LockedByTick, clock, ticks
  <2>5. \A q \in Analyst : RequestHolds(q)'
    BY <1>2, <2>1, <2>3, LocksAreRows DEF TypeOK, RowLocks, RequestHolds
  <2> QED BY <2>2, <2>3, <2>4, <2>5 DEF RowLocks, Exclusive
<1>8. TimesFit' /\ EscalationTimers'
  BY <1>1, <1>2 DEF TypeOK, TimesFit, EscalationTimers, clock
<1>9. AuditReplaysHistory'
  <2> SUFFICES ASSUME NEW b \in Alert
               PROVE  /\ \A i \in 1..Len(audit'[b]) :
                           Machine!Arrow(IF i = 1 THEN "PENDING" ELSE audit'[b][i - 1], audit'[b][i])
                      /\ status'[b] = IF Len(audit'[b]) > 0 THEN audit'[b][Len(audit'[b])]
                                      ELSE IF created_at'[b] = Never THEN "ABSENT" ELSE "PENDING"
    BY DEF AuditReplaysHistory
  <2>1. CASE b = a
    BY <1>1, <1>2, <1>4, <2>1, LogFits DEF TypeOK
  <2>2. CASE b # a
    BY <1>2, <2>2 DEF TypeOK, AuditReplaysHistory, clock
  <2> QED BY <2>1, <2>2
<1>10. OutboxMatchesHistory'
  <2> SUFFICES ASSUME NEW b \in Alert, NEW e \in EventType
               PROVE  outbox'[b][e] = IF e \in Warranted(b)' THEN 1 ELSE 0
    BY DEF OutboxMatchesHistory
  <2>1. CASE b = a
    <3>1. Warranted(a)' = Warranted(a) \cup RequestEvents(r)
      <4>1. status'[a] = to /\ UNCHANGED clock
        BY <1>1, <1>2 DEF TypeOK
      <4> QED BY <1>1, <1>5, <4>1 DEF Warranted, clock
    <3>2. Warranted(a) \cap RequestEvents(r) = {}
      BY <1>1, <1>5 DEF Warranted, ResolutionEvent
    <3>3. /\ outbox'[a][e] = IF e \in RequestEvents(r) THEN outbox[a][e] + 1 ELSE outbox[a][e]
          /\ outbox[a][e] = IF e \in Warranted(a) THEN 1 ELSE 0
      BY <1>1, <1>2, <1>3 DEF TypeOK, OutboxMatchesHistory
    <3>4. outbox'[a][e] = IF e \in Warranted(a)' THEN 1 ELSE 0
      BY <3>1, <3>2, <3>3
    <3> QED BY <2>1, <3>4
  <2>2. CASE b # a
    <3>1. Warranted(b)' = Warranted(b)
      BY <1>2, <2>2 DEF TypeOK, Warranted, clock
    <3> QED BY <1>2, <2>2, <3>1 DEF TypeOK, OutboxMatchesHistory
  <2> QED BY <2>1, <2>2
<1> QED BY <1>6, <1>7, <1>8, <1>9, <1>10

\* The commit of a tick: a row that it has not locked stays as it is; the
\* others take one arrow or, with a Slack delay of zero, two.
LEMMA CommitTickRows ==
  ASSUME IndInv, NEW s \in Scheduler, CommitTick(s), NEW a \in Alert
  PROVE  /\ a \notin LockedByTick(s) =>
              /\ status'[a] = status[a] /\ audit'[a] = audit[a] /\ outbox'[a] = outbox[a]
              /\ escalated_email_at'[a] = escalated_email_at[a]
              /\ escalated_slack_at'[a] = escalated_slack_at[a]
         /\ a \in email[s] =>
              /\ status[a] = "PENDING"
              /\ escalated_email_at'[a] = tick_now[s]
              /\ tick_now[s] >= created_at[a] + ESCALATION_EMAIL_MINUTES
         /\ a \notin email[s] => escalated_email_at'[a] = escalated_email_at[a]
         /\ a \in slack[s] =>
              /\ status[a] = "ESCALATED_EMAIL" \/ a \in email[s]
              /\ status'[a] = "ESCALATED_SLACK"
              /\ escalated_slack_at'[a] = tick_now[s]
              /\ tick_now[s] >= escalated_email_at'[a] + ESCALATION_SLACK_MINUTES
         /\ a \notin slack[s] => escalated_slack_at'[a] = escalated_slack_at[a]
         /\ a \in email[s] \ slack[s] => status'[a] = "ESCALATED_EMAIL"
<1> USE DEF IndInv
<1>1. /\ status'[a] = IF a \in slack[s] THEN "ESCALATED_SLACK"
                      ELSE IF a \in email[s] THEN "ESCALATED_EMAIL" ELSE status[a]
      /\ escalated_email_at'[a] = IF a \in email[s] THEN tick_now[s] ELSE escalated_email_at[a]
      /\ escalated_slack_at'[a] = IF a \in slack[s] THEN tick_now[s] ELSE escalated_slack_at[a]
      /\ audit'[a] = audit[a] \o TickAudit(s, a)
      /\ outbox'[a] = AddEvents(outbox[a], TickEvents(s, a))
  BY DEF CommitTick, EmailedAt
<1>2. a \notin LockedByTick(s) => audit'[a] = audit[a]
  BY <1>1 DEF LockedByTick, TickAudit, TypeOK
<1>3. a \notin LockedByTick(s) => outbox'[a] = outbox[a]
  BY <1>1 DEF LockedByTick, TickEvents, AddEvents, TypeOK
<1>4. TickHolds(s) /\ EmailedAt(s)[a] = escalated_email_at'[a]
  BY <1>1 DEF RowLocks, EmailedAt
<1>5. /\ tick_now[s] \in Int /\ created_at[a] \in Int /\ escalated_email_at[a] \in Int
      /\ ESCALATION_EMAIL_MINUTES \in Int /\ ESCALATION_SLACK_MINUTES \in Int
  BY DEF TypeOK, Time, Never
<1> QED BY <1>1, <1>2, <1>3, <1>4, <1>5 DEF LockedByTick, TickHolds

\* The audit log of a row that the tick has locked follows its arrows.
LEMMA CommitTickLog ==
  ASSUME IndInv, NEW s \in Scheduler, CommitTick(s), NEW a \in LockedByTick(s)
  PROVE  /\ audit'[a] \in Seq(AlertStatus)
         /\ Replays(audit'[a])
         /\ Len(audit'[a]) > 0
         /\ Latest(audit'[a]) = status'[a]
<1> USE DEF IndInv, RowsFit
<1> DEFINE h == audit[a]
<1>1. /\ a \in Alert /\ h \in Seq(AlertStatus)
      /\ audit'[a] = h \o TickAudit(s, a)
  BY LocksAreRows DEF CommitTick, TypeOK
<1>2. /\ a \in email[s] => status[a] = "PENDING"
      /\ a \in slack[s] => status[a] = "ESCALATED_EMAIL" \/ a \in email[s]
      /\ status'[a] = IF a \in slack[s] THEN "ESCALATED_SLACK" ELSE "ESCALATED_EMAIL"
      /\ a \in email[s] \/ a \in slack[s]
  BY <1>1, CommitTickRows DEF LockedByTick
<1>3. Replays(h) /\ Latest(h) = status[a]
  BY <1>1, <1>2, LogEndsInStatus
<1>4. ASSUME a \in email[s]
      PROVE  /\ Append(h, "ESCALATED_EMAIL") \in Seq(AlertStatus)
             /\ Replays(Append(h, "ESCALATED_EMAIL"))
             /\ Len(Append(h, "ESCALATED_EMAIL")) > 0
             /\ Latest(Append(h, "ESCALATED_EMAIL")) = "ESCALATED_EMAIL"
  BY <1>1, <1>2, <1>3, <1>4, AppendReplays DEF Machine!Arrow
<1>5. CASE a \in email[s] /\ a \notin slack[s]
  <2>1. h \o TickAudit(s, a) = Append(h, "ESCALATED_EMAIL")
    BY <1>1, <1>5 DEF TickAudit
  <2> QED BY <1>1, <1>2, <1>4, <1>5, <2>1
<1>6. CASE a \in email[s] /\ a \in slack[s]
  <2>1. h \o TickAudit(s, a) = Append(Append(h, "ESCALATED_EMAIL"), "ESCALATED_SLACK")
    BY <1>1, <1>6 DEF TickAudit
  <2> DEFINE g == Append(h, "ESCALATED_EMAIL")
  <2>2. g \in Seq(AlertStatus) /\ Replays(g) /\ Machine!Arrow(Latest(g), "ESCALATED_SLACK")
    BY <1>4, <1>6 DEF Machine!Arrow
  <2> HIDE DEF g
  <2>3. /\ Append(g, "ESCALATED_SLACK") \in Seq(AlertStatus)
        /\ Replays(Append(g, "ESCALATED_SLACK"))
        /\ Len(Append(g, "ESCALATED_SLACK")) > 0
        /\ Latest(Append(g, "ESCALATED_SLACK")) = "ESCALATED_SLACK"
    BY <2>2, AppendReplays
  <2> QED BY <1>1, <1>2, <1>6, <2>1, <2>3 DEF g
<1>7. CASE a \notin email[s]
  <2>1. TickAudit(s, a) = <<"ESCALATED_SLACK">>
    BY <1>2, <1>7 DEF TickAudit
  <2>2. h \o <<"ESCALATED_SLACK">> = Append(h, "ESCALATED_SLACK")
    BY <1>1
  <2>3. Machine!Arrow(Latest(h), "ESCALATED_SLACK")
    BY <1>2, <1>3, <1>7 DEF Machine!Arrow
  <2>4. /\ Append(h, "ESCALATED_SLACK") \in Seq(AlertStatus)
        /\ Replays(Append(h, "ESCALATED_SLACK"))
        /\ Len(Append(h, "ESCALATED_SLACK")) > 0
        /\ Latest(Append(h, "ESCALATED_SLACK")) = "ESCALATED_SLACK"
    BY <1>1, <1>3, <2>3, AppendReplays
  <2> QED BY <1>1, <1>2, <1>7, <2>1, <2>2, <2>4
<1> QED BY <1>5, <1>6, <1>7

\* The commit of a tick rewrites the rows it has locked, and ends it.
LEMMA CommitTickIndInv ==
  ASSUME IndInv, NEW s \in Scheduler, CommitTick(s)
  PROVE  IndInv'
<1> USE DEF IndInv, RowsFit
<1>1. /\ tick' = [tick EXCEPT ![s] = "idle"]
      /\ email' = [email EXCEPT ![s] = {}]
      /\ slack' = [slack EXCEPT ![s] = {}]
      /\ UNCHANGED <<now, tick_now, created_at, resolved_by, request, aborts>>
  BY DEF CommitTick, EndTick
<1>2. \A a \in Alert : a \notin LockedByTick(s) =>
        /\ status'[a] = status[a] /\ audit'[a] = audit[a] /\ outbox'[a] = outbox[a]
        /\ escalated_email_at'[a] = escalated_email_at[a]
        /\ escalated_slack_at'[a] = escalated_slack_at[a]
  BY CommitTickRows
<1>3. TypeOK'
  <2>1. /\ status' \in [Alert -> AlertStatus]
        /\ escalated_slack_at' \in [Alert -> Time]
        /\ escalated_email_at' \in [Alert -> Time]
    BY DEF CommitTick, EmailedAt, TypeOK, Time
  <2>2. audit' \in [Alert -> Seq(AlertStatus)]
    <3>1. \A a \in Alert : audit'[a] \in Seq(AlertStatus)
      BY <1>2, CommitTickLog DEF TypeOK
    <3> QED BY <3>1 DEF CommitTick
  <2>3. outbox' \in [Alert -> [EventType -> Nat]]
    BY DEF CommitTick, AddEvents, TypeOK
  <2> QED BY <1>1, <2>1, <2>2, <2>3 DEF TypeOK
<1>4. RowLocks'
  <2>1. \A u \in Scheduler : LockedByTick(u)' = IF u = s THEN {} ELSE LockedByTick(u)
    BY <1>1 DEF TypeOK, LockedByTick
  <2>2. \A r \in Analyst : LockedByRequest(r)' = LockedByRequest(r)
    BY <1>1 DEF LockedByRequest
  <2>3. TickHolds(s)'
    BY <1>1 DEF TypeOK, TickHolds
  <2>4. ASSUME NEW u \in Scheduler, u # s PROVE TickHolds(u)'
    <3>1. \A a \in LockedByTick(u) : a \in Alert /\ a \notin LockedByTick(s)
      BY <2>4, LocksAreRows DEF RowLocks, Exclusive
    <3>2. \A a \in LockedByTick(u) : EmailedAt(u)'[a] = EmailedAt(u)[a]
      BY <1>1, <1>2, <2>4, <3>1 DEF TypeOK, EmailedAt
    <3>3. TickHolds(u) /\ email'[u] = email[u] /\ slack'[u] = slack[u] /\ tick'[u] = tick[u]
      BY <1>1, <2>4 DEF TypeOK, RowLocks
    <3>4. \A a \in LockedByTick(u) : status'[a] = status[a]
      BY <1>2, <3>1
    <3>5. email[u] \subseteq LockedByTick(u) /\ slack[u] \subseteq LockedByTick(u)
      BY DEF LockedByTick
    <3> QED BY <1>1, <3>2, <3>3, <3>4, <3>5 DEF TickHolds
  <2>5. \A r \in Analyst : RequestHolds(r)'
    <3>1. \A r \in Analyst : \A a \in LockedByRequest(r) : a \in Alert /\ a \notin LockedByTick(s)
      BY LocksAreRows DEF RowLocks, Exclusive
    <3> QED BY <1>2, <2>2, <3>1 DEF RowLocks, RequestHolds
  <2> QED BY <2>1, <2>2, <2>3, <2>4, <2>5 DEF RowLocks, Exclusive
<1>5. TimesFit' /\ EscalationTimers'
  <2> SUFFICES ASSUME NEW a \in Alert
               PROVE  /\ status'[a] \in {"ABSENT", "PENDING"} => escalated_email_at'[a] = Never
                      /\ status'[a] \in {"ABSENT", "PENDING", "ESCALATED_EMAIL"}
                           => escalated_slack_at'[a] = Never
                      /\ status'[a] = "ESCALATED_EMAIL" => escalated_email_at'[a] # Never
                      /\ escalated_email_at'[a] # Never =>
                           escalated_email_at'[a] >= created_at[a] + ESCALATION_EMAIL_MINUTES
                      /\ escalated_slack_at'[a] # Never =>
                           /\ escalated_email_at'[a] # Never
                           /\ escalated_slack_at'[a] >= escalated_email_at'[a] + ESCALATION_SLACK_MINUTES
    BY <1>1 DEF TimesFit, EscalationTimers
  <2>1. CASE a \notin LockedByTick(s)
    BY <1>2, <2>1 DEF TimesFit, EscalationTimers
  <2>2. CASE a \in LockedByTick(s)
    <3>1. tick_now[s] # Never /\ (a \in email[s] \/ a \in slack[s])
      BY <2>2 DEF TypeOK, Never, LockedByTick
    <3> QED BY <3>1, CommitTickRows DEF TimesFit, EscalationTimers
  <2> QED BY <2>1, <2>2
<1>6. AuditReplaysHistory'
  <2> SUFFICES ASSUME NEW b \in Alert
               PROVE  /\ \A i \in 1..Len(audit'[b]) :
                           Machine!Arrow(IF i = 1 THEN "PENDING" ELSE audit'[b][i - 1], audit'[b][i])
                      /\ status'[b] = IF Len(audit'[b]) > 0 THEN audit'[b][Len(audit'[b])]
                                      ELSE IF created_at'[b] = Never THEN "ABSENT" ELSE "PENDING"
    BY DEF AuditReplaysHistory
  <2>1. CASE b \in LockedByTick(s)
    BY <2>1, CommitTickLog, LogFits
  <2>2. CASE b \notin LockedByTick(s)
    BY <1>1, <1>2, <2>2 DEF AuditReplaysHistory
  <2> QED BY <2>1, <2>2
<1>7. OutboxMatchesHistory'
  <2> SUFFICES ASSUME NEW a \in Alert, NEW e \in EventType
               PROVE  outbox'[a][e] = IF e \in Warranted(a)' THEN 1 ELSE 0
    BY DEF OutboxMatchesHistory
  <2>1. CASE a \notin LockedByTick(s)
    <3>1. Warranted(a)' = Warranted(a)
      BY <1>2, <2>1 DEF Warranted
    <3> QED BY <1>2, <2>1, <3>1 DEF OutboxMatchesHistory
  <2>2. CASE a \in LockedByTick(s)
    <3>1. /\ a \in email[s] => status[a] = "PENDING"
          /\ a \in slack[s] => status[a] = "ESCALATED_EMAIL" \/ a \in email[s]
          /\ a \in email[s] \/ a \in slack[s]
          /\ status'[a] \in {"ESCALATED_EMAIL", "ESCALATED_SLACK"}
      BY <2>2, CommitTickRows DEF LockedByTick
    <3>2. /\ escalated_email_at'[a] # Never <=> escalated_email_at[a] # Never \/ a \in email[s]
          /\ escalated_slack_at'[a] # Never <=> escalated_slack_at[a] # Never \/ a \in slack[s]
      BY CommitTickRows DEF TypeOK, Never
    <3>3. /\ a \in email[s] => escalated_email_at[a] = Never
          /\ escalated_slack_at[a] = Never
      BY <3>1 DEF TimesFit
    <3>4. Warranted(a)' = Warranted(a) \cup TickEvents(s, a)
      BY <3>1, <3>2 DEF Warranted, TickEvents, EventType
    <3>5. Warranted(a) \cap TickEvents(s, a) = {}
      BY <3>1, <3>3 DEF Warranted, TickEvents
    <3>6. /\ outbox'[a][e] = IF e \in TickEvents(s, a) THEN outbox[a][e] + 1 ELSE outbox[a][e]
          /\ outbox[a][e] = IF e \in Warranted(a) THEN 1 ELSE 0
      BY DEF CommitTick, AddEvents, OutboxMatchesHistory
    <3> QED BY <3>4, <3>5, <3>6
  <2> QED BY <2>1, <2>2
<1> QED BY <1>3, <1>4, <1>5, <1>6, <1>7

----------------------------------------------------------------------------
(* Every behaviour                                                         *)

LEMMA NextIndInv ==
  ASSUME IndInv, [Next]_vars
  PROVE  IndInv'
<1>1. CASE UNCHANGED vars
  <2>1. TypeOK'
    BY <1>1 DEF IndInv, TypeOK, vars, rows, ticks
  <2>2. RowLocks'
    BY <1>1 DEF IndInv, RowLocks, TickHolds, RequestHolds, Exclusive, LockedByTick,
                LockedByRequest, EmailedAt, vars, rows, ticks
  <2> QED BY <1>1, <2>1, <2>2, RowsKept DEF IndInv, vars
<1>2. CASE PassTime
  BY <1>2, PassTimeIndInv
<1>3. ASSUME NEW a \in Alert, Raise(a) PROVE IndInv'
  BY <1>3, RaiseIndInv
<1>4. ASSUME NEW s \in Scheduler,
             EscalateEmail(s) \/ EscalateSlack(s) \/ CommitTick(s) \/ AbortTick(s)
      PROVE  IndInv'
  BY <1>4, EscalateEmailIndInv, EscalateSlackIndInv, CommitTickIndInv, AbortTickIndInv
<1>5. ASSUME NEW r \in Analyst,
             \/ Submit(r) \/ UpdateAlert(r) \/ RejectRequest(r)
             \/ CommitRequest(r) \/ AbortRequest(r)
      PROVE  IndInv'
  BY <1>5, RequestIndInv, CommitRequestIndInv
<1> QED BY <1>1, <1>2, <1>3, <1>4, <1>5 DEF Next

LEMMA Always == Spec => []IndInv
<1>1. IndInv /\ [Next]_vars => IndInv'
  BY NextIndInv
<1> QED BY <1>1, InitIndInv, PTL DEF Spec

\* The tables, the ticks and the requests stay in their types.
THEOREM TypeCorrect == Spec => []TypeOK
BY Always, PTL DEF IndInv

\* However schedulers and analysts compete for a row, its audit log replays
\* what happened to it.
THEOREM AuditIsHistory == Spec => []AuditReplaysHistory
BY Always, PTL DEF IndInv, RowsFit

\* ... and the outbox has the events of what happened, once each.
THEOREM EventsAreWarranted == Spec => []OutboxMatchesHistory
BY Always, PTL DEF IndInv, RowsFit

\* No tick escalates an alert before its time.
THEOREM TimersRespected == Spec => []EscalationTimers
BY Always, PTL DEF IndInv, RowsFit

----------------------------------------------------------------------------
(* What a step does to a row                                               *)

RowStays(a) ==
  status'[a] = status[a] /\ resolved_by'[a] = resolved_by[a]
    /\ audit'[a] = audit[a] /\ outbox'[a] = outbox[a]

\* A row changes by being raised, by the tick or by the request that has it
\* locked.
LEMMA RowChanges ==
  ASSUME IndInv, [Next]_vars, NEW a \in Alert
  PROVE  \/ RowStays(a)
         \/ status[a] = "ABSENT" /\ status'[a] = "PENDING"
         \/ \E s \in Scheduler : CommitTick(s) /\ a \in LockedByTick(s)
         \/ status[a] \in Unresolved /\ status'[a] \in Terminal
<1> USE DEF IndInv, RowStays
<1>1. CASE UNCHANGED rows
  BY <1>1 DEF rows
<1>2. ASSUME NEW b \in Alert, Raise(b)
      PROVE  RowStays(a) \/ (status[a] = "ABSENT" /\ status'[a] = "PENDING")
  BY <1>2 DEF Raise, TypeOK
<1>3. ASSUME NEW s \in Scheduler, CommitTick(s), a \notin LockedByTick(s)
      PROVE  RowStays(a)
  BY <1>3, CommitTickRows DEF CommitTick
<1>4. ASSUME NEW r \in Analyst, CommitRequest(r)
      PROVE  RowStays(a) \/ (status[a] \in Unresolved /\ status'[a] \in Terminal)
  <2>1. PICK b \in Alert, to \in Terminal :
          request[r].alert = b /\ request[r].target = to /\ status[b] \in Unresolved
    BY <1>4 DEF CommitRequest, TypeOK, Request, Idle, LockedByRequest, RowLocks, RequestHolds
  <2>2. /\ status' = [status EXCEPT ![b] = to]
        /\ resolved_by' = [resolved_by EXCEPT ![b] = r]
        /\ audit' = [audit EXCEPT ![b] = Append(audit[b], to)]
        /\ outbox' = [outbox EXCEPT ![b] = AddEvents(outbox[b], RequestEvents(r))]
    BY <1>4, <2>1 DEF CommitRequest
  <2> QED BY <2>1, <2>2 DEF TypeOK
<1> QED BY <1>1, <1>2, <1>3, <1>4
        DEF Next, vars, PassTime, EscalateEmail, EscalateSlack, AbortTick, Submit, UpdateAlert,
            RejectRequest, AbortRequest

\* A decision stands: the row of a decided alert is locked by nobody, so no
\* commit still to come rewrites it.
THEOREM DecisionsStand == Spec => DecisionStands
<1>1. IndInv /\ [Next]_vars =>
        [\A a \in Alert :
           status[a] \in Terminal =>
             /\ status'[a] = status[a] /\ resolved_by'[a] = resolved_by[a]
             /\ audit'[a] = audit[a] /\ outbox'[a] = outbox[a]]_vars
  <2> SUFFICES ASSUME IndInv, [Next]_vars, NEW a \in Alert, status[a] \in Terminal
               PROVE  RowStays(a)
    BY DEF RowStays
  <2>1. ASSUME NEW s \in Scheduler PROVE a \notin LockedByTick(s)
    BY DEF IndInv, RowLocks, TickHolds, LockedByTick
  <2> QED BY <2>1, RowChanges
<1> QED BY <1>1, Always, PTL DEF Spec, DecisionStands

\* With a Slack delay above zero every transaction of every replica takes an
\* alert along at most one arrow of the state machine.
THEOREM Refinement ==
  ASSUME ESCALATION_SLACK_MINUTES > 0
  PROVE  Spec => FollowsDiagram
<1>1. Init => Machine!Init
  BY DEF Init, Machine!Init
<1>2. IndInv /\ [Next]_vars => [Machine!Next]_status
  <2> SUFFICES ASSUME IndInv, [Next]_vars PROVE Machine!Next
    OBVIOUS
  <2>1. status' \in [Alert -> AlertStatus]
    BY NextIndInv DEF IndInv, TypeOK
  <2>2. ASSUME NEW a \in Alert
        PROVE  status'[a] = status[a] \/ Machine!Arrow(status[a], status'[a])
    <3>1. ASSUME NEW s \in Scheduler, CommitTick(s), a \in LockedByTick(s)
          PROVE  Machine!Arrow(status[a], status'[a])
      <4>1. a \notin email[s] \/ a \notin slack[s]
        <5> SUFFICES ASSUME a \in email[s], a \in slack[s] PROVE FALSE
          OBVIOUS
        <5>1. tick_now[s] >= tick_now[s] + ESCALATION_SLACK_MINUTES
          BY <3>1, CommitTickRows
        <5>2. tick_now[s] \in Nat
          BY DEF IndInv, TypeOK
        <5> QED BY <5>1, <5>2
      <4> QED BY <3>1, <4>1, CommitTickRows DEF LockedByTick, Machine!Arrow
    <3> QED BY <3>1, RowChanges DEF RowStays, Machine!Arrow
  <2> QED BY <2>1, <2>2 DEF Machine!Next
<1> QED BY <1>1, <1>2, Always, PTL DEF Spec, FollowsDiagram, Machine!Spec

============================================================================
