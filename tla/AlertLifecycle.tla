--------------------------- MODULE AlertLifecycle ---------------------------
(***************************************************************************)
(* The life of an alert after the pipeline has raised it: the replicas of  *)
(* the escalation scheduler and the analysts' requests to the gateway      *)
(* compete for the same rows of the alerts table.                          *)
(*                                                                         *)
(* A scheduler tick is one database transaction of three steps, between    *)
(* which the others run: tier 1 locks and updates the due PENDING rows,    *)
(* tier 2 the due ESCALATED_EMAIL rows, then the commit.  A resolution     *)
(* request reads the clock when it arrives, waits for the row lock, and    *)
(* evaluates its conditional UPDATE against the row as last committed.     *)
(* What a transaction has written is kept apart until it commits, and is   *)
(* gone when it rolls back.                                                *)
(***************************************************************************)
EXTENDS Integers, Sequences, FiniteSets

CONSTANTS
  Alert,                    \* the alerts
  Scheduler,                \* replicas of the processor's scheduler loop
  Analyst,                  \* analysts, with one request each at a time
  ESCALATION_EMAIL_MINUTES,
  ESCALATION_SLACK_MINUTES,
  ESCALATION_BATCH_SIZE,
  MaxTime,                  \* bound: the clock stops here
  MaxAborts                 \* bound: transactions lost to crashes

ASSUME LifecycleAssumption ==
  /\ ESCALATION_EMAIL_MINUTES \in Nat
  /\ ESCALATION_SLACK_MINUTES \in Nat
  /\ ESCALATION_BATCH_SIZE \in Nat \ {0}
  /\ MaxTime \in Nat
  /\ MaxAborts \in Nat

VARIABLES
  now,                \* the clock all services share
  status,             \* [Alert -> AlertStatus], committed
  created_at, escalated_email_at, escalated_slack_at, \* [Alert -> Time], committed
  resolved_by,        \* [Alert -> Analyst or Nobody], committed
  audit,              \* [Alert -> Seq(AlertStatus)], "after" of its AuditLog rows
  outbox,             \* [Alert -> [EventType -> Nat]], its OutboxEvent rows
  tick,               \* [Scheduler -> phase of the running tick]
  tick_now,           \* [Scheduler -> the time the tick started at]
  email, slack,       \* [Scheduler -> SUBSET Alert], rows updated by the tick
  request,            \* [Analyst -> the request being served]
  aborts

clock == <<created_at, escalated_email_at, escalated_slack_at>>
rows == <<status, created_at, escalated_email_at, escalated_slack_at,
          resolved_by, audit, outbox>>
ticks == <<tick, tick_now, email, slack>>
vars == <<now, rows, ticks, request, aborts>>

Machine == INSTANCE AlertStateMachine
Terminal == Machine!Terminal
Unresolved == Machine!Unresolved
AlertStatus == Machine!AlertStatus

Never == -1
Time == Nat \cup {Never}
Nobody == "nobody"

\* RESOLUTION_EVENT_MAP
ResolutionEvent ==
  [t \in Terminal |-> CASE t = "APPROVED" -> "alert.approved"
                        [] t = "BLOCKED" -> "alert.blocked"
                        [] t = "FALSE_POSITIVE" -> "alert.false_positive"]

EventType == {"alert.created", "alert.approved", "alert.blocked",
              "alert.false_positive", "risk_profile.recalculate",
              "escalation.email.requested", "escalation.slack.requested"}

Idle == [phase |-> "idle"]
Request ==
  {Idle} \cup [phase: {"waiting", "updated"}, alert: Alert, target: Terminal]

TypeOK ==
  /\ now \in 0..MaxTime
  /\ status \in [Alert -> AlertStatus]
  /\ created_at \in [Alert -> Time]
  /\ escalated_email_at \in [Alert -> Time]
  /\ escalated_slack_at \in [Alert -> Time]
  /\ resolved_by \in [Alert -> Analyst \cup {Nobody}]
  /\ audit \in [Alert -> Seq(AlertStatus)]
  /\ outbox \in [Alert -> [EventType -> Nat]]
  /\ tick \in [Scheduler -> {"idle", "email", "slack"}]
  /\ tick_now \in [Scheduler -> 0..MaxTime]
  /\ email \in [Scheduler -> SUBSET Alert]
  /\ slack \in [Scheduler -> SUBSET Alert]
  /\ request \in [Analyst -> Request]
  /\ aborts \in 0..MaxAborts

----------------------------------------------------------------------------
Init ==
  /\ now = 0
  /\ status = [a \in Alert |-> "ABSENT"]
  /\ created_at = [a \in Alert |-> Never]
  /\ escalated_email_at = [a \in Alert |-> Never]
  /\ escalated_slack_at = [a \in Alert |-> Never]
  /\ resolved_by = [a \in Alert |-> Nobody]
  /\ audit = [a \in Alert |-> <<>>]
  /\ outbox = [a \in Alert |-> [t \in EventType |-> 0]]
  /\ tick = [s \in Scheduler |-> "idle"]
  /\ tick_now = [s \in Scheduler |-> 0]
  /\ email = [s \in Scheduler |-> {}]
  /\ slack = [s \in Scheduler |-> {}]
  /\ request = [r \in Analyst |-> Idle]
  /\ aborts = 0

\* The row locks of the open transactions.
LockedByTick(s) == email[s] \cup slack[s]
LockedByRequest(r) == IF request[r].phase = "updated" THEN {request[r].alert} ELSE {}

\* Mutant of UnlockedBy: the ticks neither skip nor respect row locks.
UnlockedByAll(s) == Alert

UnlockedBy(s) ==
  {a \in Alert : /\ \A u \in Scheduler \ {s} : a \notin LockedByTick(u)
                 /\ \A r \in Analyst : a \notin LockedByRequest(r)}

\* ORDER BY at ASC LIMIT ESCALATION_BATCH_SIZE over the rows of S.
IsOldestBatch(B, S, at) ==
  /\ Cardinality(B) = IF Cardinality(S) < ESCALATION_BATCH_SIZE
                      THEN Cardinality(S) ELSE ESCALATION_BATCH_SIZE
  /\ \A a \in B, b \in S \ B : at[a] <= at[b]

PassTime ==
  /\ now < MaxTime
  /\ now' = now + 1
  /\ UNCHANGED <<rows, ticks, request, aborts>>

\* The detection pipeline commits an alert with its alert.created event; it
\* has read the clock some time before.
Raise(a) ==
  /\ status[a] = "ABSENT"
  /\ status' = [status EXCEPT ![a] = "PENDING"]
  /\ \E t \in 0..now : created_at' = [created_at EXCEPT ![a] = t]
  /\ outbox' = [outbox EXCEPT ![a]["alert.created"] = @ + 1]
  /\ UNCHANGED <<now, escalated_email_at, escalated_slack_at, resolved_by,
                 audit, ticks, request, aborts>>

----------------------------------------------------------------------------
(* run_escalation_tick                                                     *)

\* Mutant of EmailDue: an alert exactly as old as the timer is not due.
EmailDueLate(s) ==
  {a \in UnlockedBy(s) :
     /\ status[a] = "PENDING"
     /\ created_at[a] < now - ESCALATION_EMAIL_MINUTES}

EmailDue(s) ==
  {a \in UnlockedBy(s) :
     /\ status[a] = "PENDING"
     /\ created_at[a] <= now - ESCALATION_EMAIL_MINUTES}

\* Mutant of EscalateEmail: a tick with no PENDING row due returns at once.
EscalateEmailOnly(s) ==
  /\ tick[s] = "idle"
  /\ EmailDue(s) # {}
  /\ tick_now' = [tick_now EXCEPT ![s] = now]
  /\ \E B \in SUBSET EmailDue(s) :
        /\ IsOldestBatch(B, EmailDue(s), created_at)
        /\ email' = [email EXCEPT ![s] = B]
  /\ tick' = [tick EXCEPT ![s] = "email"]
  /\ UNCHANGED <<now, rows, slack, request, aborts>>

\* Tier 1: lock the due rows and write ESCALATED_EMAIL to each.  They are
\* locked, so the conditional UPDATE finds every one still PENDING.
EscalateEmail(s) ==
  /\ tick[s] = "idle"
  /\ tick_now' = [tick_now EXCEPT ![s] = now]
  /\ \E B \in SUBSET EmailDue(s) :
        /\ IsOldestBatch(B, EmailDue(s), created_at)
        /\ email' = [email EXCEPT ![s] = B]
  /\ tick' = [tick EXCEPT ![s] = "email"]
  /\ UNCHANGED <<now, rows, slack, request, aborts>>

\* escalated_email_at as the tick's own transaction sees it.
EmailedAt(s) ==
  [a \in Alert |-> IF a \in email[s] THEN tick_now[s] ELSE escalated_email_at[a]]

\* Mutant of SlackDue: the Slack timer is started by created_at.
SlackDueEarly(s) ==
  {a \in UnlockedBy(s) :
     /\ status[a] = "ESCALATED_EMAIL" \/ a \in email[s]
     /\ created_at[a] <= tick_now[s] - ESCALATION_SLACK_MINUTES}

SlackDue(s) ==
  {a \in UnlockedBy(s) :
     /\ status[a] = "ESCALATED_EMAIL" \/ a \in email[s]
     /\ EmailedAt(s)[a] <= tick_now[s] - ESCALATION_SLACK_MINUTES}

\* Tier 2, in the same transaction: it sees what tier 1 wrote.
EscalateSlack(s) ==
  /\ tick[s] = "email"
  /\ \E B \in SUBSET SlackDue(s) :
        /\ IsOldestBatch(B, SlackDue(s), EmailedAt(s))
        /\ slack' = [slack EXCEPT ![s] = B]
  /\ tick' = [tick EXCEPT ![s] = "slack"]
  /\ UNCHANGED <<now, rows, tick_now, email, request, aborts>>

EndTick(s) ==
  /\ tick' = [tick EXCEPT ![s] = "idle"]
  /\ email' = [email EXCEPT ![s] = {}]
  /\ slack' = [slack EXCEPT ![s] = {}]
  /\ UNCHANGED tick_now

\* The AuditLog rows of the tick for alert a, in the order they are written.
TickAudit(s, a) ==
  (IF a \in email[s] THEN <<"ESCALATED_EMAIL">> ELSE <<>>)
    \o (IF a \in slack[s] THEN <<"ESCALATED_SLACK">> ELSE <<>>)

\* The OutboxEvent rows of the tick for alert a.
TickEvents(s, a) ==
  {t \in EventType : \/ t = "escalation.email.requested" /\ a \in email[s]
                     \/ t = "escalation.slack.requested" /\ a \in slack[s]}

AddEvents(events, types) ==
  [t \in EventType |-> IF t \in types THEN events[t] + 1 ELSE events[t]]

\* All transitions, audit rows and outbox events of the tick at once.
CommitTick(s) ==
  /\ tick[s] = "slack"
  /\ status' = [a \in Alert |-> IF a \in slack[s] THEN "ESCALATED_SLACK"
                                ELSE IF a \in email[s] THEN "ESCALATED_EMAIL"
                                ELSE status[a]]
  /\ escalated_email_at' = EmailedAt(s)
  /\ escalated_slack_at' = [a \in Alert |-> IF a \in slack[s] THEN tick_now[s]
                                            ELSE escalated_slack_at[a]]
  /\ audit' = [a \in Alert |-> audit[a] \o TickAudit(s, a)]
  /\ outbox' = [a \in Alert |-> AddEvents(outbox[a], TickEvents(s, a))]
  /\ EndTick(s)
  /\ UNCHANGED <<now, created_at, resolved_by, request, aborts>>

\* The scheduler crashes, is cancelled or loses its database connection.
AbortTick(s) ==
  /\ tick[s] # "idle"
  /\ aborts < MaxAborts
  /\ aborts' = aborts + 1
  /\ EndTick(s)
  /\ UNCHANGED <<now, rows, request>>

----------------------------------------------------------------------------
(* resolve_alert                                                           *)

\* An analyst decides on an alert of the dashboard, which may be out of date.
Submit(r) ==
  /\ request[r] = Idle
  /\ \E a \in Alert, t \in Terminal :
        /\ status[a] # "ABSENT"
        /\ request' = [request EXCEPT ![r] =
                         [phase |-> "waiting", alert |-> a, target |-> t]]
  /\ UNCHANGED <<now, rows, ticks, aborts>>

\* The row is free, now that the transactions that had it are over.
RowFree(a) ==
  /\ \A s \in Scheduler : a \notin LockedByTick(s)
  /\ \A r \in Analyst : a \notin LockedByRequest(r)

\* Mutant of Resolvable: the UPDATE has no condition on the status.
ResolvableAlways(a) == status[a] # "ABSENT"

Resolvable(a) == status[a] \in Unresolved

\* UPDATE ... WHERE id = :id AND status IN (...) finds the row.
UpdateAlert(r) ==
  /\ request[r].phase = "waiting"
  /\ RowFree(request[r].alert)
  /\ Resolvable(request[r].alert)
  /\ request' = [request EXCEPT ![r].phase = "updated"]
  /\ UNCHANGED <<now, rows, ticks, aborts>>

\* It finds none: InvalidStateTransitionError, answered as 409.
RejectRequest(r) ==
  /\ request[r].phase = "waiting"
  /\ RowFree(request[r].alert)
  /\ ~Resolvable(request[r].alert)
  /\ request' = [request EXCEPT ![r] = Idle]
  /\ UNCHANGED <<now, rows, ticks, aborts>>

\* Mutant of RequestEvents: every decision asks for a recalculation.
RequestEventsAll(r) ==
  {ResolutionEvent[request[r].target], "risk_profile.recalculate"}

RequestEvents(r) ==
  {ResolutionEvent[request[r].target]}
    \cup (IF request[r].target = "FALSE_POSITIVE" THEN {"risk_profile.recalculate"}
          ELSE {})

\* Mutant of CommitRequest: resolved_by is given the target status.
CommitRequestSwapped(r) ==
  /\ request[r].phase = "updated"
  /\ LET a == request[r].alert IN
     /\ status' = [status EXCEPT ![a] = request[r].target]
     /\ resolved_by' = [resolved_by EXCEPT ![a] = request[r].target]
     /\ audit' = [audit EXCEPT ![a] = Append(@, request[r].target)]
     /\ outbox' = [outbox EXCEPT ![a] = AddEvents(@, RequestEvents(r))]
  /\ request' = [request EXCEPT ![r] = Idle]
  /\ UNCHANGED <<now, clock, ticks, aborts>>

\* session.commit(): decision, audit row and outbox events at once.
CommitRequest(r) ==
  /\ request[r].phase = "updated"
  /\ LET a == request[r].alert IN
     /\ status' = [status EXCEPT ![a] = request[r].target]
     /\ resolved_by' = [resolved_by EXCEPT ![a] = r]
     /\ audit' = [audit EXCEPT ![a] = Append(@, request[r].target)]
     /\ outbox' = [outbox EXCEPT ![a] = AddEvents(@, RequestEvents(r))]
  /\ request' = [request EXCEPT ![r] = Idle]
  /\ UNCHANGED <<now, clock, ticks, aborts>>

\* The request fails before its commit, and its session rolls back.
AbortRequest(r) ==
  /\ request[r] # Idle
  /\ aborts < MaxAborts
  /\ aborts' = aborts + 1
  /\ request' = [request EXCEPT ![r] = Idle]
  /\ UNCHANGED <<now, rows, ticks>>

----------------------------------------------------------------------------
Next ==
  \/ PassTime
  \/ \E a \in Alert : Raise(a)
  \/ \E s \in Scheduler :
        EscalateEmail(s) \/ EscalateSlack(s) \/ CommitTick(s) \/ AbortTick(s)
  \/ \E r \in Analyst :
        \/ Submit(r) \/ UpdateAlert(r) \/ RejectRequest(r)
        \/ CommitRequest(r) \/ AbortRequest(r)

Spec == Init /\ [][Next]_vars

\* Time passes and the scheduler loop ticks again and again; a transaction
\* that is open ends.  Analysts need never come.
Fairness ==
  /\ WF_vars(PassTime)
  /\ \A s \in Scheduler : /\ WF_vars(EscalateEmail(s))
                          /\ WF_vars(EscalateSlack(s))
                          /\ WF_vars(CommitTick(s))
  /\ \A r \in Analyst : WF_vars(CommitRequest(r))

FairSpec == Spec /\ Fairness

----------------------------------------------------------------------------
\* The audit log of an alert, read in the order its rows were committed,
\* follows the arrows of the state machine and ends in the alert's status:
\* no transition is unlogged, doubled, or logged by a transaction that lost
\* the race (resolve_alert, run_escalation_tick).
AuditReplaysHistory ==
  \A a \in Alert :
    LET h == audit[a] IN
    /\ \A i \in 1..Len(h) :
         Machine!Arrow(IF i = 1 THEN "PENDING" ELSE h[i - 1], h[i])
    /\ status[a] = IF Len(h) > 0 THEN h[Len(h)]
                   ELSE IF created_at[a] = Never THEN "ABSENT" ELSE "PENDING"

\* The events an alert's history calls for.
Warranted(a) ==
  (IF status[a] = "ABSENT" THEN {} ELSE {"alert.created"})
    \cup (IF escalated_email_at[a] # Never THEN {"escalation.email.requested"} ELSE {})
    \cup (IF escalated_slack_at[a] # Never THEN {"escalation.slack.requested"} ELSE {})
    \cup (IF status[a] \in Terminal THEN {ResolutionEvent[status[a]]} ELSE {})
    \cup (IF status[a] = "FALSE_POSITIVE" THEN {"risk_profile.recalculate"} ELSE {})

\* The outbox holds exactly one event of each kind the alert's history calls
\* for and none of any other: one notification per escalation, one decision
\* per alert, a risk recalculation for a false positive and only for it.
OutboxMatchesHistory ==
  \A a \in Alert, t \in EventType :
    outbox[a][t] = IF t \in Warranted(a) THEN 1 ELSE 0

\* An alert is escalated no earlier than its timers allow, and to Slack only
\* after e-mail, however late a tick commits what it selected.
EscalationTimers ==
  \A a \in Alert :
    /\ escalated_email_at[a] # Never =>
         escalated_email_at[a] >= created_at[a] + ESCALATION_EMAIL_MINUTES
    /\ escalated_slack_at[a] # Never =>
         /\ escalated_email_at[a] # Never
         /\ escalated_slack_at[a] >= escalated_email_at[a] + ESCALATION_SLACK_MINUTES

\* A decision stands: once an alert is terminal no analyst and no tick that
\* is still under way changes its status, its author, its audit log or its
\* events (the conditional UPDATE of resolve_alert).
DecisionStands ==
  [][\A a \in Alert :
       status[a] \in Terminal =>
         /\ status'[a] = status[a] /\ resolved_by'[a] = resolved_by[a]
         /\ audit'[a] = audit[a] /\ outbox'[a] = outbox[a]]_vars

\* The tables follow the state machine of the README.  With a Slack delay of
\* zero one tick takes two arrows, and this is not so.
FollowsDiagram == Machine!Spec

\* An alert nobody decides on does not stay where it is: each tier picks it
\* up when its timer has run out (before the clock of the model stops),
\* although a tick takes few alerts and skips locked ones.
NobodyForgotten ==
  \A a \in Alert :
    /\ (/\ status[a] = "PENDING"
        /\ created_at[a] + ESCALATION_EMAIL_MINUTES <= MaxTime)
          ~> status[a] # "PENDING"
    /\ (/\ status[a] = "ESCALATED_EMAIL"
        /\ escalated_email_at[a] + ESCALATION_SLACK_MINUTES <= MaxTime)
          ~> status[a] # "ESCALATED_EMAIL"

============================================================================
