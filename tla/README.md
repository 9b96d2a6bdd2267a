# RT-FADS in TLA+

Specifications of the real-time financial anomaly detection system as TLA+
modules, from the request that submits a transaction to the screen of the analyst
who decides on its alert; the TLC configurations that check them on small
instances; and proofs of the safety of most components for every instance.

## The system

| Component | State | Operations | Talks to | Hard because |
|---|---|---|---|---|
| Ingestion (`services/gateway/services/ingestion.py`) | transactions, outbox_events | submit_transaction | outbox | check-then-insert on the idempotency key |
| Outbox publisher (`services/outbox_publisher/publisher.py`) | outbox_events, dead_letter_events, its open transaction | poll, publish, handle failure, commit | database, Redis Streams | replicas, crash between XADD and commit, retry limit |
| Transaction consumer (`services/processor/consumers/transaction_consumer.py`) | consumer group and its pending entries, processed_events, a batch in memory | read, reclaim, process, dead-letter, acknowledge | stream:transactions, pipeline | at-least-once delivery, two loops per replica, crash between commit and XACK |
| Detection pipeline (`.../services/detection_pipeline.py`) | transactions, alerts, risk_profiles, outbox_events, processed_events | process_transaction_event | rules, ML model, outbox | one transaction over five tables, read-modify-write of the profile |
| Escalation scheduler (`.../scheduler/escalation_scheduler.py`) | alerts, audit_logs, outbox_events | run_escalation_tick | outbox | competes with analysts and with its own replicas |
| Alert resolution (`services/gateway/services/alert_actions.py`) | the same tables | resolve_alert | outbox | stale dashboards, row-lock waits |
| Compensation (`.../consumers/compensation_consumer.py`, `compensation_service.py`) | risk_profiles, processed_events | recalculate on a false positive | stream:compensation | shares the profile with the pipeline |
| Rules, scoring, demo override (`services/processor/domain/`) | none | pure functions | pipeline | boundaries, zero parameters |
| Rule cache (`.../services/rule_cache.py`) | cached rules, time of the last refresh | get_active_rules | database | staleness, concurrent misses |
| Notification forwarder (`services/gateway/consumers/notification_forwarder.py`) | consumer group | forward, acknowledge, listen | streams, Pub/Sub | no inbox, order across streams, a listener that may be off its channel |
| WebSocket manager (`services/gateway/ws/manager.py`) | active connections | connect, pong, broadcast, heartbeat | Pub/Sub listener, browser | pong against heartbeat |
| Dashboard (`frontend/src/App.tsx`) | alerts shown | reconcile, apply push, act | gateway | a late response overwrites a newer push |
| Django control plane (`services/admin`) | fraud_rules, audit | edit rules, read-only views | database | writer behind the rule cache |

A transaction flows through ingestion, outbox, `stream:transactions`, the
pipeline (alert and `alert.created` in the outbox), and then as alert events
through the forwarder to the dashboard.  Analysts and the scheduler move the
alert on, each move writing audit row and outbox event in the same database
transaction.  What makes each component correct:

- outbox: nothing is lost, duplicates only for counted failures or rolled
  back attempts, every event settles once, and eventually;
- consumer and pipeline: effects of an event happen once and together, nothing
  is acknowledged before it is settled, nothing that can be processed stays pending;
- alerts: one history that follows the diagram, one decision, timers respected,
  audit log and events that agree with it, nobody forgotten;
- ingestion: a transaction and its event are one commit; a retry makes a second
  row only if it overlaps with the first try; what is answered 202 is processed;
- compensation: each false positive counted once, whatever the pipeline does;
- scoring: bounded, monotone, a standing critical rule always raises the alarm;
- rule cache: bounded staleness, one refresh at a time; an audit log that disagrees
  with the rules only where a bulk deletion ran into another edit or failed;
- forwarder and dashboard: nothing forgotten before it was forwarded, a screen
  that agrees with the database once everything has arrived, or a known reason;
- heartbeat: living connections are not given up without cause, dead ones are.

`PROJECT.json` lists the hazards of this code line by line with the
properties that cover each.

## Modules

`OutboxDelivery` is the promise of the transactional outbox: PENDING, possibly
delivered while PENDING, settled once.  `OutboxPublisher` is the service.  A
replica's open transaction is three sets, `todo` (polled), `sent` (XADD answered)
and `failed` (`handle_publish_failure` ran); their union is what it has locked.
`Poll` is `poll_pending_events`, `Publish` and `FailPublish` are the two outcomes of
one turn of `publish_batch`, `Commit` its commit, `CommitFails` a commit that
raises, `Abort` a crash.  A failed XADD may or may not have reached the stream.
`rolled_back` is history: how often an event was tried in a transaction that came to
nothing, which accounts for the copies the retry counter does not know of, whatever
the table.  `DeadLetterInsertable` says whether the table accepts the row of the
`DeadLetterEvent` model; as deployed it does not (`error_message` and three other
columns against `last_error NOT NULL`, `failed_at`).

`AlertStateMachine` is the diagram of the repository's README.  `AlertLifecycle`
is the database transactions that move an alert: a tick is `EscalateEmail`,
`EscalateSlack` and `CommitTick` (or `AbortTick`), a request is `Submit`, then
`UpdateAlert` and `CommitRequest`, or `RejectRequest`.  Row locks decide who waits and
who skips; what is not committed is kept apart in `email`, `slack` and `request`.
A request may target any alert that ever existed, because the dashboard may be
out of date.

`StreamConsumer` is what the stream consumers share: the consumer group with its
pending entries, XREADGROUP and XAUTOCLAIM, a loop's batch in memory, and the death of
the process.  A worker is one loop of one replica, so that the loops of one
process interleave at every `await` and die together in `Crash`.  Time between
deliveries is left out: XAUTOCLAIM may hand out any set of pending messages of a
stream, including one in the hands of another loop.  `InboxConsumer` adds the
outer part of `process_single_message`, which the two consumers of the processor
have in common: `Check` (threshold, envelope, inbox), `Ack`, `DeadLetter`,
`AckDeadLetter` and `FailDeadLetter`.  A table that refuses dead letters raises out
of the batch and drops what is left of it.  `HeldUp` are the messages that may meet
this for ever: corrupt ones, and those behind a corrupt one of their stream.

`TransactionConsumer` puts the database transaction of the pipeline into it.
`RunPipeline` goes up to the last read before the commit (the transaction row
locked, the risk profile read); `CommitPipeline` or `FailPipeline` end it.  A failing
inbox query has the outcome of `FailPipeline` and is not distinguished from it.
The detection decision is the constant `Alerting`.  `EventProcessing` is what all
this promises to the rest of the system: once the processor listens, an event
that comes may be processed, once, with its alert in the same step.

`Compensation` puts the recalculation of the risk profile into it, on
`stream:compensation`, together with the second writer of that row, the
pipeline (`ReadProfile`, `RaiseAlert`), and the analysts whose decisions are the
events.  A session that read the profile writes back the columns it changed
(`Recalculated`, `Counted`), with the values computed from what it read.
`FailAround` is where this consumer differs from the other: its inbox query and
its XACK are outside the `try` block.  Scores are in steps of 0.25.

`Scoring` is the decision of the pipeline as operators: the rule types with the
order in which they look up their parameters (`FirstOf`: zero counts as absent
except in the last place), the two ways texts are compared (`Cased` for currencies,
`Canon`, which also strips, for the rest), the normalisation of the ML score,
composite score, severity, decision, demo override.  `RuleCache` is
`get_active_rules` with its await points (`Call`, `TakeLock`, `Query`, `Install`), a
clock, and the administrators in the Django control plane with their audit log.  A
bulk deletion selects its rows, logs them one by one and then deletes them in one
statement (`SelectRows`, `LogDeletion`, `DeleteRows`), or fails half-way
(`FailDeletion`), and any number of them may run at once.  `log`, `overtaken` (rules
last saved while a bulk deletion that had selected them was going on) and `spared`
(rules logged as deleted by a bulk deletion that failed) are history. `Detection`
joins them: `GetActiveRules` starts a call for one transaction, `Decide` judges it
with the rules it was answered.

`Ingestion` is `submit_transaction`: `Lookup`, then `Insert` or an answer that names the
row found, or an error (two rows, or a failing call).  Rows are known by their
number.  `TransactionFlow` joins it to instances of `OutboxDelivery` and
`EventProcessing`, the promises that `OutboxPublisher` and `TransactionConsumer`
implement: `Accept` commits a row with its event, `Deliver` is an XADD that the
processor is offered, `Settle` and `Process` are the ends of the two halves.

`NotificationForwarder` is the consumer group of the gateway over `stream:alerts`
and `stream:escalations`.  It has no inbox and no dead letters, although the
repository's README counts it among the consumers with an inbox: `Publish` may
happen several times for a message.  `Console` follows one alert over it.  `history`
lists the statuses the alert has had; notifications and answers of the REST API are
indices into it, so "older" and "newer" are comparisons.  `Broadcast` is PUBLISH,
the Pub/Sub listener and `broadcast`: a notification gets into the sockets only
while the listener is on its channel, which it is between `Subscribe` and the loss
of its connection (`LoseChannel`) or of the process.  `Receive` is
`handleWsMessage`, `OnOpen` is `ws.onopen` with its reconciliation, `GetAlerts` and
`Reconcile` are the two ends of that request, and `Click`, `Answer` and
`ShowDecision` are an action handler of the page around its call; the page offers
its buttons while it shows the alert as undecided.  `excused` records why the screen
may disagree with the database: an older message or answer came after a newer one, a
notification was published before the first socket was registered or while a new one
was not registered yet, a notification was published while the listener was off the
channel, a request failed, or the API refused, or did not get, what the page shows.

`WsManager` is the pool of connections with its three tasks.  `pinged` is
`last_ping_sent`, `owing` what the browser has not answered; `SendPing` and `NotePing`
are apart because the lock is taken again after the send; a send that raises
(`FailPing`) makes the socket one of this round's stale ones.  Time is in the
assumption that `ping_interval` exceeds `ping_timeout`, as configured: a ping still
open in the next round has timed out.

The `MC...` modules give the constants finite values; a cfg names them.  The
`..._proofs` modules hold the theorems about the module they are named after.
`StreamConsumer_proofs` has the lemmas that all three consumers share,
`InboxConsumer_proofs` those of the two consumers of the processor, and
`Gateway_proofs` the theorems about the modules of the gateway: `WsManager`,
`TransactionFlow`, `NotificationForwarder` and `Console`.

## Runs

| Run | Bounds | Shows |
|---|---|---|
| `OutboxPublisher` | 3 events, 2 replicas, batch 2, 2 retries, 1 lost transaction | safety, refinement, every event settles |
| `OutboxPublisher_no_dlq` | 1 replica, the table as deployed | a failing event never settles (violation) |
| `AlertLifecycle_race` | 1 alert, 2 schedulers, 2 analysts, time to 2, 1 abort | one history, one decision, the diagram, nobody forgotten |
| `AlertLifecycle_backlog` | 2 alerts, batch 1, 2 schedulers, 1 analyst, both timers 0 | both tiers in one tick, and a small batch forgets nobody |
| `TransactionConsumer` | 4 messages (one event twice, a corrupt one before good ones), 2 loops, threshold 2, 1 fault, a table that accepts dead letters | effects once, acknowledged late, tally not inflated, everything acknowledged; implements `EventProcessing` |
| `TransactionConsumer_lost_tally` | 3 alerts of one user, 2 loops | an alert is not counted (violation) |
| `TransactionConsumer_stalled` | a poison event, a corrupt message, a good one behind it, the table as deployed | once they have stalled, none of the three is ever recovered (violation) |
| `Compensation` | 2 alerts of one user, 4 messages (one event twice, one corrupt), 2 loops, threshold 2, 1 fault, the table as deployed | false positives once, columns kept apart, score justified, everything carried out that no corrupt message holds up |
| `Detection` | 2 coroutines, 2 administrators, 5 rules, 2 of them edited or deleted, 2 edits, 4 kinds of transactions, TTL 2, time to 3, weights of 1.1 in sum | staleness and refreshes bounded, critical rules heard, scores bounded and monotone, audit log |
| `TransactionFlow` | 3 submissions with one key | second rows only by overlap, a 202 backed by row and event, and kept |
| `Console` | 3 statuses, 3 stream entries, 1 gateway with 2 loops, batch 1, 1 request, 1 fault | the screen is right or has a reason, nothing forgotten unforwarded |
| `WsManager` | 2 connections | no connection given up without cause, dead ones leave |

Why the bounds are enough: every race in these components is between two
transactions over one row or one message, so two replicas (or the two loops of
one) and two actors of each kind exhibit it; a third event or message stands for
"the next one behind it", which batches and the profile's tally need.  One
or two aborts suffice to put a crash at every point of a run.  A bound on
retries of 2 or 3 has a first, a middle and a last failure.  `MaxCopies`
saturates a counter, `MaxTime` stops the clock after both timers (or the cache) have
run out, `MaxFaults` and `MaxAborts` bound only failures, never progress.

In `Detection` two edits are a change and its reverse, or a bulk deletion and an
edit that overtakes it; the transactions are one that matches nothing, one that
matches two rules, one that matches all at the end of every scale, and a
demonstration.  In `Console` three statuses are what it takes for an old, a newer
and a newest message; one resolution is in use, and a refusal of a different one is
represented by a call that fails; the batch of one lets the two loops of the
forwarder hold different messages of one stream; crash, failing call, dropped
connection and lost channel share one fault, so that each is met at every point but
no two in one behaviour; the gateway begins on the channel, and is off it after a
loss or a crash.  In `WsManager` connections have no influence on each other except
through the order of visits and the broadcast, which two exhibit.  Three submissions
are a first try, an overlapping one and a later retry.

Deadlock is not checked, because each system may stop: all events settled, all
alerts decided, the clock or the faults used up.

`TransactionConsumer` runs with a table that accepts dead letters, because only there
does a wrong one (`OnlyCorruptDeadLettered`) come about; what the deployed table does to
a consumer is in `Compensation` and `TransactionConsumer_stalled`.

Violations are listed under `findings` in `PROJECT.json`, each with the line of the
documentation it disagrees with.

Exceptions that a passing property makes are behaviours of the code, too, and a
reader should know them.  `StaleOnlyForCause` excuses a page that shows a decision the
API refused (`App.tsx:205` swallows the 409), an answer of the reconciliation that
takes a newer status off the screen (`App.tsx:131`), and a notification that was
published and acknowledged while the listener was off the channel
(`notification_forwarder.py:385`).  `RulesAudited` excepts the rules of a bulk deletion
that was overtaken or failed (`admin.py:97`), `SecondRowOnlyByOverlap` the rows of
overlapping handlers (`ingestion.py:71`), `GivenUpForCause` a pong recorded before its
ping was noted (`manager.py:209`).

## Fairness

Loops (`run_loop`, `run_consumer_loop`, `run_autoclaim_loop`, `run_scheduler_loop`) run
until shutdown and catch every error, and the containers restart, so polling,
reading, processing and ticking are weakly fair per worker; each waits on locks
that are held for one transaction only.  XAUTOCLAIM scans the whole list of
pending entries, so a message that is pending again and again is in a claimed
batch again and again: strong fairness per message, and none about which others
are claimed with it.  Where a corrupt message cannot be dead-lettered, being claimed is
not enough, for the message may be behind the corrupt one in every batch; such messages
(`HeldUp`) are left out of the liveness properties, and `TransactionConsumer_stalled`
shows what becomes of them.  Redis and the database need not work: failures of XADD are
unbounded, those that lose a transaction are bounded by `MaxAborts` or
`MaxFaults`.  No fairness is assumed of services that record events, of analysts,
of the pipeline in `Compensation`, of requests, or of messages arriving.

`WsManager` assumes that the heartbeat task goes on (it catches everything
but its cancellation, and sends do not block) and that the endpoint of a socket
gets to run: it enters an accepted socket into the pool, and wakes up from
`receive_text` when the socket is closed.  Nothing makes a browser answer, and
nothing makes the broadcast happen.  `TransactionFlow` assumes of the publisher and
the processor what their own runs show: `EventuallySettled` of
`OutboxPublisher` is its weak fairness of `Settle`; `EventuallyAcked` and
`AckedIsSettled` of `TransactionConsumer` are its weak fairness of `Process`.
That leaves out poison events (what the gateway has validated is taken to be
digestible for the pipeline), messages behind a corrupt one (the gateway produces no
corrupt messages), and, of the deployed table, events whose XADD never succeeds.
`Detection` and `Console` are checked for safety only.

## Proofs

`OutboxPublisher_proofs` proves, for any set of events, any replicas, batch size,
retry limit and either form of the dead-letter table (assumption
`PublisherAssumption`, the types of the constants only): type correctness, `NoLoss`,
`BoundedDuplicates`, `DeadLettersAgree`, `SettledStays`, and `Refinement` of
`OutboxDelivery`.  None of the properties is inductive alone.  `IndInv` adds
`RowLocks`: a row is in the hands of one replica, is PENDING as long as it is, is in
one of the replica's three sets, and is in the stream if the replica will mark it.
The count of copies adds, per event, the failures counted in `retry_count` and the
attempts in `rolled_back`; no assumption on the table is needed. A commit then
rewrites only PENDING rows that nobody else has, which is why the ledgers keep
agreeing and a settled event is never touched.  There is a lemma per action;
`AttemptLocks` and `EndTransactionLocks` carry the lock facts that several actions
share.  The action property and the refinement follow from `IndInv` step by step.

`AlertLifecycle_proofs` (assumption: the types of the constants) proves type
correctness, `AuditIsHistory`, `EventsAreWarranted`, `TimersRespected` and
`DecisionsStand` for any alerts, replicas, analysts and timers, and `Refinement` of
`AlertStateMachine` if the Slack delay is above zero: at zero both tiers take an
alert in one tick, over two arrows.  `RowLocks` says that a row is in the hands of
one transaction and still is as that transaction found it (`TickHolds`,
`RequestHolds`, `Exclusive`); `TimesFit` ties the escalation times to the status.  From
that, `RowChanges` reduces every step to what it does to one row.

`StreamConsumer_proofs` is about any consumer of a stream: `StreamInv(P)` are the
types of stream and loops with the phases `P`, and that a message in hand is
delivered (`InHandIsDelivered`).  A step either moves messages and leaves each loop
where it is or at the start of a message (`LoopsMove`), or takes the one current
message of one loop to its next phase.  `InboxConsumer_proofs` adds `InboxInv`: the
phase of a loop shows in the database (`PhaseIsEarned`: who is about to acknowledge
has committed), hence `AckedIsSettled`.  What the business transaction in the middle
does is left open there. `TransactionConsumer_proofs` adds the tables of the
pipeline and proves `ExactlyOnce`, `NothingForgotten`, and `Refinement` of
`EventProcessing`.  `NoGoodDeadLetter` assumes a delivery threshold above 1 (the
default is 5); its invariant is that whoever is about to write a dead letter has a
corrupt message (`DeadIsCorrupt`).  `TallySound` needs that what an open transaction
has read is no more than there is (`ReadNotInflated`), because somebody may commit
between its read and its write. `Compensation_proofs` proves `CountedOnce` and
`ScoreSound` from the same idea for the profile (`ReadsFit`), with `SentIsCleared`;
`ColumnsSeparate` follows step by step. `NothingForgotten` and `NoGoodDeadLetter`
hold here too, although the inbox query and XACK of this consumer are outside its
`try` block; the run of `Compensation` leaves these two to the proofs.
`RowsFollowDiagram`: what this module lets pipeline and analysts do to an alert is
what `AlertStateMachine` allows.

`Detection_proofs` is about any rules, edits, coroutines and lifetime of the cache.
`LockInv` (one holder of the lock, and the cache it found expired is unchanged)
gives `OneRefreshAtATime`; `AgeInv` (what the cache and the calls hold was active
since the moment they are dated by) gives `RulesAreRecent`; with `DecisionInv` (a
decision is made from rules that were recent) it gives `NoCriticalMissed`.
`MoreEvidence` and the range of the scores in `TypeCorrect` rest on lemmas about
rounding, clamping, the greatest severity and the weighted sum; they need
`ScoringAssumption` (weights and threshold are percentages) and `InputAssumption`
(the risk score is between 0 and 1, which the database checks).  `LogIsTrue` says
that the rules of the log are those of the table, in both directions and up to
`overtaken` and `spared`; it needs `LogInv`: a row that a bulk deletion has logged
is out of the log, or was saved since.

`Gateway_proofs` has three parts that share no state.

- The pool of sockets, any number of them: `GivesUpForCause`.  An open ping of a
  connection that is up is owed an answer, unless the answer was recorded before
  the ping was noted (`PoolInv`).
- Ingestion, any requests and keys.  `RetriesMakeNoRow`: rows of a key that a
  handler did not find when it looked have all come since (`LookedBefore`), so
  their handlers overlapped.  `AnswersAreBacked`, for finitely many requests: there
  are as many rows as accepted requests, so a new row and its event get a number
  nobody has (`BackedInv`); what the processor has can be followed back to a row.
- `Console`, any number of messages, gateways and requests in flight, one alert.
  `NothingForgottenUnforwarded` needs of the forwarder what the inbox consumers
  need: who is about to acknowledge has published (`ForwarderInv`).
  `QuietScreenIsRight` says something only of the moments when nothing is on its
  way, so it is far from inductive: the step that ends the last journey has
  to be known to have brought the news.  The invariant says what a screen has to
  look forward to.  While an unexcused screen has not been told the latest
  status, that status or a later one is coming to it (`Coming`): as an event in the
  outbox, a stream entry not yet published, a frame in the socket, a request that
  is being served or whose answer is new enough, or a reconnect that will send
  one.  Told the latest, it shows it or does not list the alert, and a screen
  that does not list the alert still has the creation, or a request, coming
  (`ScreenInv`).  Each step hands the news to the screen, moves it along, or
  drops it and leaves an excuse or a reconnect behind; a listener that loses its
channel drops what it had not sent (`FramesFront`), and that is an excuse.
`RowFollowsDiagram` justifies the
  alert row of this module: whatever the pipeline, the scheduler and the analysts do to
  it here is a behaviour of `AlertStateMachine`, as is what they do in `AlertLifecycle`.

Every invariant and action property of the passing runs is proved.  Model-checked
only are the liveness properties `EventuallySettled`, `NobodyForgotten`,
`EventuallyAcked`, `EventuallyCompensated`, `AcceptedIsProcessed` and
`DeadLeaveThePool` (fairness and ENABLED are outside the prover), and the violations.

## Not modelled

Telemetry, logging, error envelopes, authentication, health probes, seed,
training and simulation scripts, Django configuration and page layout keep no
state the properties depend on.  scikit-learn inference is an input (the raw
score), as are the sums of a user's trailing window.

Left out of the modelled parts: timestamps other than those the timers and the cache
compare, payload contents, the copies that dead letters also send to a `dlq` stream
(their failure is ignored by the code), and the missing pause between failing
batches.  `resolve_alert` reads the clock before it waits for the row, so its
timestamps need not follow the commit order; the models order audit rows by commit.
The detail panel of the dashboard (`selectedAlert`, filled by a request of its own)
is modelled only by its buttons.  Not modelled are the read-only endpoints
`get_alert_by_id` and `get_transaction`.  A recalculation without `user_id`, which
would be retried for ever, is not produced by `resolve_alert` and not modelled.
`Console` has no liveness: a notification is lost with its socket by design, and
what remains is what `StaleOnlyForCause` says of quiet moments.  `WsManager` has
sends that do not block; a broadcast that waits for a half-open socket with a full
buffer would delay the others until TCP gives up.  Groups are created outside the
loops' `try` blocks; the models let that succeed in the end.  The subscription is,
too; `Subscribe` has no fairness, so a listener may stay off the channel for ever.

## Plan

What is left: to extend `Console` with the detail panel of the dashboard, and its proofs
with it.
