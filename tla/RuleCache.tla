----------------------------- MODULE RuleCache -----------------------------
(***************************************************************************)
(* The fraud rules: the table the administrators edit, its audit log, and  *)
(* the processor's cache of the active ones, shared by the coroutines that *)
(* run the detection pipeline.                                             *)
(*                                                                         *)
(* get_active_rules reads the clock, and only if the cache has expired     *)
(* takes the lock, reads the clock again and asks the database.  Other     *)
(* coroutines, edits and time come between its await points.               *)
(***************************************************************************)
EXTENDS Scoring

CONSTANTS
  FraudRule,    \* rows there may be
  InitialRules,
  Touched,      \* bound: rows the administrators write or delete
  Administrator,
  Coroutine,
  REFRESH_TTL,  \* FRAUD_RULE_REFRESH_SECONDS, in ticks
  MaxTime,      \* bound: the clock stops
  MaxEdits      \* bound: administrators' actions

ASSUME CacheAssumption ==
  /\ InitialRules \cup Touched \subseteq FraudRule
  /\ REFRESH_TTL \in Nat \ {0} /\ MaxTime \in Nat /\ MaxEdits \in Nat

VARIABLES
  now,
  table,            \* rows of fraud_rules
  selected,         \* [Administrator -> rows its bulk deletion is to delete]
  deleting,         \* [Administrator -> those of them it has logged]
  overtaken,        \* history: rows last saved during a bulk deletion of them
  spared,           \* history: rows logged by a bulk deletion that then failed
  audited,          \* the rules as the audit log has them
  edits,
  cached,           \* _rules
  last_refreshed,   \* _last_refreshed_at
  pc,               \* [Coroutine -> step of its call]
  called,           \* [Coroutine -> when it called get_active_rules]
  read_at,          \* [Coroutine -> its clock reading under the lock, or 0]
  rules,            \* [Coroutine -> rows it was answered, or {}]
  log               \* history: [Time -> the table's contents during it]

bulk == <<selected, deleting>>
admin == <<table, bulk, overtaken, spared, audited, edits>>
cache == <<cached, last_refreshed>>
calls == <<pc, called, read_at, rules>>
cacheVars == <<now, admin, cache, calls, log>>

Time == 0..MaxTime
Never == -1

\* Mutant: one row that does not parse spoils the whole answer.
ActiveStrict(t) ==
  LET enabled == {r \in t : r.enabled} IN
  IF \A r \in enabled : r.rule_type \in RuleType /\ r.severity \in AlertSeverity
  THEN enabled ELSE {}

\* Enabled rows; one that does not parse is skipped.
Active(t) ==
  {r \in t : r.enabled /\ r.rule_type \in RuleType /\ r.severity \in AlertSeverity}

UniqueIds(t) == \A r, s \in t : r.id = s.id => r = s

ASSUME KeyAssumption == UniqueIds(InitialRules)

CacheTypeOK ==
  /\ now \in Time
  /\ table \subseteq FraudRule /\ UniqueIds(table)
  /\ selected \in [Administrator -> SUBSET FraudRule]
  /\ deleting \in [Administrator -> SUBSET FraudRule]
  /\ overtaken \subseteq FraudRule /\ spared \subseteq FraudRule
  /\ audited \subseteq FraudRule /\ UniqueIds(audited)
  /\ edits \in 0..MaxEdits
  /\ cached \subseteq FraudRule /\ UniqueIds(cached)
  /\ last_refreshed \in Time \cup {Never}
  /\ pc \in [Coroutine -> {"idle", "wait", "query", "install", "evaluate"}]
  /\ called \in [Coroutine -> Time] /\ read_at \in [Coroutine -> Time]
  /\ rules \in [Coroutine -> SUBSET FraudRule]
  /\ log \in [Time -> SUBSET SUBSET FraudRule]

CacheInit ==
  /\ now = 0
  /\ table = InitialRules /\ audited = InitialRules
  /\ selected = [a \in Administrator |-> {}]
  /\ deleting = [a \in Administrator |-> {}]
  /\ overtaken = {} /\ spared = {} /\ edits = 0
  /\ cached = {} /\ last_refreshed = Never
  /\ pc = [c \in Coroutine |-> "idle"]
  /\ called = [c \in Coroutine |-> 0]
  /\ read_at = [c \in Coroutine |-> 0]
  /\ rules = [c \in Coroutine |-> {}]
  /\ log = [t \in Time |-> IF t = 0 THEN {InitialRules} ELSE {}]

Tick ==
  /\ now < MaxTime
  /\ now' = now + 1
  /\ log' = [log EXCEPT ![now + 1] = {table}]
  /\ UNCHANGED <<admin, cache, calls>>

----------------------------------------------------------------------------
(* FraudRuleAdmin                                                          *)

Edit(t) ==
  /\ edits < MaxEdits /\ edits' = edits + 1
  /\ table' = t
  /\ log' = [log EXCEPT ![now] = @ \cup {t}]
  /\ UNCHANGED <<now, cache, calls>>

Without(t, row) == {r \in t : r.id # row.id}
Replaced(t, row) == Without(t, row) \cup {row}
Holds(t, row) == \E r \in t : r.id = row.id

\* A bulk deletion has logged the rule and is about to delete it.
Condemned(row) == \E a \in Administrator : Holds(deleting[a], row)

\* What the history notes of a saved rule.
Resaved(row) ==
  /\ overtaken' = Without(overtaken, row) \cup (IF Condemned(row) THEN {row} ELSE {})
  /\ spared' = Without(spared, row)
  /\ UNCHANGED bulk

\* Mutant: the log is given the row as it was before.
SaveModelBefore(row) ==
  /\ row \notin table
  /\ Edit(Replaced(table, row))
  /\ audited' = audited \cup {r \in table : r.id = row.id}
  /\ Resaved(row)

\* save_model, in one database transaction with its audit row.
SaveModel(row) ==
  /\ row \notin table
  /\ Edit(Replaced(table, row))
  /\ audited' = Replaced(audited, row)
  /\ Resaved(row)

\* delete_model, likewise.
DeleteModel(row) ==
  /\ row \in table
  /\ Edit(table \ {row})
  /\ audited' = Without(audited, row)
  /\ spared' = Without(spared, row)
  /\ UNCHANGED <<bulk, overtaken>>

\* delete_queryset runs outside a transaction.  It fetches its rows, ...
SelectRows(a, rows) ==
  /\ selected[a] = {}
  /\ rows # {} /\ rows \subseteq table
  /\ edits < MaxEdits /\ edits' = edits + 1
  /\ selected' = [selected EXCEPT ![a] = rows]
  /\ UNCHANGED <<now, table, deleting, overtaken, spared, audited, cache, calls, log>>

\* ... logs the deletion of one after the other ...
LogDeletion(a, row) ==
  /\ row \in selected[a] \ deleting[a]
  /\ deleting' = [deleting EXCEPT ![a] = @ \cup {row}]
  /\ audited' = Without(audited, row)
  /\ UNCHANGED <<now, table, selected, overtaken, spared, edits, cache, calls, log>>

EndDeletion(a) ==
  /\ selected[a] # {}
  /\ selected' = [selected EXCEPT ![a] = {}]
  /\ deleting' = [deleting EXCEPT ![a] = {}]
  /\ UNCHANGED <<now, overtaken, audited, edits, cache, calls>>

\* ... and then deletes what has their ids by now, ...
DeleteRows(a) ==
  /\ deleting[a] = selected[a]
  /\ table' = {r \in table : ~Holds(deleting[a], r)}
  /\ log' = [log EXCEPT ![now] = @ \cup {table'}]
  /\ spared' = {r \in spared : ~Holds(deleting[a], r)}
  /\ EndDeletion(a)

\* ... unless a statement fails on the way: what is logged stays logged.
FailDeletion(a) ==
  /\ spared' = spared \cup deleting[a]
  /\ EndDeletion(a)
  /\ UNCHANGED <<table, log>>

Administer ==
  \/ \E row \in Touched : SaveModel(row) \/ DeleteModel(row)
  \/ \E a \in Administrator :
       \/ \E rows \in SUBSET Touched : SelectRows(a, rows)
       \/ \E row \in Touched : LogDeletion(a, row)
       \/ DeleteRows(a) \/ FailDeletion(a)

----------------------------------------------------------------------------
(* get_active_rules                                                        *)

Fresh == last_refreshed # Never /\ now - last_refreshed < REFRESH_TTL

\* The call: a fresh cache answers at once.
Call(c) ==
  /\ called' = [called EXCEPT ![c] = now]
  /\ IF Fresh
     THEN rules' = [rules EXCEPT ![c] = cached] /\ pc' = [pc EXCEPT ![c] = "evaluate"]
     ELSE pc' = [pc EXCEPT ![c] = "wait"] /\ UNCHANGED rules
  /\ UNCHANGED <<now, admin, cache, read_at, log>>

LockFree == \A c \in Coroutine : pc[c] \notin {"query", "install"}

\* Mutant: no second look at the cache under the lock.
TakeLockBlindly(c) ==
  /\ pc[c] = "wait" /\ LockFree
  /\ read_at' = [read_at EXCEPT ![c] = now]
  /\ pc' = [pc EXCEPT ![c] = "query"]
  /\ UNCHANGED <<now, admin, cache, called, rules, log>>

\* The lock is taken and the cache looked at again.
TakeLock(c) ==
  /\ pc[c] = "wait" /\ LockFree
  /\ IF Fresh
     THEN /\ rules' = [rules EXCEPT ![c] = cached]
          /\ pc' = [pc EXCEPT ![c] = "evaluate"]
          /\ UNCHANGED read_at
     ELSE /\ read_at' = [read_at EXCEPT ![c] = now]
          /\ pc' = [pc EXCEPT ![c] = "query"]
          /\ UNCHANGED rules
  /\ UNCHANGED <<now, admin, cache, called, log>>

\* The database answers the query.
Query(c) ==
  /\ pc[c] = "query"
  /\ rules' = [rules EXCEPT ![c] = Active(table)]
  /\ pc' = [pc EXCEPT ![c] = "install"]
  /\ UNCHANGED <<now, admin, cache, called, read_at, log>>

\* The query raises: the cache stays as it was, and so does the message.
FailQuery(c) ==
  /\ pc[c] \in {"query", "install"}
  /\ pc' = [pc EXCEPT ![c] = "idle"]
  /\ read_at' = [read_at EXCEPT ![c] = 0]
  /\ rules' = [rules EXCEPT ![c] = {}]
  /\ UNCHANGED <<now, admin, cache, called, log>>

\* Mutant: the cache is dated by the end of the query.
InstallLate(c) ==
  /\ pc[c] = "install"
  /\ cached' = rules[c] /\ last_refreshed' = now
  /\ pc' = [pc EXCEPT ![c] = "evaluate"]
  /\ read_at' = [read_at EXCEPT ![c] = 0]
  /\ UNCHANGED <<now, admin, called, rules, log>>

\* The answer goes into the cache, dated by the clock reading before the query.
Install(c) ==
  /\ pc[c] = "install"
  /\ cached' = rules[c] /\ last_refreshed' = read_at[c]
  /\ pc' = [pc EXCEPT ![c] = "evaluate"]
  /\ read_at' = [read_at EXCEPT ![c] = 0]
  /\ UNCHANGED <<now, admin, called, rules, log>>

Refresh(c) == TakeLock(c) \/ Query(c) \/ FailQuery(c) \/ Install(c)

----------------------------------------------------------------------------
\* Replaying the audit log gives the rules in the table, both ways round.  It
\* has no rule that is not there, unless the rule was saved while it was being
\* deleted in bulk.  And no rule is there that it has not as it is, unless a
\* bulk deletion has logged the rule and is still to delete it, or has failed
\* to (save_model, delete_model, delete_queryset).
RulesAudited ==
  /\ audited \subseteq table \cup overtaken
  /\ \A r \in table \ audited : Condemned(r) \/ Holds(spared, r)

\* However many coroutines find the cache expired at a time, the database is
\* asked once in REFRESH_TTL: successive refreshes are that far apart.
RefreshOncePerTTL ==
  [][last_refreshed' # last_refreshed /\ last_refreshed # Never
       => last_refreshed' >= last_refreshed + REFRESH_TTL]_cacheVars

\* The rules a coroutine was given were the active ones at some moment less
\* than REFRESH_TTL before it asked, or since.
BoundedStaleness ==
  \A c \in Coroutine :
    pc[c] = "evaluate" =>
      \E t \in Time : /\ t > called[c] - REFRESH_TTL
                     /\ \E rows \in log[t] : rules[c] = Active(rows)

============================================================================
