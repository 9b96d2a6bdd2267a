-------------------------- MODULE Detection_proofs --------------------------
(***************************************************************************)
(* Proofs about Detection and the rule cache under it, for any rules,      *)
(* edits and coroutines, any lifetime of the cache, any weights, threshold *)
(* and model, and any transactions to judge.                               *)
(***************************************************************************)
EXTENDS Detection, TLAPS

USE CacheAssumption

\* Clocks, calls and history.
ClockTypeOK ==
  /\ now \in Time
  /\ last_refreshed \in Time \cup {Never}
  /\ pc \in [Coroutine -> {"idle", "wait", "query", "install", "evaluate"}]
  /\ called \in [Coroutine -> Time] /\ read_at \in [Coroutine -> Time]
  /\ rules \in [Coroutine -> SUBSET FraudRule]
  /\ table \subseteq FraudRule /\ cached \subseteq FraudRule
  /\ log \in [Time -> SUBSET SUBSET FraudRule]
  /\ \A c \in Coroutine : called[c] <= now
  /\ last_refreshed <= now

HasLock(c) == pc[c] \in {"query", "install"}

\* The lock has one holder, and the cache it found expired stays as it is.
LockInv ==
  /\ \A c, d \in Coroutine : HasLock(c) /\ HasLock(d) => c = d
  /\ \A c \in Coroutine : HasLock(c) =>
       /\ called[c] <= read_at[c] /\ read_at[c] <= now
       /\ last_refreshed # Never => read_at[c] >= last_refreshed + REFRESH_TTL

\* The rows were the active ones at some moment from t on.
ActiveSince(rows, t) ==
  \E s \in Time : t <= s /\ s <= now /\ \E rs \in log[s] : rows = Active(rs)

\* What the cache holds, and what the calls hold, is as old as they think.
AgeInv ==
  /\ table \in log[now]
  /\ last_refreshed # Never => ActiveSince(cached, last_refreshed)
  /\ \A c \in Coroutine :
       /\ pc[c] = "install" => ActiveSince(rules[c], read_at[c])
       /\ pc[c] = "evaluate" => ActiveSince(rules[c], called[c] - REFRESH_TTL + 1)

CacheInv == ClockTypeOK /\ LockInv /\ AgeInv

----------------------------------------------------------------------------
(* Time and edits                                                          *)

\* Clock and table go on, and what the table was in the past stays.
HistoryGrows ==
  /\ now <= now' /\ now' \in Time
  /\ table' \subseteq FraudRule /\ table' \in log'[now']
  /\ log' \in [Time -> SUBSET SUBSET FraudRule]
  /\ \A s \in Time : s <= now => log[s] \subseteq log'[s]

LEMMA SinceKept ==
  ASSUME HistoryGrows, now \in Time, NEW rows, NEW t \in Int, ActiveSince(rows, t)
  PROVE  ActiveSince(rows, t)'
BY DEF HistoryGrows, ActiveSince, Time

\* Nothing in the past of cache and calls depends on what comes.
LEMMA HistoryCacheInv ==
  ASSUME CacheInv, HistoryGrows, UNCHANGED <<cache, calls>>
  PROVE  CacheInv'
<1> USE DEF CacheInv, cache, calls
<1>0. /\ now \in Int /\ now' \in Int /\ last_refreshed \in Int
      /\ \A c \in Coroutine : called[c] \in Int /\ read_at[c] \in Int
  BY DEF ClockTypeOK, HistoryGrows, Time, Never
<1>1. ClockTypeOK'
  <2>1. \A c \in Coroutine : called'[c] <= now'
    BY <1>0 DEF ClockTypeOK, HistoryGrows
  <2>2. last_refreshed' <= now'
    BY <1>0 DEF ClockTypeOK, HistoryGrows
  <2> QED BY <2>1, <2>2 DEF ClockTypeOK, HistoryGrows
<1>2. LockInv'
  <2>1. \A c \in Coroutine : HasLock(c)' <=> HasLock(c)
    BY DEF HasLock
  <2> QED BY <1>0, <2>1 DEF LockInv, HistoryGrows
<1>3. AgeInv'
  <2>1. \A rows : \A t \in Int : ActiveSince(rows, t) => ActiveSince(rows, t)'
    BY SinceKept DEF ClockTypeOK
  <2>2. /\ last_refreshed \in Int /\ REFRESH_TTL \in Int
        /\ \A c \in Coroutine : called[c] \in Int /\ read_at[c] \in Int
    BY DEF ClockTypeOK, Time, Never
  <2> QED BY <2>1, <2>2 DEF AgeInv, HistoryGrows
<1> QED BY <1>1, <1>2, <1>3

LEMMA TickHistory ==
  ASSUME CacheInv, Tick
  PROVE  HistoryGrows
<1>1. /\ now \in Nat /\ now' = now + 1 /\ now' \in Time /\ UNCHANGED table
      /\ log' = [log EXCEPT ![now'] = {table}] /\ log \in [Time -> SUBSET SUBSET FraudRule]
  BY DEF CacheInv, ClockTypeOK, Tick, admin, Time
<1>2. \A s \in Time : s <= now => log'[s] = log[s]
  BY <1>1 DEF Time
<1>3. table \subseteq FraudRule
  BY DEF CacheInv, ClockTypeOK
<1> QED BY <1>1, <1>2, <1>3 DEF HistoryGrows

LEMMA AdministerHistory ==
  ASSUME CacheInv, Administer
  PROVE  HistoryGrows /\ UNCHANGED <<now, cache, calls>>
<1> USE DEF CacheInv, ClockTypeOK, AgeInv, HistoryGrows
<1>1. ASSUME table' \subseteq FraudRule, log' = [log EXCEPT ![now] = @ \cup {table'}],
             UNCHANGED now
      PROVE  HistoryGrows
  BY <1>1 DEF Time
<1>2. ASSUME NEW row \in Touched, SaveModel(row) PROVE HistoryGrows /\ UNCHANGED <<now, cache, calls>>
  <2>1. table' = Replaced(table, row) /\ Replaced(table, row) \subseteq FraudRule
    BY <1>2 DEF SaveModel, Edit, Replaced, Without
  <2> QED BY <1>1, <1>2, <2>1 DEF SaveModel, Edit
<1>3. ASSUME NEW row \in Touched, DeleteModel(row) PROVE HistoryGrows /\ UNCHANGED <<now, cache, calls>>
  BY <1>1, <1>3 DEF DeleteModel, Edit
<1>4. ASSUME NEW a \in Administrator, DeleteRows(a)
      PROVE  HistoryGrows /\ UNCHANGED <<now, cache, calls>>
  BY <1>1, <1>4 DEF DeleteRows, EndDeletion
<1>5. ASSUME UNCHANGED <<now, table, log, cache, calls>>
      PROVE  HistoryGrows /\ UNCHANGED <<now, cache, calls>>
  BY <1>5 DEF Time
<1>6. ASSUME NEW a \in Administrator,
             \/ \E rows \in SUBSET Touched : SelectRows(a, rows)
             \/ \E row \in Touched : LogDeletion(a, row)
             \/ FailDeletion(a)
      PROVE  UNCHANGED <<now, table, log, cache, calls>>
  BY <1>6 DEF SelectRows, LogDeletion, FailDeletion, EndDeletion
<1> QED BY <1>2, <1>3, <1>4, <1>5, <1>6 DEF Administer

----------------------------------------------------------------------------
(* get_active_rules                                                        *)

\* A cache that is fresh holds what was active less than REFRESH_TTL ago.
LEMMA FreshIsRecent ==
  ASSUME CacheInv, Fresh, NEW t \in Time, t <= now
  PROVE  ActiveSince(cached, t - REFRESH_TTL + 1)
<1>1. ActiveSince(cached, last_refreshed) /\ last_refreshed \in Int
  BY DEF CacheInv, AgeInv, Fresh, ClockTypeOK, Time, Never
<1>2. t - REFRESH_TTL + 1 <= last_refreshed
  BY <1>1 DEF Fresh, CacheInv, ClockTypeOK, Time
<1> QED BY <1>1, <1>2 DEF ActiveSince, Time

\* What has to be shown of a step of the coroutine c: it gets the lock only
\* when that is free, and writes the cache only when it has it.
LEMMA StepCacheInv ==
  ASSUME CacheInv, NEW c \in Coroutine, ClockTypeOK', UNCHANGED <<now, table, log>>,
         \A d \in Coroutine \ {c} :
            /\ pc'[d] = pc[d] /\ called'[d] = called[d]
            /\ read_at'[d] = read_at[d] /\ rules'[d] = rules[d],
         HasLock(c)' =>
            /\ HasLock(c) \/ LockFree
            /\ called'[c] <= read_at'[c] /\ read_at'[c] <= now
            /\ last_refreshed' # Never => read_at'[c] >= last_refreshed' + REFRESH_TTL,
         UNCHANGED cache \/ (HasLock(c) /\ ActiveSince(cached', last_refreshed')),
         pc'[c] = "install" => ActiveSince(rules'[c], read_at'[c]),
         pc'[c] = "evaluate" => ActiveSince(rules'[c], called'[c] - REFRESH_TTL + 1)
  PROVE  CacheInv'
<1> USE DEF CacheInv
<1>1. \A rows, t : ActiveSince(rows, t)' <=> ActiveSince(rows, t)
  BY DEF ActiveSince
<1>2. \A d \in Coroutine \ {c} : HasLock(d)' <=> HasLock(d)
  BY DEF HasLock
<1>3. \A d, e \in Coroutine : HasLock(d)' /\ HasLock(e)' => d = e
  BY <1>2 DEF LockInv, LockFree, HasLock
<1>4. \A d \in Coroutine \ {c} : HasLock(d) => UNCHANGED cache
  BY DEF LockInv
<1>5. LockInv'
  BY <1>2, <1>3, <1>4 DEF LockInv, cache
<1>6. AgeInv'
  <2>1. table' \in log'[now'] /\ (last_refreshed' # Never => ActiveSince(cached, last_refreshed)')
    BY <1>1 DEF AgeInv, cache
  <2>2. ASSUME NEW d \in Coroutine
        PROVE  /\ pc'[d] = "install" => ActiveSince(rules[d], read_at[d])'
               /\ pc'[d] = "evaluate" => ActiveSince(rules[d], called[d] - REFRESH_TTL + 1)'
    <3>1. CASE d = c
      BY <1>1, <3>1
    <3>2. CASE d # c
      BY <1>1, <3>2 DEF AgeInv
    <3> QED BY <3>1, <3>2
  <2> QED BY <2>1, <2>2 DEF AgeInv
<1> QED BY <1>5, <1>6

LEMMA CallCacheInv ==
  ASSUME CacheInv, NEW c \in Coroutine, pc[c] = "idle", Call(c)
  PROVE  CacheInv'
<1> USE DEF CacheInv, Call, admin, cache
<1>1. ClockTypeOK'
  <2>1. /\ pc' \in [Coroutine -> {"idle", "wait", "query", "install", "evaluate"}]
        /\ called' \in [Coroutine -> Time] /\ rules' \in [Coroutine -> SUBSET FraudRule]
    BY DEF ClockTypeOK
  <2>2. \A d \in Coroutine : called'[d] = called[d] \/ called'[d] = now
    BY DEF ClockTypeOK
  <2>3. now <= now
    BY DEF ClockTypeOK, Time
  <2> QED BY <2>1, <2>2, <2>3 DEF ClockTypeOK
<1>2. /\ pc'[c] = IF Fresh THEN "evaluate" ELSE "wait"
      /\ called'[c] = now
      /\ Fresh => rules'[c] = cached
  BY DEF ClockTypeOK
<1>3. Fresh => ActiveSince(cached, now - REFRESH_TTL + 1)
  BY FreshIsRecent DEF ClockTypeOK, Time
<1>4. \A d \in Coroutine \ {c} :
         /\ pc'[d] = pc[d] /\ called'[d] = called[d]
         /\ read_at'[d] = read_at[d] /\ rules'[d] = rules[d]
  BY DEF ClockTypeOK
<1> QED BY <1>1, <1>2, <1>3, <1>4, StepCacheInv DEF HasLock

LEMMA TakeLockCacheInv ==
  ASSUME CacheInv, NEW c \in Coroutine, TakeLock(c)
  PROVE  CacheInv'
<1> USE DEF CacheInv, TakeLock, admin, cache
<1>1. ClockTypeOK'
  BY DEF ClockTypeOK
<1>2. /\ pc'[c] = IF Fresh THEN "evaluate" ELSE "query"
      /\ called'[c] = called[c] /\ called[c] <= now /\ called[c] \in Time
      /\ Fresh => rules'[c] = cached
      /\ ~Fresh => read_at'[c] = now
  BY DEF ClockTypeOK
<1>3. Fresh => ActiveSince(cached, called[c] - REFRESH_TTL + 1)
  BY <1>2, FreshIsRecent
<1>4. ~Fresh => now \in Int /\ (last_refreshed # Never => now >= last_refreshed + REFRESH_TTL)
  BY DEF Fresh, ClockTypeOK, Time, Never
<1>5. \A d \in Coroutine \ {c} :
         /\ pc'[d] = pc[d] /\ called'[d] = called[d]
         /\ read_at'[d] = read_at[d] /\ rules'[d] = rules[d]
  BY DEF ClockTypeOK
<1> QED BY <1>1, <1>2, <1>3, <1>4, <1>5, StepCacheInv DEF HasLock

LEMMA QueryCacheInv ==
  ASSUME CacheInv, NEW c \in Coroutine, Query(c)
  PROVE  CacheInv'
<1> USE DEF CacheInv, Query, admin, cache
<1>1. ClockTypeOK'
  BY DEF ClockTypeOK, Active
<1>2. /\ pc'[c] = "install" /\ HasLock(c)
      /\ called'[c] = called[c] /\ read_at'[c] = read_at[c] /\ rules'[c] = Active(table)
  BY DEF ClockTypeOK, HasLock
<1>3. ActiveSince(Active(table), read_at[c])
  BY <1>2 DEF AgeInv, LockInv, ActiveSince, ClockTypeOK, Time
<1>4. \A d \in Coroutine \ {c} :
         /\ pc'[d] = pc[d] /\ called'[d] = called[d]
         /\ read_at'[d] = read_at[d] /\ rules'[d] = rules[d]
  BY DEF ClockTypeOK
<1> QED BY <1>1, <1>2, <1>3, <1>4, StepCacheInv DEF LockInv

LEMMA FailQueryCacheInv ==
  ASSUME CacheInv, NEW c \in Coroutine, FailQuery(c)
  PROVE  CacheInv'
<1> USE DEF CacheInv, FailQuery, admin, cache
<1>1. ClockTypeOK'
  BY DEF ClockTypeOK, Time
<1>2. pc'[c] = "idle"
  BY DEF ClockTypeOK
<1>3. \A d \in Coroutine \ {c} :
         /\ pc'[d] = pc[d] /\ called'[d] = called[d]
         /\ read_at'[d] = read_at[d] /\ rules'[d] = rules[d]
  BY DEF ClockTypeOK
<1> QED BY <1>1, <1>2, <1>3, StepCacheInv DEF HasLock

\* The one step that writes the cache.
LEMMA InstallCacheInv ==
  ASSUME CacheInv, NEW c \in Coroutine, Install(c)
  PROVE  /\ CacheInv'
         /\ last_refreshed # Never => last_refreshed' >= last_refreshed + REFRESH_TTL
<1> USE DEF CacheInv, Install, admin, cache
<1>1. /\ HasLock(c)
      /\ called[c] <= read_at[c] /\ read_at[c] <= now
      /\ last_refreshed # Never => read_at[c] >= last_refreshed + REFRESH_TTL
  BY DEF LockInv, HasLock
<1>2. ClockTypeOK'
  BY <1>1 DEF ClockTypeOK, Time
<1>3. /\ pc'[c] = "evaluate" /\ called'[c] = called[c] /\ rules'[c] = rules[c]
      /\ cached' = rules[c] /\ last_refreshed' = read_at[c]
      /\ called[c] \in Int /\ read_at[c] \in Int
  BY DEF ClockTypeOK, Time
<1>4. ActiveSince(rules[c], read_at[c])
  BY DEF AgeInv
<1>5. called[c] - REFRESH_TTL + 1 <= read_at[c]
  BY <1>1, <1>3
<1>6. ActiveSince(rules[c], called[c] - REFRESH_TTL + 1)
  BY <1>3, <1>4, <1>5 DEF ActiveSince, Time
<1>7. \A d \in Coroutine \ {c} :
         /\ pc'[d] = pc[d] /\ called'[d] = called[d]
         /\ read_at'[d] = read_at[d] /\ rules'[d] = rules[d]
  BY DEF ClockTypeOK
<1>8. CacheInv'
  BY <1>1, <1>2, <1>3, <1>4, <1>6, <1>7, StepCacheInv DEF HasLock
<1> QED BY <1>1, <1>3, <1>8

LEMMA DecideCacheInv ==
  ASSUME CacheInv, NEW c \in Coroutine, Decide(c)
  PROVE  CacheInv'
<1> USE DEF CacheInv, Decide, admin, cache
<1>1. ClockTypeOK'
  BY DEF ClockTypeOK
<1>2. pc'[c] = "idle"
  BY DEF ClockTypeOK
<1>3. \A d \in Coroutine \ {c} :
         /\ pc'[d] = pc[d] /\ called'[d] = called[d]
         /\ read_at'[d] = read_at[d] /\ rules'[d] = rules[d]
  BY DEF ClockTypeOK
<1> QED BY <1>1, <1>2, <1>3, StepCacheInv DEF HasLock

----------------------------------------------------------------------------
(* Every behaviour                                                         *)

LEMMA InitCacheInv == Init => CacheInv
<1> SUFFICES ASSUME Init PROVE CacheInv
  OBVIOUS
<1> USE DEF Init, CacheInit
<1>1. ClockTypeOK
  BY DEF ClockTypeOK, Time, Never
<1>2. LockInv
  BY DEF LockInv, HasLock
<1>3. AgeInv
  BY DEF AgeInv, Time
<1> QED BY <1>1, <1>2, <1>3 DEF CacheInv

LEMMA NextCacheInv == ASSUME CacheInv, [Next]_vars PROVE CacheInv'
<1>1. CASE UNCHANGED vars
  <2>1. UNCHANGED <<now, table, log, cache, calls>>
    BY <1>1 DEF vars, cacheVars, admin
  <2>2. HistoryGrows
    BY <2>1 DEF HistoryGrows, CacheInv, ClockTypeOK, AgeInv, Time
  <2> QED BY <2>1, <2>2, HistoryCacheInv
<1>2. CASE Tick
  BY <1>2, TickHistory, HistoryCacheInv DEF Tick
<1>3. CASE Administer
  BY <1>3, AdministerHistory, HistoryCacheInv
<1>4. ASSUME NEW c \in Coroutine, GetActiveRules(c) \/ Decide(c) \/ Refresh(c)
      PROVE  CacheInv'
  BY <1>4, CallCacheInv, DecideCacheInv, TakeLockCacheInv, QueryCacheInv, FailQueryCacheInv,
     InstallCacheInv DEF GetActiveRules, Refresh
<1> QED BY <1>1, <1>2, <1>3, <1>4 DEF Next

LEMMA Always == Spec => []CacheInv
<1>1. CacheInv /\ [Next]_vars => CacheInv'
  BY NextCacheInv
<1> QED BY <1>1, InitCacheInv, PTL DEF Spec

\* What a coroutine is about to evaluate was active recently.
LEMMA WasActive ==
  ASSUME CacheInv, NEW c \in Coroutine, pc[c] = "evaluate"
  PROVE  \E t \in Time : /\ t > called[c] - REFRESH_TTL /\ t <= now
                         /\ \E rows \in log[t] : rules[c] = Active(rows)
<1>1. PICK t \in Time : /\ called[c] - REFRESH_TTL + 1 <= t /\ t <= now
                       /\ \E rows \in log[t] : rules[c] = Active(rows)
  BY DEF CacheInv, AgeInv, ActiveSince
<1>2. t \in Int /\ called[c] \in Int
  BY DEF CacheInv, ClockTypeOK, Time
<1>3. t > called[c] - REFRESH_TTL
  BY <1>1, <1>2
<1> QED BY <1>1, <1>3

\* Whoever asks gets rules that were the active ones at some moment less than
\* REFRESH_TTL before the call, or since.
THEOREM RulesAreRecent == Spec => []BoundedStaleness
<1>1. CacheInv => BoundedStaleness
  <2> SUFFICES ASSUME CacheInv, NEW c \in Coroutine, pc[c] = "evaluate"
               PROVE  \E t \in Time : /\ t > called[c] - REFRESH_TTL
                                      /\ \E rows \in log[t] : rules[c] = Active(rows)
    BY DEF BoundedStaleness
  <2> QED BY WasActive
<1> QED BY <1>1, Always, PTL

\* Two refreshes of the cache are REFRESH_TTL apart, however many coroutines
\* find it expired at the same time.
THEOREM OneRefreshAtATime == Spec => RefreshOncePerTTL
<1> DEFINE Apart == last_refreshed' # last_refreshed /\ last_refreshed # Never
                      => last_refreshed' >= last_refreshed + REFRESH_TTL
<1>1. CacheInv /\ [Next]_vars => [Apart]_cacheVars
  <2> SUFFICES ASSUME CacheInv, [Next]_vars PROVE Apart
    OBVIOUS
  <2>1. ASSUME NEW c \in Coroutine, Install(c) PROVE Apart
    BY <2>1, InstallCacheInv
  <2>2. CASE UNCHANGED cache
    BY <2>2 DEF cache
  <2> QED BY <2>1, <2>2
          DEF Next, Tick, Administer, SaveModel, DeleteModel, SelectRows, LogDeletion, DeleteRows,
              FailDeletion, EndDeletion, Edit,
              GetActiveRules, Call, Decide, Refresh, TakeLock, Query, FailQuery, vars, cacheVars
<1> QED BY <1>1, Always, PTL DEF Spec, RefreshOncePerTTL

----------------------------------------------------------------------------
(* Decisions                                                               *)

\* A decision is made from rules that were active recently.
DecisionIsRecent(c) ==
  \E t \in Time :
    /\ t > called[c] - REFRESH_TTL /\ t <= now
    /\ \E rows \in log[t] : decision[c] = Detect(Active(rows), input[c])

DecisionInv ==
  /\ DOMAIN input = Coroutine /\ DOMAIN decision = Coroutine
  /\ \A c \in Coroutine : Decided(c) => input[c] \in Input /\ DecisionIsRecent(c)

\* A critical match alone makes a decision a critical alert; the demo
\* override does not make it milder.
LEMMA CriticalMatchDecides ==
  ASSUME NEW i, NEW rs, NEW r \in rs, r.severity = "CRITICAL", Matches(r, i)
  PROVE  Detect(rs, i).should_alert /\ Detect(rs, i).severity = "CRITICAL"
<1>1. HasCritical(RuleMatches(rs, i))
  BY DEF HasCritical, RuleMatches
<1> DEFINE d == Decision(RuleMatches(rs, i), i)
<1>2. d.severity = "CRITICAL"
  BY <1>1 DEF Decision, DetermineSeverity
<1>3. d.should_alert
  <2> DEFINE score == CompositeScore(SeverityScore(RuleMatches(rs, i)), MlScore(i.raw), i.risk_score)
             enough == score >= 100 * ALERT_THRESHOLD \/ HasCritical(RuleMatches(rs, i))
  <2>1. d = [should_alert |-> enough,
             severity     |-> DetermineSeverity(score, HasCritical(RuleMatches(rs, i))),
             composite    |-> score,
             matches      |-> RuleMatches(rs, i),
             is_demo      |-> FALSE]
    BY DEF Decision
  <2>2. enough = TRUE
    BY <1>1
  <2> HIDE DEF d, enough, score
  <2>3. d.should_alert = enough
    BY <2>1
  <2> QED BY <2>2, <2>3
<1>4. {"should_alert", "severity"} \subseteq DOMAIN d
  BY DEF Decision
<1> HIDE DEF d
<1>5. CASE DEMO_MODE /\ i.demo_scenario
  <2>1. Overridden(d, i) = [d EXCEPT !.should_alert = TRUE, !.severity = "CRITICAL",
                                     !.composite = One, !.is_demo = TRUE]
    BY <1>5 DEF Overridden
  <2> QED BY <1>4, <2>1 DEF Detect, d
<1>6. CASE ~(DEMO_MODE /\ i.demo_scenario)
  <2>1. Overridden(d, i) = d
    BY <1>6, Zenon DEF Overridden
  <2> QED BY <1>2, <1>3, <2>1 DEF Detect, d
<1> QED BY <1>5, <1>6

LEMMA NextDecisionInv == ASSUME CacheInv, DecisionInv, [Next]_vars PROVE DecisionInv'
<1> USE DEF DecisionInv
<1>1. CASE UNCHANGED <<input, decision, called>> /\ HistoryGrows
  <2>1. ASSUME NEW c \in Coroutine, DecisionIsRecent(c) PROVE DecisionIsRecent(c)'
    <3>1. PICK t \in Time : /\ t > called[c] - REFRESH_TTL /\ t <= now
                            /\ \E rows \in log[t] : decision[c] = Detect(Active(rows), input[c])
      BY <2>1 DEF DecisionIsRecent
    <3>2. t <= now' /\ log[t] \subseteq log'[t]
      BY <3>1, <1>1 DEF HistoryGrows, CacheInv, ClockTypeOK, Time
    <3> QED BY <3>1, <3>2, <1>1 DEF DecisionIsRecent
  <2> QED BY <1>1, <2>1 DEF Decided
<1>2. ASSUME NEW c \in Coroutine, GetActiveRules(c) PROVE DecisionInv'
  <2>1. \A d \in Coroutine \ {c} : UNCHANGED <<input[d], decision[d], called[d], now, log>>
    BY <1>2 DEF GetActiveRules, Call, CacheInv, ClockTypeOK
  <2>2. \A d \in Coroutine \ {c} : DecisionIsRecent(d) => DecisionIsRecent(d)'
    BY <2>1 DEF DecisionIsRecent
  <2>3. /\ DOMAIN input' = Coroutine /\ DOMAIN decision' = Coroutine /\ ~Decided(c)'
    BY <1>2 DEF GetActiveRules, Decided
  <2> QED BY <2>1, <2>2, <2>3 DEF Decided
<1>3. ASSUME NEW c \in Coroutine, Decide(c) PROVE DecisionInv'
  <2>1. \A d \in Coroutine \ {c} : UNCHANGED <<input[d], decision[d], called[d], now, log>>
    BY <1>3 DEF Decide
  <2>2. \A d \in Coroutine \ {c} : DecisionIsRecent(d) => DecisionIsRecent(d)'
    BY <2>1 DEF DecisionIsRecent
  <2>3. PICK t \in Time : /\ t > called[c] - REFRESH_TTL /\ t <= now
                          /\ \E rows \in log[t] : rules[c] = Active(rows)
    BY <1>3, WasActive DEF Decide
  <2>4. /\ DOMAIN input' = Coroutine /\ DOMAIN decision' = Coroutine
        /\ input'[c] \in Input /\ decision'[c] = Detect(rules[c], input'[c])
        /\ UNCHANGED <<called, now, log>>
    BY <1>3 DEF Decide
  <2>5. DecisionIsRecent(c)'
    BY <2>3, <2>4 DEF DecisionIsRecent
  <2> QED BY <2>1, <2>2, <2>4, <2>5 DEF Decided
<1>4. CASE UNCHANGED vars \/ ((Tick \/ Administer) /\ UNCHANGED <<input, decision>>)
  <2>1. HistoryGrows
    BY <1>4, TickHistory, AdministerHistory
       DEF vars, cacheVars, admin, HistoryGrows, CacheInv, ClockTypeOK, AgeInv, Time
  <2>2. UNCHANGED called
    BY <1>4, AdministerHistory DEF vars, cacheVars, calls, Tick
  <2> QED BY <1>1, <1>4, <2>1, <2>2 DEF vars
<1>5. ASSUME NEW c \in Coroutine, Refresh(c), UNCHANGED <<input, decision>>
      PROVE  DecisionInv'
  <2>1. UNCHANGED <<now, table, log, called>>
    BY <1>5 DEF Refresh, TakeLock, Query, FailQuery, Install, admin
  <2>2. HistoryGrows
    BY <2>1 DEF HistoryGrows, CacheInv, ClockTypeOK, AgeInv, Time
  <2> QED BY <1>1, <1>5, <2>1, <2>2
<1> QED BY <1>2, <1>3, <1>4, <1>5 DEF Next

\* A CRITICAL rule that stood in the table for REFRESH_TTL before the call and
\* ever since raises a CRITICAL alert on every transaction it matches.
THEOREM NoCriticalMissed == Spec => []StandingCriticalAlerts
<1>1. Init => DecisionInv
  BY DEF Init, DecisionInv, Decided
<1>2. CacheInv /\ DecisionInv /\ [Next]_vars => DecisionInv'
  BY NextDecisionInv
<1>3. DecisionInv => StandingCriticalAlerts
  <2> SUFFICES ASSUME DecisionInv, NEW c \in Coroutine, Decided(c), NEW r \in FraudRule,
                      r.severity = "CRITICAL", Matches(r, input[c]),
                      \A t \in Time : t > called[c] - REFRESH_TTL =>
                         \A rows \in log[t] : r \in rows
               PROVE  decision[c].should_alert /\ decision[c].severity = "CRITICAL"
    BY DEF StandingCriticalAlerts
  <2>1. PICK t \in Time : /\ t > called[c] - REFRESH_TTL
                          /\ \E rows \in log[t] : decision[c] = Detect(Active(rows), input[c])
    BY DEF DecisionInv, DecisionIsRecent
  <2>2. PICK rows \in log[t] : decision[c] = Detect(Active(rows), input[c])
    BY <2>1
  <2>3. r \in rows
    BY <2>1
  <2>4. r.enabled /\ r.rule_type \in RuleType
    BY DEF Matches, RuleType
  <2>5. r \in Active(rows)
    BY <2>3, <2>4 DEF Active, AlertSeverity
  <2> QED BY <2>2, <2>5, CriticalMatchDecides
<1> QED BY <1>1, <1>2, <1>3, Always, PTL DEF Spec

----------------------------------------------------------------------------
(* Scores                                                                  *)

LEMMA Division ==
  ASSUME NEW a \in Int, NEW d \in Int, d > 0
  PROVE  /\ a \div d \in Int
         /\ d * (a \div d) <= a
         /\ a < d * (a \div d) + d
BY Z3

LEMMA ProductMonotone ==
  ASSUME NEW a \in Int, NEW b \in Int, NEW w \in Nat, a <= b
  PROVE  w * a \in Int /\ w * b \in Int /\ w * a <= w * b
BY Z3

LEMMA QuotientMonotone ==
  ASSUME NEW a \in Int, NEW b \in Int, NEW d \in Int, d > 0, a <= b
  PROVE  a \div d \in Int /\ b \div d \in Int /\ a \div d <= b \div d
<1> DEFINE q == a \div d
           r == b \div d
<1>1. q \in Int /\ r \in Int /\ d * q <= a /\ b < d * r + d
  BY Division
<1> HIDE DEF q, r
<1>2. d * q < d * r + d
  BY <1>1, Z3
<1>3. q < r + 1
  BY <1>1, <1>2, Z3
<1> QED BY <1>1, <1>3 DEF q, r

\* Rounding keeps the order, and the ends of the scale.
LEMMA RoundedMonotone ==
  ASSUME NEW x \in Int, NEW y \in Int, NEW d \in Int, d > 0, x <= y
  PROVE  /\ Rounded(x, d) \in Int /\ Rounded(y, d) \in Int
         /\ Rounded(x, d) <= Rounded(y, d)
<1>1. 2 * x + d \in Int /\ 2 * y + d \in Int /\ 2 * x + d <= 2 * y + d /\ 2 * d > 0 /\ 2 * d \in Int
  OBVIOUS
<1> QED BY <1>1, QuotientMonotone DEF Rounded

LEMMA RoundedInScale ==
  ASSUME NEW x \in Int, NEW d \in Int, d > 0, 0 <= x, x <= One * d
  PROVE  Rounded(x, d) \in 0..One
<1> DEFINE q == (2 * x + d) \div (2 * d)
<1>1. q \in Int /\ (2 * d) * q <= 2 * x + d /\ 2 * x + d < (2 * d) * q + 2 * d
  BY Division
<1> HIDE DEF q
<1>2. (2 * d) * q <= (2 * d) * One + d
  BY <1>1 DEF One
<1>3. q < One + 1
  <2>1. d * (2 * q - 2 * One - 1) <= 0
    BY <1>1, <1>2, Z3 DEF One
  <2>2. 2 * q - 2 * One - 1 <= 0
    BY <1>1, <2>1, Z3 DEF One
  <2> QED BY <1>1, <2>2 DEF One
<1>4. q >= 0
  <2>1. d * (2 * q + 1) >= 0
    BY <1>1, Z3
  <2>2. 2 * q + 1 >= 0
    BY <1>1, <2>1, Z3
  <2> QED BY <1>1, <2>2
<1> QED BY <1>1, <1>3, <1>4 DEF q, Rounded, One

LEMMA ClampMonotone ==
  ASSUME NEW x \in Int, NEW y \in Int, NEW top \in Nat, x <= y
  PROVE  /\ Clamp(x, top) \in 0..top /\ Clamp(y, top) \in 0..top
         /\ Clamp(x, top) <= Clamp(y, top)
BY DEF Clamp

\* The odder a transaction looks to the model, the higher its score.
LEMMA MlScoreMonotone ==
  ASSUME NEW r \in Int, NEW s \in Int, r <= s
  PROVE  MlScore(r) \in 0..One /\ MlScore(s) \in 0..One /\ MlScore(r) <= MlScore(s)
<1> USE ScoringAssumption
<1>1. CASE MAX_SCORE > MIN_SCORE
  <2> DEFINE range == MAX_SCORE - MIN_SCORE
             x == Clamp(One * (r - MIN_SCORE), One * range)
             y == Clamp(One * (s - MIN_SCORE), One * range)
  <2>1. range \in Int /\ range > 0 /\ One * range \in Nat
    BY <1>1 DEF One
  <2>2. One * (r - MIN_SCORE) \in Int /\ One * (s - MIN_SCORE) \in Int
        /\ One * (r - MIN_SCORE) <= One * (s - MIN_SCORE)
    BY DEF One
  <2>3. x \in 0..(One * range) /\ y \in 0..(One * range) /\ x <= y
    BY <2>1, <2>2, ClampMonotone
  <2>4. MlScore(r) = Rounded(x, range) /\ MlScore(s) = Rounded(y, range)
    BY <1>1 DEF MlScore
  <2> HIDE DEF x, y, range
  <2> QED BY <2>1, <2>3, <2>4, RoundedMonotone, RoundedInScale
<1>2. CASE ~(MAX_SCORE > MIN_SCORE)
  BY <1>2 DEF MlScore, One
<1> QED BY <1>1, <1>2

\* The Max of FiniteSetsExt.
Greatest(S) == CHOOSE x \in S : \A y \in S : x >= y

LEMMA GreatestIsBound ==
  ASSUME NEW V, \E x \in V : \A y \in V : x >= y
  PROVE  Greatest(V) \in V /\ \A y \in V : Greatest(V) >= y
BY Zenon DEF Greatest

\* A severity score is the greatest of its values.
LEMMA GreatestValue ==
  ASSUME NEW V, V \subseteq {2500, 5000, 7500, One}, NEW e \in V
  PROVE  Greatest(V) \in V /\ \A v \in V : Greatest(V) >= v
<1>1. \E x \in V : \A y \in V : x >= y
  <2>1. CASE One \in V
    BY <2>1 DEF One
  <2>2. CASE One \notin V /\ 7500 \in V
    BY <2>2 DEF One
  <2>3. CASE One \notin V /\ 7500 \notin V /\ 5000 \in V
    BY <2>3 DEF One
  <2>4. CASE One \notin V /\ 7500 \notin V /\ 5000 \notin V
    BY <2>4 DEF One
  <2> QED BY <2>1, <2>2, <2>3, <2>4
<1> QED BY ONLY <1>1, GreatestIsBound

\* The worst of more matches is no better.
LEMMA SeverityScoreMonotone ==
  ASSUME NEW ms, NEW ns, ms \subseteq ns, \A r \in ns : r.severity \in AlertSeverity
  PROVE  /\ SeverityScore(ms) \in 0..One /\ SeverityScore(ns) \in 0..One
         /\ SeverityScore(ms) <= SeverityScore(ns)
<1> DEFINE Values(rs) == {SEVERITY_VALUES[r.severity] : r \in rs}
<1>1. \A s \in AlertSeverity : SEVERITY_VALUES[s] \in {2500, 5000, 7500, One}
  BY DEF AlertSeverity, SEVERITY_VALUES
<1>2. Values(ns) \in SUBSET {2500, 5000, 7500, One} /\ Values(ms) \subseteq Values(ns)
  BY <1>1
<1>3. (Values(ms) = {} <=> ms = {}) /\ (Values(ns) = {} <=> ns = {})
  OBVIOUS
<1>4. /\ SeverityScore(ms) = IF ms = {} THEN 0 ELSE Greatest(Values(ms))
      /\ SeverityScore(ns) = IF ns = {} THEN 0 ELSE Greatest(Values(ns))
  BY DEF SeverityScore, Sets!Max, Greatest
<1> HIDE DEF Values
<1>5. CASE ms = {}
  <2>1. ns # {} => Greatest(Values(ns)) \in {2500, 5000, 7500, One}
    BY GreatestValue, <1>2, <1>3
  <2> QED BY <1>4, <1>5, <2>1 DEF One
<1>6. CASE ms # {}
  <2>1. /\ Greatest(Values(ms)) \in Values(ms) /\ Greatest(Values(ns)) \in Values(ns)
        /\ \A v \in Values(ns) : Greatest(Values(ns)) >= v
    <3>1. /\ Values(ms) \in SUBSET {2500, 5000, 7500, One} /\ Values(ms) # {}
          /\ Values(ns) \in SUBSET {2500, 5000, 7500, One} /\ Values(ns) # {}
      BY <1>2, <1>3, <1>6
    <3> QED BY GreatestValue, <3>1
  <2>2. Greatest(Values(ms)) <= Greatest(Values(ns))
    BY <1>2, <2>1
  <2>3. {2500, 5000, 7500, One} \subseteq 0..One
    BY DEF One
  <2>4. ns # {} /\ SeverityScore(ms) = Greatest(Values(ms)) /\ SeverityScore(ns) = Greatest(Values(ns))
    BY <1>4, <1>6
  <2> QED BY <1>2, <2>1, <2>2, <2>3, <2>4
<1> QED BY <1>5, <1>6

LEMMA CompositeScoreMonotone ==
  ASSUME NEW a \in 0..One, NEW b \in 0..One, NEW x \in 0..One, NEW y \in 0..One,
         NEW k \in 0..One, NEW l \in 0..One, a <= b, x <= y, k <= l
  PROVE  /\ CompositeScore(a, x, k) \in 0..One /\ CompositeScore(b, y, l) \in 0..One
         /\ CompositeScore(a, x, k) <= CompositeScore(b, y, l)
<1> USE ScoringAssumption
<1>1. W_RULE \in Nat /\ W_ML \in Nat /\ W_PROFILE \in Nat
  BY DEF Percent
<1>2. W_RULE * a \in Int /\ W_RULE * b \in Int /\ W_RULE * a <= W_RULE * b
  BY <1>1, ProductMonotone
<1>3. W_ML * x \in Int /\ W_ML * y \in Int /\ W_ML * x <= W_ML * y
  BY <1>1, ProductMonotone
<1>4. W_PROFILE * k \in Int /\ W_PROFILE * l \in Int /\ W_PROFILE * k <= W_PROFILE * l
  BY <1>1, ProductMonotone
<1> DEFINE low  == W_RULE * a + W_ML * x + W_PROFILE * k
           high == W_RULE * b + W_ML * y + W_PROFILE * l
           top  == 100 * One
           u    == Clamp(low, top)
           v    == Clamp(high, top)
<1>5. low \in Int /\ high \in Int /\ low <= high
  BY <1>2, <1>3, <1>4
<1>6. CompositeScore(a, x, k) = Rounded(u, 100) /\ CompositeScore(b, y, l) = Rounded(v, 100)
  BY Zenon DEF CompositeScore
<1>7. top \in Nat /\ top = One * 100
  BY DEF One
<1> HIDE DEF low, high, top
<1>8. u \in 0..top /\ v \in 0..top /\ u <= v
  BY <1>5, <1>7, ClampMonotone
<1> HIDE DEF u, v
<1>9. u \in Int /\ v \in Int /\ 0 <= u /\ u <= top /\ 0 <= v /\ v <= top
  BY <1>7, <1>8
<1> QED BY <1>6, <1>7, <1>8, <1>9, RoundedMonotone, RoundedInScale

\* What Detect decides, field by field.
Score(rs, i) ==
  CompositeScore(SeverityScore(RuleMatches(rs, i)), MlScore(i.raw), i.risk_score)

Demo(i) == DEMO_MODE /\ i.demo_scenario

LEMMA DetectFields ==
  ASSUME NEW rs, NEW i
  PROVE  /\ Detect(rs, i).matches = RuleMatches(rs, i)
         /\ Demo(i) => /\ Detect(rs, i).composite = One
                       /\ Detect(rs, i).should_alert
                       /\ Detect(rs, i).severity = "CRITICAL"
         /\ ~Demo(i) =>
              /\ Detect(rs, i).composite = Score(rs, i)
              /\ Detect(rs, i).should_alert =
                   (Score(rs, i) >= 100 * ALERT_THRESHOLD \/ HasCritical(RuleMatches(rs, i)))
              /\ Detect(rs, i).severity =
                   DetermineSeverity(Score(rs, i), HasCritical(RuleMatches(rs, i)))
<1> DEFINE ms == RuleMatches(rs, i)
           enough == Score(rs, i) >= 100 * ALERT_THRESHOLD \/ HasCritical(ms)
           severe == DetermineSeverity(Score(rs, i), HasCritical(ms))
           d == [should_alert |-> enough, severity |-> severe, composite |-> Score(rs, i),
                 matches |-> ms, is_demo |-> FALSE]
<1>1. Decision(ms, i) = d
  BY Zenon DEF Decision, Score
<1>2. Detect(rs, i) = Overridden(d, i)
  BY <1>1, Zenon DEF Detect
<1> HIDE DEF ms, enough, severe
<1>3. CASE Demo(i)
  <2>1. Detect(rs, i) = [d EXCEPT !.should_alert = TRUE, !.severity = "CRITICAL",
                                  !.composite = One, !.is_demo = TRUE]
    BY <1>2, <1>3, Zenon DEF Overridden, Demo
  <2>2. /\ Detect(rs, i).matches = ms /\ Detect(rs, i).composite = One
        /\ Detect(rs, i).should_alert /\ Detect(rs, i).severity = "CRITICAL"
    BY <2>1
  <2> QED BY <1>3, <2>2 DEF ms
<1>4. CASE ~Demo(i)
  <2>1. Detect(rs, i) = d
    BY <1>2, <1>4, Zenon DEF Overridden, Demo
  <2>2. /\ Detect(rs, i).matches = ms /\ Detect(rs, i).composite = Score(rs, i)
        /\ Detect(rs, i).should_alert = enough /\ Detect(rs, i).severity = severe
    BY <2>1
  <2> QED BY <1>4, <2>2 DEF ms, enough, severe
<1> QED BY <1>3, <1>4

\* More matches, an odder transaction and a worse profile never make a
\* decision milder.
LEMMA DetectMonotone ==
  ASSUME NEW rs, NEW qs, NEW i \in Input, NEW j \in Input,
         \A r \in rs \cup qs : r.severity \in AlertSeverity,
         RuleMatches(rs, i) \subseteq RuleMatches(qs, j),
         i.raw <= j.raw, i.risk_score <= j.risk_score, Demo(i) => Demo(j)
  PROVE  /\ Detect(rs, i).composite <= Detect(qs, j).composite
         /\ Detect(rs, i).should_alert => Detect(qs, j).should_alert
         /\ Rank[Detect(rs, i).severity] <= Rank[Detect(qs, j).severity]
<1> DEFINE p == HasCritical(RuleMatches(rs, i))
           q == HasCritical(RuleMatches(qs, j))
           x == Score(rs, i)
           y == Score(qs, j)
<1>1. p => q
  BY DEF HasCritical
<1>2. x \in 0..One /\ y \in 0..One /\ x <= y
  <2>1. \A r \in RuleMatches(qs, j) : r.severity \in AlertSeverity
    BY DEF RuleMatches
  <2>2. /\ i.raw \in Int /\ j.raw \in Int
        /\ i.risk_score \in 0..One /\ j.risk_score \in 0..One
    BY InputAssumption
  <2>3. /\ SeverityScore(RuleMatches(rs, i)) \in 0..One
        /\ SeverityScore(RuleMatches(qs, j)) \in 0..One
        /\ SeverityScore(RuleMatches(rs, i)) <= SeverityScore(RuleMatches(qs, j))
    BY <2>1, SeverityScoreMonotone
  <2>4. MlScore(i.raw) \in 0..One /\ MlScore(j.raw) \in 0..One /\ MlScore(i.raw) <= MlScore(j.raw)
    BY <2>2, MlScoreMonotone
  <2> QED BY <2>2, <2>3, <2>4, CompositeScoreMonotone DEF Score
<1> HIDE DEF p, q, x, y
<1>3. /\ DetermineSeverity(x, p) \in AlertSeverity /\ DetermineSeverity(y, q) \in AlertSeverity
      /\ Rank[DetermineSeverity(x, p)] <= Rank[DetermineSeverity(y, q)]
  BY <1>1, <1>2 DEF DetermineSeverity, Rank, AlertSeverity, One
<1>4. \A s \in AlertSeverity : Rank[s] <= Rank["CRITICAL"]
  BY DEF Rank, AlertSeverity
<1>5. CASE Demo(j)
  <2>1. /\ Detect(qs, j).composite = One /\ Detect(qs, j).should_alert
        /\ Detect(qs, j).severity = "CRITICAL"
    BY <1>5, DetectFields
  <2>2. CASE Demo(i)
    <3>1. Detect(rs, i).composite = One /\ Detect(rs, i).severity = "CRITICAL"
      BY <2>2, DetectFields
    <3> QED BY <2>1, <3>1 DEF One, Rank
  <2>3. CASE ~Demo(i)
    <3>1. Detect(rs, i).composite = x /\ Detect(rs, i).severity = DetermineSeverity(x, p)
      BY <2>3, DetectFields DEF x, p
    <3> QED BY <1>2, <1>3, <1>4, <2>1, <3>1
  <2> QED BY <2>2, <2>3
<1>6. CASE ~Demo(j)
  <2>1. ~Demo(i)
    BY <1>6
  <2>2. /\ Detect(rs, i).composite = x /\ Detect(qs, j).composite = y
        /\ Detect(rs, i).severity = DetermineSeverity(x, p)
        /\ Detect(qs, j).severity = DetermineSeverity(y, q)
    BY <1>6, <2>1, DetectFields DEF x, y, p, q
  <2>3. /\ Detect(rs, i).should_alert = (x >= 100 * ALERT_THRESHOLD \/ p)
        /\ Detect(qs, j).should_alert = (y >= 100 * ALERT_THRESHOLD \/ q)
    BY <1>6, <2>1, DetectFields DEF x, y, p, q
  <2>4. x >= 100 * ALERT_THRESHOLD => y >= 100 * ALERT_THRESHOLD
    BY <1>2, ScoringAssumption DEF Percent
  <2> QED BY <1>1, <1>2, <1>3, <2>2, <2>3, <2>4, Zenon
<1> QED BY <1>5, <1>6

\* Of any two decisions, the one with more evidence is not the milder one,
\* whatever the weights, the threshold and the range of the model.
THEOREM MoreEvidence == Spec => []MoreEvidenceNeverLowers
<1>1. Init => DecisionInv
  BY DEF Init, DecisionInv, Decided
<1>2. CacheInv /\ DecisionInv /\ [Next]_vars => DecisionInv'
  BY NextDecisionInv
<1>3. DecisionInv => MoreEvidenceNeverLowers
  <2> SUFFICES ASSUME DecisionInv, NEW c \in Coroutine, NEW d \in Coroutine,
                      Decided(c), Decided(d),
                      decision[c].matches \subseteq decision[d].matches,
                      input[c].raw <= input[d].raw,
                      input[c].risk_score <= input[d].risk_score,
                      input[c].demo_scenario => input[d].demo_scenario
               PROVE  /\ decision[c].composite <= decision[d].composite
                      /\ decision[c].should_alert => decision[d].should_alert
                      /\ Rank[decision[c].severity] <= Rank[decision[d].severity]
    BY Zenon DEF MoreEvidenceNeverLowers
  <2>1. PICK t \in Time : \E rows \in log[t] : decision[c] = Detect(Active(rows), input[c])
    BY DEF DecisionInv, DecisionIsRecent
  <2>2. PICK rows \in log[t] : decision[c] = Detect(Active(rows), input[c])
    BY <2>1
  <2>3. PICK u \in Time : \E rs \in log[u] : decision[d] = Detect(Active(rs), input[d])
    BY DEF DecisionInv, DecisionIsRecent
  <2>4. PICK rs \in log[u] : decision[d] = Detect(Active(rs), input[d])
    BY <2>3
  <2>5. \A r \in Active(rows) \cup Active(rs) : r.severity \in AlertSeverity
    BY DEF Active
  <2>6. RuleMatches(Active(rows), input[c]) \subseteq RuleMatches(Active(rs), input[d])
    BY <2>2, <2>4, DetectFields
  <2>7. Demo(input[c]) => Demo(input[d])
    BY Zenon DEF Demo
  <2>8. input[c] \in Input /\ input[d] \in Input
    BY DEF DecisionInv
  <2> QED BY <2>2, <2>4, <2>5, <2>6, <2>7, <2>8, DetectMonotone
<1> QED BY <1>1, <1>2, <1>3, Always, PTL DEF Spec

----------------------------------------------------------------------------
(* Types                                                                   *)

\* Rules are known by their ids in the table, the log, the cache and what a
\* coroutine holds.
KeysInv ==
  /\ UniqueIds(table) /\ UniqueIds(audited) /\ UniqueIds(cached)
  /\ \A c \in Coroutine : UniqueIds(rules[c])
  /\ audited \subseteq FraudRule /\ overtaken \subseteq FraudRule /\ spared \subseteq FraudRule
  /\ selected \in [Administrator -> SUBSET FraudRule]
  /\ deleting \in [Administrator -> SUBSET FraudRule]
  /\ edits \in 0..MaxEdits

LEMMA AdministerKeysInv ==
  ASSUME KeysInv, table \subseteq FraudRule, Administer
  PROVE  KeysInv'
<1> USE DEF KeysInv, UniqueIds
<1>1. UNCHANGED <<cached, rules>>
  BY DEF Administer, SaveModel, DeleteModel, SelectRows, LogDeletion, DeleteRows, FailDeletion,
         EndDeletion, Edit, cache, calls
<1>2. ASSUME NEW row \in Touched, SaveModel(row) PROVE KeysInv'
  <2>1. /\ table' = Without(table, row) \cup {row}
        /\ audited' = Without(audited, row) \cup {row}
        /\ overtaken' \subseteq overtaken \cup {row} /\ spared' \subseteq spared
        /\ UNCHANGED bulk /\ edits < MaxEdits /\ edits' = edits + 1
    BY <1>2 DEF SaveModel, Edit, Replaced, Resaved, Without
  <2>2. \A t, r : r \in Without(t, row) <=> r \in t /\ r.id # row.id
    BY DEF Without
  <2>3. UniqueIds(table)' /\ UniqueIds(audited)'
    BY <2>1, <2>2
  <2>4. /\ audited' \subseteq FraudRule /\ overtaken' \subseteq FraudRule
        /\ spared' \subseteq FraudRule /\ edits' \in 0..MaxEdits
    BY <2>1, <2>2
  <2> QED BY <1>1, <2>1, <2>3, <2>4 DEF bulk
<1>3. ASSUME NEW row \in Touched, DeleteModel(row) PROVE KeysInv'
  BY <1>1, <1>3 DEF DeleteModel, Edit, Without, bulk
<1>4. ASSUME NEW a \in Administrator, NEW rs \in SUBSET Touched, SelectRows(a, rs) PROVE KeysInv'
  BY <1>1, <1>4 DEF SelectRows
<1>5. ASSUME NEW a \in Administrator, NEW row \in Touched, LogDeletion(a, row) PROVE KeysInv'
  BY <1>1, <1>5 DEF LogDeletion, Without
<1>6. ASSUME NEW a \in Administrator, DeleteRows(a) PROVE KeysInv'
  BY <1>1, <1>6 DEF DeleteRows, EndDeletion
<1>7. ASSUME NEW a \in Administrator, FailDeletion(a) PROVE KeysInv'
  BY <1>1, <1>7 DEF FailDeletion, EndDeletion
<1> QED BY <1>2, <1>3, <1>4, <1>5, <1>6, <1>7 DEF Administer

LEMMA NextKeysInv == ASSUME CacheInv, KeysInv, [Next]_vars PROVE KeysInv'
<1>1. table \subseteq FraudRule /\ DOMAIN rules = Coroutine
  BY DEF CacheInv, ClockTypeOK
<1>2. CASE Tick \/ UNCHANGED vars
  BY <1>2 DEF KeysInv, UniqueIds, Tick, admin, bulk, cache, calls, vars, cacheVars
<1>3. CASE Administer
  BY <1>1, <1>3, AdministerKeysInv
<1>4. ASSUME NEW c \in Coroutine, GetActiveRules(c) \/ Decide(c) \/ Refresh(c)
      PROVE  KeysInv'
  <2>1. UNCHANGED <<table, audited, selected, deleting, overtaken, spared, edits>>
    BY <1>4 DEF GetActiveRules, Call, Decide, Refresh, TakeLock, Query, FailQuery, Install,
                admin, bulk
  <2>2. UniqueIds({}) /\ UniqueIds(Active(table))
    BY DEF KeysInv, UniqueIds, Active
  <2>3. \A d \in Coroutine : rules'[d] \in {rules[d], cached, Active(table), {}}
    BY <1>1, <1>4
       DEF GetActiveRules, Call, Decide, Refresh, TakeLock, Query, FailQuery, Install
  <2>4. cached' \in {cached, rules[c]}
    BY <1>4 DEF GetActiveRules, Call, Decide, Refresh, TakeLock, Query, FailQuery, Install, cache
  <2> QED BY <2>1, <2>2, <2>3, <2>4 DEF KeysInv, UniqueIds
<1> QED BY <1>2, <1>3, <1>4 DEF Next

\* A decision is a record of its type, with a score on the scale.
LEMMA DetectType ==
  ASSUME NEW rs \in SUBSET FraudRule, NEW i \in Input,
         \A r \in rs : r.severity \in AlertSeverity
  PROVE  IsDecision(Detect(rs, i))
<1>1. Score(rs, i) \in 0..One
  <2>1. \A r \in RuleMatches(rs, i) : r.severity \in AlertSeverity
    BY DEF RuleMatches
  <2>2. i.raw \in Int /\ i.risk_score \in 0..One
    BY InputAssumption
  <2>3. SeverityScore(RuleMatches(rs, i)) \in 0..One
    BY <2>1, SeverityScoreMonotone
  <2>4. MlScore(i.raw) \in 0..One
    BY <2>2, MlScoreMonotone
  <2>5. \A x \in 0..One : x <= x
    BY DEF One
  <2> DEFINE v == SeverityScore(RuleMatches(rs, i))
             m == MlScore(i.raw)
             k == i.risk_score
  <2>6. v <= v /\ m <= m /\ k <= k
    BY <2>2, <2>3, <2>4, <2>5, Zenon
  <2> HIDE DEF v, m, k
  <2>7. CompositeScore(v, m, k) \in 0..One
    BY <2>2, <2>3, <2>4, <2>6, CompositeScoreMonotone DEF v, m, k
  <2> QED BY <2>7 DEF Score, v, m, k
<1> DEFINE ms == RuleMatches(rs, i)
           enough == Score(rs, i) >= 100 * ALERT_THRESHOLD \/ HasCritical(ms)
           severe == DetermineSeverity(Score(rs, i), HasCritical(ms))
           d == [should_alert |-> enough, severity |-> severe, composite |-> Score(rs, i),
                 matches |-> ms, is_demo |-> FALSE]
<1>2. Decision(ms, i) = d
  BY Zenon DEF Decision, Score
<1>3. ms \subseteq FraudRule
  BY DEF RuleMatches
<1>4. severe \in AlertSeverity
  BY DEF DetermineSeverity, AlertSeverity
<1>5. enough \in BOOLEAN
  OBVIOUS
<1>6. IsDecision(d)
  <2> HIDE DEF ms, enough, severe
  <2> QED BY <1>1, <1>3, <1>4, <1>5 DEF IsDecision
<1>7. IsDecision([d EXCEPT !.should_alert = TRUE, !.severity = "CRITICAL",
                           !.composite = One, !.is_demo = TRUE])
  <2> HIDE DEF ms, enough, severe
  <2> QED BY <1>3 DEF IsDecision, AlertSeverity, One
<1> HIDE DEF d
<1> QED BY <1>2, <1>6, <1>7, Zenon DEF Detect, Overridden

\* Cache, coroutines, administrators and decisions stay in their types; in
\* particular every composite score is between 0 and 1, although weights may
\* add up to more than 1.
THEOREM TypeCorrect == Spec => []TypeOK
<1>1. Init => DecisionInv
  BY DEF Init, DecisionInv, Decided
<1>2. CacheInv /\ DecisionInv /\ [Next]_vars => DecisionInv'
  BY NextDecisionInv
<1>3. Init => KeysInv
  BY KeyAssumption DEF Init, CacheInit, KeysInv, UniqueIds
<1>4. CacheInv /\ KeysInv /\ [Next]_vars => KeysInv'
  BY NextKeysInv
<1>5. CacheInv /\ KeysInv /\ DecisionInv => TypeOK
  <2> SUFFICES ASSUME CacheInv, KeysInv, DecisionInv PROVE TypeOK
    OBVIOUS
  <2>1. CacheTypeOK
    BY DEF CacheInv, ClockTypeOK, KeysInv, CacheTypeOK
  <2>2. \A c \in Coroutine : input[c] \in Input \cup {NoInput}
    BY DEF DecisionInv, Decided
  <2>3. ASSUME NEW c \in Coroutine, Decided(c) PROVE IsDecision(decision[c])
    <3>1. PICK t \in Time : \E rows \in log[t] : decision[c] = Detect(Active(rows), input[c])
      BY <2>3 DEF DecisionInv, DecisionIsRecent
    <3>2. PICK rows \in log[t] : decision[c] = Detect(Active(rows), input[c])
      BY <3>1
    <3>3. Active(rows) \in SUBSET FraudRule /\ \A r \in Active(rows) : r.severity \in AlertSeverity
      BY DEF CacheInv, ClockTypeOK, Active
    <3>4. input[c] \in Input
      BY <2>3 DEF DecisionInv
    <3> QED BY <3>2, <3>3, <3>4, DetectType
  <2> QED BY <2>1, <2>2, <2>3 DEF TypeOK
<1> QED BY <1>1, <1>2, <1>3, <1>4, <1>5, Always, PTL DEF Spec

----------------------------------------------------------------------------
(* The audit log                                                           *)

\* What a bulk deletion is about to delete is out of the log already, or has
\* been saved after that.
LogInv ==
  /\ UniqueIds(table)
  /\ deleting \in [Administrator -> SUBSET FraudRule]
  /\ RulesAudited
  /\ \A r \in audited : Condemned(r) => r \in overtaken

\* The rules a step of the administrators does not touch keep their excuses.
LEMMA AdministerLogInv == ASSUME LogInv, Administer PROVE LogInv'
<1> USE DEF LogInv, UniqueIds, RulesAudited
<1>0. \A t, row, r : r \in Without(t, row) <=> r \in t /\ r.id # row.id
  BY DEF Without
<1>1. ASSUME NEW row \in Touched, SaveModel(row) PROVE LogInv'
  <2>1. /\ table' = Without(table, row) \cup {row}
        /\ audited' = Without(audited, row) \cup {row}
        /\ overtaken' = Without(overtaken, row) \cup (IF Condemned(row) THEN {row} ELSE {})
        /\ spared' = Without(spared, row)
        /\ deleting' = deleting
    BY <1>1 DEF SaveModel, Edit, Replaced, Resaved, bulk
  <2>2. \A r : Condemned(r)' <=> Condemned(r)
    BY <2>1 DEF Condemned
  <2>3. \A r : r.id # row.id => (Holds(spared, r)' <=> Holds(spared, r))
    BY <1>0, <2>1 DEF Holds
  <2>4. UniqueIds(table)'
    BY <1>0, <2>1
  <2>5. audited' \subseteq table' \cup overtaken'
    BY <1>0, <2>1
  <2>6. ASSUME NEW r \in table' \ audited' PROVE Condemned(r)' \/ Holds(spared, r)'
    <3>1. r \in table \ audited /\ r.id # row.id
      BY <1>0, <2>1, <2>6
    <3> QED BY <2>2, <2>3, <3>1
  <2>7. \A r \in audited' : Condemned(r)' => r \in overtaken'
    BY <1>0, <2>1, <2>2
  <2> QED BY <2>1, <2>4, <2>5, <2>6, <2>7
<1>2. ASSUME NEW row \in Touched, DeleteModel(row) PROVE LogInv'
  <2>1. /\ table' = table \ {row} /\ row \in table
        /\ audited' = Without(audited, row)
        /\ spared' = Without(spared, row)
        /\ deleting' = deleting /\ overtaken' = overtaken
    BY <1>2 DEF DeleteModel, Edit, bulk
  <2>2. \A r : Condemned(r)' <=> Condemned(r)
    BY <2>1 DEF Condemned
  <2>3. \A r : r.id # row.id => (Holds(spared, r)' <=> Holds(spared, r))
    BY <1>0, <2>1 DEF Holds
  <2>4. \A r \in table' : r \in table /\ r.id # row.id
    BY <2>1
  <2>5. \A r \in table' \ audited' : Condemned(r)' \/ Holds(spared, r)'
    BY <1>0, <2>1, <2>2, <2>3, <2>4
  <2> QED BY <1>0, <2>1, <2>2, <2>4, <2>5
<1>3. ASSUME NEW a \in Administrator, NEW rows \in SUBSET Touched, SelectRows(a, rows)
      PROVE  LogInv'
  BY <1>3 DEF SelectRows, Condemned, Holds
<1>4. ASSUME NEW a \in Administrator, NEW row \in Touched, LogDeletion(a, row) PROVE LogInv'
  <2>1. /\ audited' = Without(audited, row)
        /\ deleting' = [deleting EXCEPT ![a] = @ \cup {row}]
        /\ UNCHANGED <<table, overtaken, spared>>
    BY <1>4 DEF LogDeletion
  <2>2. \A r : Condemned(r)' <=> Condemned(r) \/ r.id = row.id
    <3>1. /\ \A b \in Administrator : deleting[b] \subseteq deleting'[b]
          /\ deleting'[a] = deleting[a] \cup {row}
          /\ \A b \in Administrator \ {a} : deleting'[b] = deleting[b]
      BY <2>1
    <3> QED BY <3>1 DEF Condemned, Holds
  <2>3. deleting' \in [Administrator -> SUBSET FraudRule]
    BY <2>1, CacheAssumption
  <2>4. \A r : Holds(spared, r)' <=> Holds(spared, r)
    BY <2>1 DEF Holds
  <2>5. \A r \in table' \ audited' : Condemned(r)' \/ Holds(spared, r)'
    BY <1>0, <2>1, <2>2, <2>4
  <2> QED BY <1>0, <2>1, <2>2, <2>3, <2>5
<1>5. ASSUME NEW a \in Administrator, EndDeletion(a)
      PROVE  /\ deleting' \in [Administrator -> SUBSET FraudRule]
             /\ \A r : Condemned(r)' => Condemned(r)
             /\ \A r : Condemned(r) => Condemned(r)' \/ Holds(deleting[a], r)
             /\ UNCHANGED <<audited, overtaken>>
  <2>1. /\ deleting'[a] = {}
        /\ \A b \in Administrator \ {a} : deleting'[b] = deleting[b]
        /\ deleting' \in [Administrator -> SUBSET FraudRule]
        /\ UNCHANGED <<audited, overtaken>>
    BY <1>5 DEF EndDeletion
  <2> QED BY <2>1 DEF Condemned, Holds
<1>6. ASSUME NEW a \in Administrator, DeleteRows(a) PROVE LogInv'
  <2>1. /\ table' = {r \in table : ~Holds(deleting[a], r)}
        /\ spared' = {r \in spared : ~Holds(deleting[a], r)}
    BY <1>6 DEF DeleteRows
  <2>2. \A r \in table' : Holds(spared, r) => Holds(spared, r)'
    BY <2>1 DEF Holds
  <2>3. \A r \in audited : Holds(deleting[a], r) => r \in overtaken
    BY <1>6 DEF Condemned
  <2>4. audited' \subseteq table' \cup overtaken'
    BY <1>5, <1>6, <2>1, <2>3 DEF DeleteRows
  <2>5. \A r \in table' \ audited' : Condemned(r)' \/ Holds(spared, r)'
    BY <1>5, <1>6, <2>1, <2>2 DEF DeleteRows
  <2> QED BY <1>5, <1>6, <2>1, <2>4, <2>5 DEF DeleteRows
<1>7. ASSUME NEW a \in Administrator, FailDeletion(a) PROVE LogInv'
  <2>1. table' = table /\ spared' = spared \cup deleting[a]
    BY <1>7 DEF FailDeletion
  <2>2. \A r : Holds(spared, r) \/ Holds(deleting[a], r) => Holds(spared, r)'
    BY <2>1 DEF Holds
  <2>3. \A r \in table' \ audited' : Condemned(r)' \/ Holds(spared, r)'
    BY <1>5, <1>7, <2>1, <2>2 DEF FailDeletion
  <2> QED BY <1>5, <1>7, <2>1, <2>3 DEF FailDeletion
<1> QED BY <1>1, <1>2, <1>3, <1>4, <1>6, <1>7 DEF Administer

\* Audit log and table say the same of every rule, for any number of
\* administrators, but for the rules a bulk deletion has logged and not
\* deleted and those saved during it.
THEOREM LogIsTrue == Spec => []RulesAudited
<1>1. Init => LogInv
  BY KeyAssumption DEF Init, CacheInit, LogInv, RulesAudited, Condemned, Holds
<1>2. LogInv /\ [Next]_vars => LogInv'
  <2> SUFFICES ASSUME LogInv, [Next]_vars PROVE LogInv'
    OBVIOUS
  <2>1. CASE UNCHANGED admin
    BY <2>1 DEF admin, bulk, LogInv, UniqueIds, RulesAudited, Condemned, Holds
  <2> QED BY <2>1, AdministerLogInv
          DEF Next, Tick, GetActiveRules, Call, Decide, Refresh, TakeLock, Query, FailQuery,
              Install, vars, cacheVars
<1>3. LogInv => RulesAudited
  BY DEF LogInv
<1> QED BY <1>1, <1>2, <1>3, PTL DEF Spec

============================================================================
