----------------------------- MODULE Detection -----------------------------
(***************************************************************************)
(* Detection decisions: each coroutine asks the cache for the active rules *)
(* and judges a transaction by them.  What it judges (the transaction, the *)
(* velocity of the user, the risk score as it was read, the raw score of   *)
(* the model) is an input.                                                 *)
(***************************************************************************)
EXTENDS RuleCache

CONSTANTS Input

\* raw is the model's decision function, in steps of its own.
ASSUME InputAssumption ==
  \A i \in Input : i.raw \in Int /\ i.risk_score \in 0..One

VARIABLES
  input,        \* [Coroutine -> what its last decision is about, or NoInput]
  decision      \* [Coroutine -> that decision, or NoInput]

vars == <<cacheVars, input, decision>>

NoInput == <<>>

\* Decision records as process_transaction_event writes them.
IsDecision(d) ==
  /\ d.should_alert \in BOOLEAN /\ d.is_demo \in BOOLEAN
  /\ d.severity \in AlertSeverity
  /\ d.composite \in 0..One
  /\ d.matches \subseteq FraudRule

Decided(c) == input[c] # NoInput

TypeOK ==
  /\ CacheTypeOK
  /\ \A c \in Coroutine : input[c] \in Input \cup {NoInput}
  /\ \A c \in Coroutine : Decided(c) => IsDecision(decision[c])

Init ==
  /\ CacheInit
  /\ input = [c \in Coroutine |-> NoInput]
  /\ decision = [c \in Coroutine |-> NoInput]

\* process_transaction_event up to get_active_rules; the last decision of
\* the coroutine has been committed.
GetActiveRules(c) ==
  /\ pc[c] = "idle"
  /\ Call(c)
  /\ input' = [input EXCEPT ![c] = NoInput]
  /\ decision' = [decision EXCEPT ![c] = NoInput]

\* The rest of it, without an await: rules, ML score, decision, override.
Decide(c) ==
  /\ pc[c] = "evaluate"
  /\ \E i \in Input :
        /\ input' = [input EXCEPT ![c] = i]
        /\ decision' = [decision EXCEPT ![c] = Detect(rules[c], i)]
  /\ pc' = [pc EXCEPT ![c] = "idle"]
  /\ rules' = [rules EXCEPT ![c] = {}]
  /\ UNCHANGED <<now, admin, cache, called, read_at, log>>

Next ==
  \/ (Tick \/ Administer) /\ UNCHANGED <<input, decision>>
  \/ \E c \in Coroutine :
       \/ GetActiveRules(c) \/ Decide(c)
       \/ Refresh(c) /\ UNCHANGED <<input, decision>>

Spec == Init /\ [][Next]_vars

----------------------------------------------------------------------------
\* A CRITICAL rule that has been in force for REFRESH_TTL and matches the
\* transaction always raises a CRITICAL alert: no cache, no invalid row next
\* to it and no score in between hides it.
StandingCriticalAlerts ==
  \A c \in Coroutine :
    Decided(c) =>
      \A r \in FraudRule :
        (/\ r.severity = "CRITICAL" /\ Matches(r, input[c])
         /\ \A t \in Time : t > called[c] - REFRESH_TTL =>
              \A rows \in log[t] : r \in rows)
        => decision[c].should_alert /\ decision[c].severity = "CRITICAL"

Rank == [LOW |-> 1, MEDIUM |-> 2, HIGH |-> 3, CRITICAL |-> 4]

\* Of two decisions, the one with more evidence (every match of the other, as
\* bad a profile, as odd a transaction) is never the milder one.
MoreEvidenceNeverLowers ==
  \A c, d \in Coroutine :
    (/\ Decided(c) /\ Decided(d)
     /\ decision[c].matches \subseteq decision[d].matches
     /\ input[c].raw <= input[d].raw
     /\ input[c].risk_score <= input[d].risk_score
     /\ input[c].demo_scenario => input[d].demo_scenario)
    => /\ decision[c].composite <= decision[d].composite
       /\ decision[c].should_alert => decision[d].should_alert
       /\ Rank[decision[c].severity] <= Rank[decision[d].severity]

============================================================================
