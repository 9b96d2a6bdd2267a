------------------------------ MODULE Scoring ------------------------------
(***************************************************************************)
(* The pure part of the detection pipeline: the five rule types, the       *)
(* normalisation of the ML score, the composite score, severity and alert  *)
(* decision, the demo override.                                            *)
(*                                                                         *)
(* Amounts are in cents; scores in steps of 0.0001, from 0 to One; weights *)
(* and the alert threshold are in percent.  Texts are compared after       *)
(* changing their case, which is Cased (currencies), or after stripping    *)
(* them as well, which is Canon (countries, categories).                   *)
(***************************************************************************)
EXTENDS Integers, Sequences, FiniteSets

Sets == INSTANCE FiniteSetsExt

CONSTANTS
  Text, Cased, Canon,
  W_RULE, W_ML, W_PROFILE, ALERT_THRESHOLD,
  MIN_SCORE, MAX_SCORE,   \* metadata of the model: range of its raw scores
  DEMO_MODE

One == 10000
Percent == 0..100

ASSUME ScoringAssumption ==
  /\ Cased \in [Text -> Text] /\ Canon \in [Text -> Text]
  /\ {W_RULE, W_ML, W_PROFILE, ALERT_THRESHOLD} \subseteq Percent
  /\ MIN_SCORE \in Int /\ MAX_SCORE \in Int
  /\ DEMO_MODE \in BOOLEAN

RuleType == {"AMOUNT_THRESHOLD", "HIGH_RISK_COUNTRY", "VELOCITY",
             "USER_RISK_LEVEL", "MERCHANT_CATEGORY"}
AlertSeverity == {"LOW", "MEDIUM", "HIGH", "CRITICAL"}

SEVERITY_VALUES ==
  [LOW |-> 2500, MEDIUM |-> 5000, HIGH |-> 7500, CRITICAL |-> One]

----------------------------------------------------------------------------
(* Rule parameters: each is looked up under several names, in order.  A    *)
(* parameter that is not there is Absent, or the empty set for a list; a   *)
(* value that is no number is Malformed, one that is no list stands for a  *)
(* list of nothing that occurs.  Limits may be negative: the two stand     *)
(* for numbers below all that are in use.                                  *)

Absent == -2000000000
Malformed == -2000000001

\* params.get(a) or params.get(b) or ...: zero counts as absent, except in
\* the last place.
FirstOf(names) ==
  LET truthy == {i \in DOMAIN names : names[i] \notin {0, Absent}} IN
  names[IF truthy = {} THEN Len(names) ELSE Sets!Min(truthy)]

FirstListOf(names) ==
  LET truthy == {i \in DOMAIN names : names[i] # {}} IN
  IF truthy = {} THEN {} ELSE names[Sets!Min(truthy)]

Usable(limit) == limit \notin {Absent, Malformed}

AmountMatches(p, input) ==
  LET threshold == FirstOf(p.thresholds) IN
  /\ Usable(threshold)
  /\ p.currency = "" \/ Cased[p.currency] = Cased[input.currency]
  /\ IF p.operator = ">=" THEN input.amount >= threshold ELSE input.amount > threshold

Listed(list, text) == Canon[text] \in {Canon[t] : t \in list}

CountryMatches(p, input) == Listed(FirstListOf(p.countries), input.country)
CategoryMatches(p, input) == Listed(FirstListOf(p.categories), input.merchant_category)

VelocityMatches(p, input) ==
  LET max_count == FirstOf(p.counts)  max_amount == FirstOf(p.amounts) IN
  \/ Usable(max_count) /\ input.transaction_count >= max_count
  \/ Usable(max_amount) /\ input.total_amount >= max_amount

RiskMatches(p, input) ==
  LET min_risk_score == FirstOf(p.scores) IN
  Usable(min_risk_score) /\ input.risk_score >= min_risk_score

\* evaluate_rule
Matches(rule, input) ==
  /\ rule.enabled
  /\ CASE rule.rule_type = "AMOUNT_THRESHOLD"  -> AmountMatches(rule.parameters, input)
       [] rule.rule_type = "HIGH_RISK_COUNTRY" -> CountryMatches(rule.parameters, input)
       [] rule.rule_type = "VELOCITY"          -> VelocityMatches(rule.parameters, input)
       [] rule.rule_type = "USER_RISK_LEVEL"   -> RiskMatches(rule.parameters, input)
       [] rule.rule_type = "MERCHANT_CATEGORY" -> CategoryMatches(rule.parameters, input)
       [] OTHER                                -> FALSE

RuleMatches(rules, input) == {rule \in rules : Matches(rule, input)}

----------------------------------------------------------------------------
(* Scores and decision                                                     *)

Clamp(x, top) == IF x < 0 THEN 0 ELSE IF x > top THEN top ELSE x

\* x divided by d to the nearest integer, halves up.
Rounded(x, d) == (2 * x + d) \div (2 * d)

\* The inverted decision function of the model in its range; "worst" is
\* One, and a model without a range says nothing.
MlScore(raw) ==
  IF MAX_SCORE > MIN_SCORE
  THEN LET range == MAX_SCORE - MIN_SCORE IN
       Rounded(Clamp(One * (raw - MIN_SCORE), One * range), range)
  ELSE One \div 2

\* Mutant: the mildest matching rule sets the score.
SeverityScoreMildest(matches) ==
  IF matches = {} THEN 0 ELSE Sets!Min({SEVERITY_VALUES[r.severity] : r \in matches})

SeverityScore(matches) ==
  IF matches = {} THEN 0 ELSE Sets!Max({SEVERITY_VALUES[r.severity] : r \in matches})

\* Mutant: weights may add up to more than 1, and the sum is not capped.
CompositeUncapped(severity_score, ml_score, risk_score) ==
  Rounded(W_RULE * severity_score + W_ML * ml_score + W_PROFILE * risk_score, 100)

CompositeScore(severity_score, ml_score, risk_score) ==
  Rounded(Clamp(W_RULE * severity_score + W_ML * ml_score + W_PROFILE * risk_score,
                100 * One), 100)

HasCritical(matches) == \E r \in matches : r.severity = "CRITICAL"

DetermineSeverity(score, has_critical) ==
  IF has_critical \/ score >= 8500 THEN "CRITICAL"
  ELSE IF score >= 7000 THEN "HIGH"
  ELSE IF score >= 5000 THEN "MEDIUM"
  ELSE "LOW"

\* compute_detection_decision
Decision(matches, input) ==
  LET score == CompositeScore(SeverityScore(matches), MlScore(input.raw), input.risk_score) IN
  [should_alert |-> score >= 100 * ALERT_THRESHOLD \/ HasCritical(matches),
   severity     |-> DetermineSeverity(score, HasCritical(matches)),
   composite    |-> score,
   matches      |-> matches,
   is_demo      |-> FALSE]

\* The demo strategy has the last word, on tagged transactions only.
Overridden(decision, input) ==
  IF DEMO_MODE /\ input.demo_scenario
  THEN [decision EXCEPT !.should_alert = TRUE, !.severity = "CRITICAL",
                        !.composite = One, !.is_demo = TRUE]
  ELSE decision

Detect(rules, input) == Overridden(Decision(RuleMatches(rules, input), input), input)

============================================================================
