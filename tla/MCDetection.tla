---------------------------- MODULE MCDetection ----------------------------
(***************************************************************************)
(* Instances of Detection for TLC.                                         *)
(***************************************************************************)
EXTENDS Detection, TLC

Texts == {"EUR", "usd", "USD", " usd", " USD", "ir", "IR", "US", "gambling", "Gambling"}
Upper ==
  [t \in Texts |-> CASE t = "usd" -> "USD" [] t = " usd" -> " USD" [] t = "ir" -> "IR"
                     [] t = "gambling" -> "Gambling" [] OTHER -> t]
Stripped == [t \in Texts |-> IF t \in {" usd", " USD"} THEN "USD" ELSE Upper[t]]

AmountRule(threshold) ==
  [id |-> 1, rule_type |-> "AMOUNT_THRESHOLD", severity |-> "CRITICAL", enabled |-> TRUE,
   parameters |-> [thresholds |-> <<0, threshold>>, currency |-> "usd", operator |-> ">="]]
CountryRule ==
  [id |-> 2, rule_type |-> "HIGH_RISK_COUNTRY", severity |-> "MEDIUM", enabled |-> TRUE,
   parameters |-> [countries |-> <<{}, {"ir"}>>]]
VelocityRule ==
  [id |-> 3, rule_type |-> "VELOCITY", severity |-> "HIGH", enabled |-> TRUE,
   parameters |-> [counts |-> <<Malformed, 3>>, amounts |-> <<Absent, 900000>>]]
RiskRule ==
  [id |-> 4, rule_type |-> "USER_RISK_LEVEL", severity |-> "LOW", enabled |-> TRUE,
   parameters |-> [scores |-> <<Absent, 3500>>]]
CategoryRule ==
  [id |-> 5, rule_type |-> "MERCHANT_CATEGORY", severity |-> "HIGH", enabled |-> TRUE,
   parameters |-> [categories |-> <<{"gambling"}>>]]

\* The rule as an administrator may disable or misspell it.
Disabled(r) == [r EXCEPT !.enabled = FALSE]
Misspelt(r) == [r EXCEPT !.severity = "Critical"]

SomeRules == {AmountRule(500000), CountryRule, VelocityRule, RiskRule, CategoryRule}
Edits == {AmountRule(500000), Disabled(AmountRule(500000)), Misspelt(CountryRule)}
Rows == SomeRules \cup Edits

Lowest == -50
Symmetry == Permutations(Coroutine) \cup Permutations(Administrator)

Quiet ==
  [amount |-> 500000, currency |-> "EUR", country |-> "US", merchant_category |-> "US",
   transaction_count |-> 1, total_amount |-> 500000, risk_score |-> 0, raw |-> -40,
   demo_scenario |-> FALSE]
Inputs == {Quiet,
  [Quiet EXCEPT !.currency = "USD", !.country = "IR"],
  [Quiet EXCEPT !.currency = "usd", !.country = "IR", !.merchant_category = "gambling",
                !.transaction_count = 3, !.risk_score = One, !.raw = 60],
  [Quiet EXCEPT !.demo_scenario = TRUE, !.currency = " usd"]}

============================================================================
