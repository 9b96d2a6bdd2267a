\* Two alerts, a batch of one, both timers at zero: a tick takes one alert
\* through both tiers at once, and must come back for the other.
CONSTANTS
  Alert <- TwoAlerts
  Scheduler <- TwoSchedulers
  Analyst <- OneAnalyst
  ESCALATION_EMAIL_MINUTES = 0
  ESCALATION_SLACK_MINUTES = 0
  ESCALATION_BATCH_SIZE = 1
  MaxTime = 1
  MaxAborts = 0
SPECIFICATION FairSpec
PROPERTIES NobodyForgotten
CHECK_DEADLOCK FALSE
