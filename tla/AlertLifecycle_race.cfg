\* One alert, two analysts and two scheduler replicas after it.
CONSTANTS
  Alert <- OneAlert
  Scheduler <- TwoSchedulers
  Analyst <- TwoAnalysts
  ESCALATION_EMAIL_MINUTES = 1
  ESCALATION_SLACK_MINUTES = 1
  ESCALATION_BATCH_SIZE = 1
  MaxTime = 2
  MaxAborts = 1
SPECIFICATION FairSpec
INVARIANTS TypeOK AuditReplaysHistory OutboxMatchesHistory EscalationTimers
PROPERTIES DecisionStands FollowsDiagram NobodyForgotten
CHECK_DEADLOCK FALSE
