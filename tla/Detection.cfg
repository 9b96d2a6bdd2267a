\* Two coroutines of one process, rules of all five types, two edits while
\* the cache expires, weights that add up to more than 1.
CONSTANTS
  Text <- Texts
  Cased <- Upper
  Canon <- Stripped
  W_RULE = 50
  W_ML = 30
  W_PROFILE = 30
  ALERT_THRESHOLD = 60
  MIN_SCORE <- Lowest
  MAX_SCORE = 50
  DEMO_MODE = TRUE
  FraudRule <- Rows
  InitialRules <- SomeRules
  Touched <- Edits
  Administrator = {a1, a2}
  Coroutine = {c1, c2}
  REFRESH_TTL = 2
  MaxTime = 3
  MaxEdits = 2
  Input <- Inputs
SPECIFICATION Spec
INVARIANTS TypeOK RulesAudited BoundedStaleness StandingCriticalAlerts MoreEvidenceNeverLowers
PROPERTIES RefreshOncePerTTL
SYMMETRY Symmetry
CHECK_DEADLOCK FALSE
